------------------------------ MODULE Injector ------------------------------
(***************************************************************************)
(* KeyInjector (key_injector.py) and MouseInjector (mouse_injector.py) on  *)
(* the Windows desktop, and the two threads of win-receiver main.py that   *)
(* call them without a lock:                                               *)
(*                                                                         *)
(*   client   injects the reports of a connection, and releases everything *)
(*            when it ends                                                 *)
(*   main     releases everything first thing in stop(), then stops the    *)
(*            client                                                       *)
(*                                                                         *)
(* Each injector remembers the last report and injects the difference to   *)
(* it.  A step is one read or one assignment of that memory, or one call   *)
(* of SendInput.  Movement and scrolling hold nothing and are left out.    *)
(***************************************************************************)
EXTENDS Integers, FiniteSets

CONSTANTS
    Codes,      \* HID usage codes a report may carry
    Modifiers,  \* modifier bits
    Buttons,    \* mouse buttons
    Vk,         \* HID_TO_VK and HID_MOD_TO_VK
    MaxLost,    \* bound: events SendInput does not insert
    Stops       \* bound: whether the receiver may be stopped

VALID_HID_RANGE == DOMAIN Vk \cap Codes

ASSUME InjectorAssumption ==
    /\ Modifiers \subseteq DOMAIN Vk
    /\ Codes \cap Modifiers = {}
    /\ \A m \in Modifiers : \A k \in DOMAIN Vk \ {m} : Vk[m] # Vk[k]
    /\ \A k \in DOMAIN Vk : Vk[k] \notin Buttons
    /\ IsFiniteSet({Vk[k] : k \in DOMAIN Vk} \cup Buttons)
    /\ MaxLost \in Nat
    /\ Stops \in BOOLEAN

Client == "client"
Main == "main"
Threads == {Client, Main}

VARIABLES
    prevModifiers,  \* KeyInjector._prev_modifiers
    prevKeys,       \* KeyInjector._prev_keys
    prevButtons,    \* MouseInjector._prev_buttons
    down,           \* virtual keys and buttons held on the desktop
    pc,             \* where each thread is
    running,        \* RFCOMMClient._running
    report,         \* the report the client thread is injecting
    inputs,         \* what each thread is about to pass to SendInput
    lost,           \* events SendInput did not insert
    overlapped      \* history: stop() released while a report was being injected

memory == <<prevModifiers, prevKeys, prevButtons>>
vars == <<memory, down, pc, running, report, inputs, lost, overlapped>>

NoReport == [modifiers |-> {}, keys |-> {}, buttons |-> {}]
NoInputs == [up |-> {}, press |-> {}]

InjectSteps == {"releases", "presses", "send", "storeModifiers", "storeKeys",
                "storeButtons", "sendButtons"}
ReleaseSteps == {"relModifiers", "relKeys", "relSend", "relStoreModifiers",
                 "relStoreKeys", "relButtons", "relSendButtons", "relStoreButtons"}
ClientSteps == {"idle", "off", "gone"} \cup InjectSteps \cup ReleaseSteps
MainSteps == {"up", "stop", "join", "down"} \cup ReleaseSteps

Keycodes(S) == {Vk[k] : k \in S}
Events == Keycodes(DOMAIN Vk) \cup Buttons

InjTypeOK ==
    /\ prevModifiers \subseteq Modifiers
    /\ prevKeys \subseteq VALID_HID_RANGE
    /\ prevButtons \subseteq Buttons
    /\ down \subseteq Events
    /\ pc \in [Threads -> ClientSteps \cup MainSteps]
    /\ pc[Client] \in ClientSteps
    /\ pc[Main] \in MainSteps
    /\ running \in BOOLEAN
    /\ report \in [modifiers : SUBSET Modifiers, keys : SUBSET VALID_HID_RANGE,
                   buttons : SUBSET Buttons]
    /\ inputs \in [Threads -> [up : SUBSET Events, press : SUBSET Events]]
    /\ lost \in 0 .. MaxLost
    /\ overlapped \in BOOLEAN

Init ==
    /\ prevModifiers = {}
    /\ prevKeys = {}
    /\ prevButtons = {}
    /\ down = {}
    /\ pc = [t \in Threads |-> IF t = Client THEN "off" ELSE "up"]
    /\ running = TRUE
    /\ report = NoReport
    /\ inputs = [t \in Threads |-> NoInputs]
    /\ lost = 0
    /\ overlapped = FALSE

Goto(t, from, to) == pc[t] = from /\ pc' = [pc EXCEPT ![t] = to]

\* Adds to what thread t is about to send.
Add(t, up, press) ==
    inputs' = [inputs EXCEPT ![t] = [up |-> @.up \cup up, press |-> @.press \cup press]]

(***************************************************************************)
(* SendInput inserts a batch as one, releases before presses.  It may      *)
(* insert only part of it, or none; the callers only log that.             *)
(***************************************************************************)
SendInput(t) ==
    \E up \in SUBSET inputs[t].up, press \in SUBSET inputs[t].press :
        /\ lost' = lost + Cardinality(inputs[t].up \ up)
                        + Cardinality(inputs[t].press \ press)
        /\ lost' <= MaxLost
        /\ down' = (down \ up) \cup press
        /\ inputs' = [inputs EXCEPT ![t] = NoInputs]

-----------------------------------------------------------------------------
(* KeyInjector.inject_report and MouseInjector.inject_pointer              *)

\* The codes outside the whitelist are dropped; modifiers are compared first.
InjectReport(modifiers, codes) ==
    /\ Goto(Client, "idle", "releases")
    /\ report' = [NoReport EXCEPT !.modifiers = modifiers,
                                  !.keys = codes \cap VALID_HID_RANGE]
    /\ Add(Client, Keycodes(prevModifiers \ modifiers), Keycodes(modifiers \ prevModifiers))
    /\ UNCHANGED <<memory, down, running, lost>>

\* Mutant: a key that is in the report again counts as released.
MutReleases ==
    /\ Goto(Client, "releases", "presses")
    /\ Add(Client, Keycodes(prevKeys \cap report.keys), {})
    /\ UNCHANGED <<memory, down, running, report, lost>>

Releases ==
    /\ Goto(Client, "releases", "presses")
    /\ Add(Client, Keycodes(prevKeys \ report.keys), {})
    /\ UNCHANGED <<memory, down, running, report, lost>>

Presses ==
    /\ Goto(Client, "presses", "send")
    /\ Add(Client, {}, Keycodes(report.keys \ prevKeys))
    /\ UNCHANGED <<memory, down, running, report, lost>>

SendKeys ==
    /\ Goto(Client, "send", "storeModifiers")
    /\ SendInput(Client)
    /\ UNCHANGED <<memory, running, report>>

\* Mutant: the keys are stored for the modifiers.
MutStoreModifiers ==
    /\ Goto(Client, "storeModifiers", "storeKeys")
    /\ prevModifiers' = report.keys
    /\ UNCHANGED <<prevKeys, prevButtons, down, running, report, inputs, lost>>

StoreModifiers ==
    /\ Goto(Client, "storeModifiers", "storeKeys")
    /\ prevModifiers' = report.modifiers
    /\ UNCHANGED <<prevKeys, prevButtons, down, running, report, inputs, lost>>

StoreKeys ==
    /\ Goto(Client, "storeKeys", "idle")
    /\ prevKeys' = report.keys
    /\ report' = NoReport
    /\ UNCHANGED <<prevModifiers, prevButtons, down, running, inputs, lost>>

InjectPointer(buttons) ==
    /\ Goto(Client, "idle", "storeButtons")
    /\ report' = [NoReport EXCEPT !.buttons = buttons]
    /\ Add(Client, prevButtons \ buttons, buttons \ prevButtons)
    /\ UNCHANGED <<memory, down, running, lost>>

\* Unlike the keys, the buttons are remembered before they are sent.
StoreButtons ==
    /\ Goto(Client, "storeButtons", "sendButtons")
    /\ prevButtons' = report.buttons
    /\ report' = NoReport
    /\ UNCHANGED <<prevModifiers, prevKeys, down, running, inputs, lost>>

SendButtons ==
    /\ Goto(Client, "sendButtons", "idle")
    /\ SendInput(Client)
    /\ UNCHANGED <<memory, running, report>>

Inject ==
    \/ \E m \in SUBSET Modifiers, k \in SUBSET Codes : InjectReport(m, k)
    \/ \E b \in SUBSET Buttons : InjectPointer(b)
    \/ Releases \/ Presses \/ SendKeys \/ StoreModifiers \/ StoreKeys
    \/ StoreButtons \/ SendButtons

-----------------------------------------------------------------------------
(* release_all of both injectors, the keys first.                          *)

\* Mutant: modifiers are forgotten.
MutReleaseModifiers(t) ==
    /\ Goto(t, "relModifiers", "relKeys")
    /\ UNCHANGED <<memory, down, running, report, inputs, lost>>

ReleaseModifiers(t) ==
    /\ Goto(t, "relModifiers", "relKeys")
    /\ Add(t, Keycodes(prevModifiers), {})
    /\ UNCHANGED <<memory, down, running, report, lost>>

ReleaseKeys(t) ==
    /\ Goto(t, "relKeys", "relSend")
    /\ Add(t, Keycodes(prevKeys), {})
    /\ UNCHANGED <<memory, down, running, report, lost>>

ReleaseSend(t) ==
    /\ Goto(t, "relSend", "relStoreModifiers")
    /\ SendInput(t)
    /\ UNCHANGED <<memory, running, report>>

ReleaseStoreModifiers(t) ==
    /\ Goto(t, "relStoreModifiers", "relStoreKeys")
    /\ prevModifiers' = {}
    /\ UNCHANGED <<prevKeys, prevButtons, down, running, report, inputs, lost>>

ReleaseStoreKeys(t) ==
    /\ Goto(t, "relStoreKeys", "relButtons")
    /\ prevKeys' = {}
    /\ UNCHANGED <<prevModifiers, prevButtons, down, running, report, inputs, lost>>

ReleaseButtons(t) ==
    /\ Goto(t, "relButtons", "relSendButtons")
    /\ Add(t, prevButtons, {})
    /\ UNCHANGED <<memory, down, running, report, lost>>

ReleaseSendButtons(t) ==
    /\ Goto(t, "relSendButtons", "relStoreButtons")
    /\ SendInput(t)
    /\ UNCHANGED <<memory, running, report>>

\* The client thread then backs off; the main thread goes on with stop().
ReleaseStoreButtons(t) ==
    /\ Goto(t, "relStoreButtons", IF t = Client THEN "off" ELSE "stop")
    /\ prevButtons' = {}
    /\ UNCHANGED <<prevModifiers, prevKeys, down, running, report, inputs, lost>>

release_all(t) ==
    \/ ReleaseModifiers(t) \/ ReleaseKeys(t) \/ ReleaseSend(t)
    \/ ReleaseStoreModifiers(t) \/ ReleaseStoreKeys(t)
    \/ ReleaseButtons(t) \/ ReleaseSendButtons(t) \/ ReleaseStoreButtons(t)

-----------------------------------------------------------------------------
(* The connection's life, and stop().                                      *)

Others == <<memory, down, report, inputs, lost>>

Connect ==
    /\ running
    /\ Goto(Client, "off", "idle")
    /\ UNCHANGED <<Others, running>>

\* Mutant: a loop that ends because of stop() does not clean up.
MutDisconnect ==
    /\ Goto(Client, "idle", IF running THEN "relModifiers" ELSE "off")
    /\ UNCHANGED <<Others, running>>

\* The read loop ends: the link is lost, or stop() has begun.
Disconnect ==
    /\ Goto(Client, "idle", "relModifiers")
    /\ UNCHANGED <<Others, running>>

LoopEnds ==
    /\ ~running
    /\ Goto(Client, "off", "gone")
    /\ UNCHANGED <<Others, running>>

StopBegins ==
    /\ Stops
    /\ Goto(Main, "up", "relModifiers")
    /\ UNCHANGED <<Others, running>>

ClientStop ==
    /\ Goto(Main, "stop", "join")
    /\ running' = FALSE
    /\ UNCHANGED Others

\* The join ends with the client thread, or gives up on it wherever it is.
Exit ==
    /\ Goto(Main, "join", "down")
    /\ UNCHANGED <<Others, running>>

Step ==
    \/ Inject
    \/ \E t \in Threads : release_all(t)
    \/ Connect \/ Disconnect \/ LoopEnds
    \/ StopBegins \/ ClientStop \/ Exit

Injecting == pc[Client] \in InjectSteps
StopReleases == pc[Main] \in ReleaseSteps

Next ==
    /\ pc[Main] # "down"
    /\ Step
    /\ overlapped' = (overlapped \/ (Injecting' /\ StopReleases'))

Spec == Init /\ [][Next]_vars

-----------------------------------------------------------------------------
(* Properties.                                                             *)

(***************************************************************************)
(* Between reports the desktop holds what the last report held: nothing    *)
(* else is down, and nothing of it is missing - but for keys that share a  *)
(* virtual key, where the release of one releases the other too - and but  *)
(* for the events SendInput did not insert.  The injectors never resend.   *)
(***************************************************************************)
Reported == Keycodes(prevModifiers) \cup Keycodes(prevKeys) \cup prevButtons

Shared == {v \in Keycodes(Codes \cap DOMAIN Vk) :
              \E j, k \in VALID_HID_RANGE : j # k /\ Vk[j] = v /\ Vk[k] = v}

DesktopFollowsReports ==
    pc[Client] = "idle" /\ pc[Main] = "up" =>
        Cardinality(down \ Reported) + Cardinality((Reported \ Shared) \ down) <= lost

\* The client thread has left the connection, its release_all is done.
Left == pc[Client] \in {"off", "gone"}

(***************************************************************************)
(* After a connection has ended nothing stays held on the desktop, but     *)
(* what SendInput failed to release: whatever stop() has released, or is   *)
(* releasing, meanwhile on the main thread, unless a report was being      *)
(* injected while it did.                                                  *)
(***************************************************************************)
ReleasedOnDisconnect ==
    pc[Main] # "down" /\ Left /\ ~overlapped => Cardinality(down) <= lost

(***************************************************************************)
(* A stop() leaves nothing held either, whatever arrives between its       *)
(* release_all and the end of the connection: provided no report was being *)
(* injected while that release_all ran, and the join did not give up on a  *)
(* connection.                                                             *)
(***************************************************************************)
CleanStop ==
    pc[Main] = "down" /\ Left /\ ~overlapped => Cardinality(down) <= lost

(***************************************************************************)
(* docs/TASKS.md, Task 12: release_all() is critical safety, to prevent    *)
(* stuck keys.  Without the proviso of CleanStop it does not.              *)
(***************************************************************************)
NothingHeldAtExit ==
    pc[Main] = "down" /\ Left => down = {}
=============================================================================
