--------------------------- MODULE InjectorProofs ---------------------------
(***************************************************************************)
(* Injector for every keymap, any buttons, and any number of events that   *)
(* SendInput does not insert.                                              *)
(***************************************************************************)
EXTENDS Injector, FiniteSetTheorems, TLAPS

USE InjectorAssumption

-----------------------------------------------------------------------------
(* Virtual keys, and counting them.                                        *)

LEMMA KeycodesIn ==
    \A S \in SUBSET DOMAIN Vk : Keycodes(S) \subseteq Events
BY DEF Keycodes, Events

LEMMA EventsFinite ==
    \A S \in SUBSET Events : IsFiniteSet(S) /\ Cardinality(S) \in Nat
<1>1. IsFiniteSet(Events)
  BY DEF Events, Keycodes
<1> QED
  BY <1>1, FS_Subset, FS_CardinalityType

\* A set covered by two others is no larger than both.
LEMMA Covered ==
    ASSUME NEW A \in SUBSET Events, NEW B \in SUBSET Events, NEW C \in SUBSET Events,
           A \subseteq B \cup C
    PROVE  Cardinality(A) <= Cardinality(B) + Cardinality(C)
<1>1. /\ IsFiniteSet(B) /\ IsFiniteSet(C) /\ IsFiniteSet(B \cup C)
      /\ Cardinality(A) \in Nat /\ Cardinality(B) \in Nat /\ Cardinality(C) \in Nat
      /\ Cardinality(B \cup C) \in Nat /\ Cardinality(B \cap C) \in Nat
  BY EventsFinite, B \cup C \in SUBSET Events, B \cap C \in SUBSET Events
<1>2. Cardinality(B \cup C) = Cardinality(B) + Cardinality(C) - Cardinality(B \cap C)
  BY <1>1, FS_Union
<1>3. Cardinality(A) <= Cardinality(B \cup C)
  BY <1>1, FS_Subset
<1> QED
  BY <1>1, <1>2, <1>3

LEMMA NoEvents == Keycodes({}) = {} /\ Cardinality({}) = 0
BY FS_EmptySet DEF Keycodes

-----------------------------------------------------------------------------
(* Types.                                                                  *)

LEMMA ThreadsDiffer == Client # Main /\ Client \in Threads /\ Main \in Threads
BY DEF Client, Main, Threads

LEMMA SendType ==
    ASSUME InjTypeOK, NEW t \in Threads, SendInput(t)
    PROVE  /\ down' \in SUBSET Events
           /\ inputs' \in [Threads -> [up : SUBSET Events, press : SUBSET Events]]
           /\ lost' \in 0 .. MaxLost
<1>1. PICK up \in SUBSET inputs[t].up, press \in SUBSET inputs[t].press :
          /\ lost' = lost + Cardinality(inputs[t].up \ up)
                          + Cardinality(inputs[t].press \ press)
          /\ lost' <= MaxLost
          /\ down' = (down \ up) \cup press
          /\ inputs' = [inputs EXCEPT ![t] = NoInputs]
  BY DEF SendInput
<1>2. inputs[t].up \in SUBSET Events /\ inputs[t].press \in SUBSET Events
  BY DEF InjTypeOK
<1>3. /\ Cardinality(inputs[t].up \ up) \in Nat
      /\ Cardinality(inputs[t].press \ press) \in Nat
  BY <1>2, EventsFinite, inputs[t].up \ up \in SUBSET Events,
     inputs[t].press \ press \in SUBSET Events
<1>4. NoInputs \in [up : SUBSET Events, press : SUBSET Events]
  BY DEF NoInputs
<1> QED
  BY <1>1, <1>2, <1>3, <1>4 DEF InjTypeOK

LEMMA AddType ==
    ASSUME InjTypeOK, NEW t \in Threads,
           NEW up \in SUBSET Events, NEW press \in SUBSET Events, Add(t, up, press)
    PROVE  inputs' \in [Threads -> [up : SUBSET Events, press : SUBSET Events]]
BY DEF Add, InjTypeOK

LEMMA ReportTypes ==
    /\ \A m \in SUBSET Modifiers, k \in SUBSET Codes :
          [NoReport EXCEPT !.modifiers = m, !.keys = k \cap VALID_HID_RANGE] \in
              [modifiers : SUBSET Modifiers, keys : SUBSET VALID_HID_RANGE,
               buttons : SUBSET Buttons]
    /\ \A b \in SUBSET Buttons :
          [NoReport EXCEPT !.buttons = b] \in
              [modifiers : SUBSET Modifiers, keys : SUBSET VALID_HID_RANGE,
               buttons : SUBSET Buttons]
    /\ NoReport \in [modifiers : SUBSET Modifiers, keys : SUBSET VALID_HID_RANGE,
                     buttons : SUBSET Buttons]
BY DEF NoReport

LEMMA InitType == Init => InjTypeOK
<1> SUFFICES ASSUME Init PROVE InjTypeOK
  OBVIOUS
<1>1. inputs \in [Threads -> [up : SUBSET Events, press : SUBSET Events]]
  BY DEF Init, NoInputs
<1>2. /\ pc \in [Threads -> ClientSteps \cup MainSteps]
      /\ pc[Client] \in ClientSteps /\ pc[Main] \in MainSteps
  BY ThreadsDiffer DEF Init, ClientSteps, MainSteps
<1>3. lost \in 0 .. MaxLost
  BY DEF Init
<1>5. /\ running \in BOOLEAN /\ overlapped \in BOOLEAN
      /\ prevModifiers \subseteq Modifiers /\ prevKeys \subseteq VALID_HID_RANGE
      /\ prevButtons \subseteq Buttons /\ down \subseteq Events
  BY Zenon DEF Init
<1>4. report \in [modifiers : SUBSET Modifiers, keys : SUBSET VALID_HID_RANGE,
                  buttons : SUBSET Buttons]
  BY ReportTypes DEF Init
<1> QED
  BY <1>1, <1>2, <1>3, <1>4, <1>5 DEF InjTypeOK

\* What the two injectors do on the client thread.
LEMMA InjectType ==
    ASSUME InjTypeOK, Inject, overlapped' \in BOOLEAN
    PROVE  InjTypeOK'
<1> USE ThreadsDiffer DEF Goto, memory
<1>p. /\ pc' \in [Threads -> ClientSteps \cup MainSteps]
      /\ pc'[Client] \in ClientSteps /\ pc'[Main] \in MainSteps
  BY DEF InjTypeOK, Inject, InjectReport, InjectPointer, Releases, Presses, SendKeys,
         StoreModifiers, StoreKeys, StoreButtons, SendButtons, ClientSteps, InjectSteps
<1>k. /\ \A S \in SUBSET Modifiers : Keycodes(S) \in SUBSET Events
      /\ \A S \in SUBSET VALID_HID_RANGE : Keycodes(S) \in SUBSET Events
      /\ \A S \in SUBSET Buttons : S \in SUBSET Events
  BY KeycodesIn DEF VALID_HID_RANGE, Events
<1>1. ASSUME NEW m \in SUBSET Modifiers, NEW k \in SUBSET Codes, InjectReport(m, k)
      PROVE  InjTypeOK'
  <2>1. /\ Keycodes(prevModifiers \ m) \in SUBSET Events
        /\ Keycodes(m \ prevModifiers) \in SUBSET Events
    BY <1>k DEF InjTypeOK
  <2>2. inputs' \in [Threads -> [up : SUBSET Events, press : SUBSET Events]]
    BY <1>1, <2>1, AddType DEF InjectReport
  <2>3. report' \in [modifiers : SUBSET Modifiers, keys : SUBSET VALID_HID_RANGE,
                     buttons : SUBSET Buttons]
    BY <1>1, ReportTypes DEF InjectReport
  <2> QED
    BY <1>1, <1>p, <2>2, <2>3 DEF InjTypeOK, InjectReport
<1>2. ASSUME NEW b \in SUBSET Buttons, InjectPointer(b)
      PROVE  InjTypeOK'
  <2>1. prevButtons \ b \in SUBSET Events /\ b \ prevButtons \in SUBSET Events
    BY DEF InjTypeOK, Events
  <2>2. inputs' \in [Threads -> [up : SUBSET Events, press : SUBSET Events]]
    BY <1>2, <2>1, AddType DEF InjectPointer
  <2>3. report' \in [modifiers : SUBSET Modifiers, keys : SUBSET VALID_HID_RANGE,
                     buttons : SUBSET Buttons]
    BY <1>2, ReportTypes DEF InjectPointer
  <2> QED
    BY <1>2, <1>p, <2>2, <2>3 DEF InjTypeOK, InjectPointer
<1>3. CASE Releases \/ Presses
  <2>1. /\ Keycodes(prevKeys \ report.keys) \in SUBSET Events
        /\ Keycodes(report.keys \ prevKeys) \in SUBSET Events
        /\ {} \in SUBSET Events
    BY <1>k DEF InjTypeOK
  <2>2. inputs' \in [Threads -> [up : SUBSET Events, press : SUBSET Events]]
    BY <1>3, <2>1, AddType DEF Releases, Presses
  <2> QED
    BY <1>3, <1>p, <2>2 DEF InjTypeOK, Releases, Presses
<1>4. CASE SendKeys \/ SendButtons
  BY <1>4, <1>p, SendType DEF InjTypeOK, SendKeys, SendButtons
<1>5. CASE StoreModifiers \/ StoreKeys \/ StoreButtons
  BY <1>5, <1>p, ReportTypes DEF InjTypeOK, StoreModifiers, StoreKeys, StoreButtons
<1> QED
  BY <1>1, <1>2, <1>3, <1>4, <1>5 DEF Inject

LEMMA ReleaseType ==
    ASSUME InjTypeOK, NEW t \in Threads, release_all(t), overlapped' \in BOOLEAN
    PROVE  InjTypeOK'
<1> USE ThreadsDiffer DEF Goto, memory
<1>p. /\ pc' \in [Threads -> ClientSteps \cup MainSteps]
      /\ pc'[Client] \in ClientSteps /\ pc'[Main] \in MainSteps
  BY DEF InjTypeOK, release_all, ReleaseModifiers, ReleaseKeys, ReleaseSend,
         ReleaseStoreModifiers, ReleaseStoreKeys, ReleaseButtons, ReleaseSendButtons,
         ReleaseStoreButtons, Threads, ClientSteps, MainSteps, ReleaseSteps
<1>1. CASE ReleaseModifiers(t) \/ ReleaseKeys(t) \/ ReleaseButtons(t)
  <2>1. /\ Keycodes(prevModifiers) \in SUBSET Events
        /\ Keycodes(prevKeys) \in SUBSET Events
        /\ prevButtons \in SUBSET Events
        /\ {} \in SUBSET Events
    BY KeycodesIn DEF InjTypeOK, VALID_HID_RANGE, Events
  <2>2. inputs' \in [Threads -> [up : SUBSET Events, press : SUBSET Events]]
    BY <1>1, <2>1, AddType DEF ReleaseModifiers, ReleaseKeys, ReleaseButtons
  <2> QED
    BY <1>1, <1>p, <2>2 DEF InjTypeOK, ReleaseModifiers, ReleaseKeys, ReleaseButtons
<1>2. CASE ReleaseSend(t) \/ ReleaseSendButtons(t)
  BY <1>2, <1>p, SendType DEF InjTypeOK, ReleaseSend, ReleaseSendButtons
<1>3. CASE ReleaseStoreModifiers(t) \/ ReleaseStoreKeys(t) \/ ReleaseStoreButtons(t)
  BY <1>3, <1>p
     DEF InjTypeOK, ReleaseStoreModifiers, ReleaseStoreKeys, ReleaseStoreButtons
<1> QED
  BY <1>1, <1>2, <1>3 DEF release_all

\* Connecting, disconnecting and stopping.
LifeStep == Connect \/ Disconnect \/ LoopEnds \/ StopBegins \/ ClientStop \/ Exit

LEMMA LifeType ==
    ASSUME InjTypeOK, LifeStep, overlapped' \in BOOLEAN
    PROVE  InjTypeOK'
<1>1. /\ pc' \in [Threads -> ClientSteps \cup MainSteps]
      /\ pc'[Client] \in ClientSteps /\ pc'[Main] \in MainSteps
  BY ThreadsDiffer
     DEF Goto, InjTypeOK, LifeStep, Connect, Disconnect, LoopEnds, StopBegins, ClientStop,
         Exit, ClientSteps, MainSteps, ReleaseSteps
<1> QED
  BY <1>1 DEF InjTypeOK, LifeStep, Connect, Disconnect, LoopEnds, StopBegins, ClientStop,
              Exit, Others, memory

LEMMA TypeStep == InjTypeOK /\ [Next]_vars => InjTypeOK'
<1> SUFFICES ASSUME InjTypeOK, [Next]_vars
             PROVE  InjTypeOK'
  OBVIOUS
<1>1. CASE Next
  <2>1. overlapped' \in BOOLEAN
    BY <1>1 DEF Next, InjTypeOK
  <2> QED
    BY <1>1, <2>1, InjectType, ReleaseType, LifeType DEF Next, Step, LifeStep
<1>2. CASE UNCHANGED vars
  BY <1>2 DEF vars, memory, InjTypeOK
<1> QED
  BY <1>1, <1>2

(***************************************************************************)
(* Type correctness of the injectors; lost stays a number because no batch *)
(* has infinitely many events.                                             *)
(***************************************************************************)
THEOREM InjTypeCorrect == Spec => []InjTypeOK
BY InitType, TypeStep, PTL DEF Spec

-----------------------------------------------------------------------------
(* What is held and what was lost.                                         *)
(*                                                                         *)
(* Until stop() has released in the middle of a report, the two threads    *)
(* never mix: the client thread injects while the main thread releases     *)
(* nothing, and while either releases, the memory only shrinks.            *)

KeysReleased == \E t \in Threads : pc[t] \in {"relStoreModifiers", "relStoreKeys"}
ButtonsReleased == \E t \in Threads : pc[t] = "relStoreButtons"

\* What is remembered and has not been released.
StillHeld ==
    (IF KeysReleased THEN {} ELSE Keycodes(prevModifiers) \cup Keycodes(prevKeys))
    \cup (IF ButtonsReleased THEN {} ELSE prevButtons)

\* A release_all covers all that is still remembered, ...
ReleaseInputs(t) ==
    LET up == inputs[t].up IN
    /\ inputs[t].press = {}
    /\ pc[t] = "relKeys" => Keycodes(prevModifiers) \subseteq up
    /\ pc[t] = "relSend" => Keycodes(prevModifiers) \cup Keycodes(prevKeys) \subseteq up
    /\ pc[t] = "relSendButtons" => prevButtons \subseteq up
    /\ pc[t] = "relStoreButtons" => up = {}

\* ... and nobody remembers anew what it has forgotten.
Forgotten(t) ==
    /\ pc[t] \in {"relStoreKeys", "relButtons", "relSendButtons", "relStoreButtons"} =>
          prevModifiers = {}
    /\ pc[t] \in {"relButtons", "relSendButtons", "relStoreButtons"} => prevKeys = {}

\* What the client thread is about to send is the difference between the
\* memory and the report it injects.
ModifiersUp == Keycodes(prevModifiers \ report.modifiers)
ModifiersPress == Keycodes(report.modifiers \ prevModifiers)
KeysUp == Keycodes(prevKeys \ report.keys)
KeysPress == Keycodes(report.keys \ prevKeys)

ClientInputs ==
    LET up == inputs[Client].up
        press == inputs[Client].press
    IN
    /\ pc[Client] \in {"idle", "off", "gone", "storeModifiers", "storeKeys"} =>
          up = {} /\ press = {}
    /\ pc[Client] = "releases" => up = ModifiersUp /\ press = ModifiersPress
    /\ pc[Client] = "presses" => up = ModifiersUp \cup KeysUp /\ press = ModifiersPress
    /\ pc[Client] = "send" =>
          up = ModifiersUp \cup KeysUp /\ press = ModifiersPress \cup KeysPress
    /\ pc[Client] = "storeButtons" =>
          up = prevButtons \ report.buttons /\ press = report.buttons \ prevButtons
    /\ pc[Client] = "sendButtons" =>
          up \subseteq Buttons \ prevButtons /\ press \subseteq prevButtons

\* What the desktop should hold while a report is injected: the keys are
\* remembered after they are sent, the buttons before.
Held ==
    IF pc[Client] \in {"storeModifiers", "storeKeys"}
    THEN Keycodes(report.modifiers) \cup Keycodes(report.keys) \cup prevButtons
    ELSE IF pc[Client] = "sendButtons"
    THEN Keycodes(prevModifiers) \cup Keycodes(prevKeys) \cup
         ((prevButtons \ inputs[Client].press) \cup inputs[Client].up)
    ELSE Reported

Gap(held) == Cardinality(down \ held) + Cardinality((held \ Shared) \ down)

Apart == StopReleases => ~Injecting

Threaded ==
    /\ \A t \in Threads : pc[t] \in ReleaseSteps => ReleaseInputs(t) /\ Forgotten(t)
    /\ pc[Main] \notin ReleaseSteps => inputs[Main].up = {} /\ inputs[Main].press = {}
    /\ pc[Client] \in {"off", "gone"} =>
          prevModifiers = {} /\ prevKeys = {} /\ prevButtons = {}
    /\ ClientInputs
    /\ pc[Client] = "storeKeys" => prevModifiers = report.modifiers

HeldCount == ~Injecting => Cardinality(down \ StillHeld) <= lost

GapCount ==
    ~StopReleases /\ pc[Client] \in {"idle"} \cup InjectSteps => Gap(Held) <= lost

Quiet == Apart /\ Threaded /\ HeldCount /\ GapCount

InjInv == InjTypeOK /\ (pc[Main] = "up" => ~overlapped) /\ (~overlapped => Quiet)

\* What a batch does to the desktop and to the count.
LEMMA SendEvents ==
    ASSUME InjTypeOK, NEW t \in Threads, SendInput(t)
    PROVE  \E up \in SUBSET inputs[t].up, press \in SUBSET inputs[t].press :
              /\ down' = (down \ up) \cup press
              /\ inputs[t].up \ up \in SUBSET Events
              /\ inputs[t].press \ press \in SUBSET Events
              /\ Cardinality(inputs[t].up \ up) \in Nat
              /\ Cardinality(inputs[t].press \ press) \in Nat
              /\ lost' = lost + Cardinality(inputs[t].up \ up)
                              + Cardinality(inputs[t].press \ press)
              /\ inputs' = [inputs EXCEPT ![t] = NoInputs]
<1>1. PICK up \in SUBSET inputs[t].up, press \in SUBSET inputs[t].press :
          /\ lost' = lost + Cardinality(inputs[t].up \ up)
                          + Cardinality(inputs[t].press \ press)
          /\ down' = (down \ up) \cup press
          /\ inputs' = [inputs EXCEPT ![t] = NoInputs]
  BY DEF SendInput
<1>2. /\ inputs[t].up \ up \in SUBSET Events
      /\ inputs[t].press \ press \in SUBSET Events
  BY DEF InjTypeOK
<1>3. /\ Cardinality(inputs[t].up \ up) \in Nat
      /\ Cardinality(inputs[t].press \ press) \in Nat
  BY <1>2, EventsFinite
<1> QED
  BY <1>1, <1>2, <1>3

\* A batch that releases all that should go leaves no more than it lost.
LEMMA SendHeld ==
    ASSUME InjTypeOK, NEW t \in Threads, SendInput(t), inputs[t].press = {},
           NEW E \in SUBSET Events, NEW F \in SUBSET Events,
           E \ F \subseteq inputs[t].up, Cardinality(down \ E) <= lost
    PROVE  Cardinality(down' \ F) <= lost'
<1>1. PICK up \in SUBSET inputs[t].up, press \in SUBSET inputs[t].press :
          /\ down' = (down \ up) \cup press
          /\ inputs[t].up \ up \in SUBSET Events
          /\ Cardinality(inputs[t].up \ up) \in Nat
          /\ Cardinality(inputs[t].press \ press) \in Nat
          /\ lost' = lost + Cardinality(inputs[t].up \ up)
                          + Cardinality(inputs[t].press \ press)
  BY SendEvents
<1>2. down' \ F \subseteq (down \ E) \cup (inputs[t].up \ up)
  BY <1>1
<1>3. down \ E \in SUBSET Events /\ down' \ F \in SUBSET Events
  BY SendType DEF InjTypeOK
<1>4. Cardinality(down' \ F) <= Cardinality(down \ E) + Cardinality(inputs[t].up \ up)
  BY <1>1, <1>2, <1>3, Covered
<1> QED
  BY <1>1, <1>3, <1>4, EventsFinite DEF InjTypeOK

\* A batch turns what should be held from R into S; it may release what stays
\* held only if that shares its key.
Turns(R, S, up, press) ==
    /\ press \subseteq S
    /\ R \ S \subseteq up
    /\ S \ R \subseteq press
    /\ up \cap S \subseteq Shared \cup press

\* It then leaves no larger gap than it lost.
LEMMA SendGap ==
    ASSUME InjTypeOK, NEW t \in Threads, SendInput(t),
           NEW R \in SUBSET Events, NEW S \in SUBSET Events, Gap(R) <= lost,
           Turns(R, S, inputs[t].up, inputs[t].press)
    PROVE  Cardinality(down' \ S) + Cardinality((S \ Shared) \ down') <= lost'
<1>1. PICK up \in SUBSET inputs[t].up, press \in SUBSET inputs[t].press :
          /\ down' = (down \ up) \cup press
          /\ inputs[t].up \ up \in SUBSET Events
          /\ inputs[t].press \ press \in SUBSET Events
          /\ Cardinality(inputs[t].up \ up) \in Nat
          /\ Cardinality(inputs[t].press \ press) \in Nat
          /\ lost' = lost + Cardinality(inputs[t].up \ up)
                          + Cardinality(inputs[t].press \ press)
  BY SendEvents
<1> DEFINE More == down \ R
           Less == (R \ Shared) \ down
<1>2. More \in SUBSET Events /\ Less \in SUBSET Events
      /\ down' \ S \in SUBSET Events /\ (S \ Shared) \ down' \in SUBSET Events
  BY SendType DEF InjTypeOK
<1>3. down' \ S \subseteq More \cup (inputs[t].up \ up)
  BY <1>1 DEF Turns
<1>4. (S \ Shared) \ down' \subseteq Less \cup (inputs[t].press \ press)
  BY <1>1 DEF Turns
<1>5. /\ Cardinality(down' \ S) <= Cardinality(More) + Cardinality(inputs[t].up \ up)
      /\ Cardinality((S \ Shared) \ down')
            <= Cardinality(Less) + Cardinality(inputs[t].press \ press)
  BY <1>1, <1>2, <1>3, <1>4, Covered
<1>6. /\ Cardinality(More) \in Nat /\ Cardinality(Less) \in Nat
      /\ Cardinality(down' \ S) \in Nat /\ Cardinality((S \ Shared) \ down') \in Nat
      /\ Cardinality(More) + Cardinality(Less) <= lost
  BY <1>2, EventsFinite DEF Gap
<1> HIDE DEF More, Less
<1> QED
  BY <1>1, <1>5, <1>6 DEF InjTypeOK

-----------------------------------------------------------------------------
(* Injecting.                                                              *)

\* The batch of a keyboard report turns the one report into the other.
LEMMA KeyboardBatch ==
    ASSUME NEW pm \in SUBSET Modifiers, NEW pk \in SUBSET VALID_HID_RANGE,
           NEW m \in SUBSET Modifiers, NEW k \in SUBSET VALID_HID_RANGE,
           NEW b \in SUBSET Buttons
    PROVE  Turns(Keycodes(pm) \cup Keycodes(pk) \cup b,
                 Keycodes(m) \cup Keycodes(k) \cup b,
                 Keycodes(pm \ m) \cup Keycodes(pk \ k),
                 Keycodes(m \ pm) \cup Keycodes(k \ pk))
<1> DEFINE R == Keycodes(pm) \cup Keycodes(pk) \cup b
           S == Keycodes(m) \cup Keycodes(k) \cup b
           up == Keycodes(pm \ m) \cup Keycodes(pk \ k)
           press == Keycodes(m \ pm) \cup Keycodes(k \ pk)
<1>1. press \subseteq S
  BY DEF Keycodes
<1>2. R \ S \subseteq up
  BY DEF Keycodes
<1>3. S \ R \subseteq press
  BY DEF Keycodes
<1>4. up \cap S \subseteq Shared \cup press
  <2> SUFFICES ASSUME NEW v \in up, v \in S
               PROVE  v \in Shared
    OBVIOUS
  <2>1. PICK j \in (pm \ m) \cup (pk \ k) : v = Vk[j]
    BY DEF Keycodes
  <2>2. PICK i \in m \cup k : v = Vk[i]
    BY <2>1 DEF Keycodes, VALID_HID_RANGE
  <2>3. i # j
    BY DEF VALID_HID_RANGE
  <2>4. j \in pk /\ i \in k
    BY <2>1, <2>2, <2>3 DEF VALID_HID_RANGE
  <2> QED
    BY <2>1, <2>2, <2>3, <2>4 DEF Shared, Keycodes, VALID_HID_RANGE
<1> QED
  BY <1>1, <1>2, <1>3, <1>4 DEF Turns

\* Keys and buttons are told apart, and are all events.
LEMMA ReportedEvents ==
    ASSUME NEW m \in SUBSET Modifiers, NEW k \in SUBSET VALID_HID_RANGE,
           NEW b \in SUBSET Buttons
    PROVE  /\ Keycodes(m) \cup Keycodes(k) \cup b \in SUBSET Events
           /\ (Keycodes(m) \cup Keycodes(k)) \cap Buttons = {}
BY DEF Keycodes, Events, VALID_HID_RANGE

\* While the main thread releases nothing, and the client thread neither, it
\* is enough to look at the client thread.
LEMMA ClientAlone ==
    ASSUME InjTypeOK', pc'[Main] \notin ReleaseSteps, pc'[Client] \in {"idle"} \cup InjectSteps,
           inputs'[Main].up = {}, inputs'[Main].press = {},
           ClientInputs', pc'[Client] = "storeKeys" => prevModifiers' = report'.modifiers,
           Gap(Held)' <= lost'
    PROVE  Quiet'
<1>1. pc'[Client] \notin ReleaseSteps \cup {"off", "gone"}
  BY DEF ReleaseSteps, InjectSteps
<1>2. Apart' /\ Threaded' /\ GapCount'
  BY <1>1, ThreadsDiffer DEF Apart, Threaded, GapCount, StopReleases, Injecting, Threads
<1>3. ASSUME ~Injecting'
      PROVE  Cardinality(down' \ StillHeld') <= lost'
  <2>1. pc'[Client] = "idle"
    BY <1>3 DEF Injecting
  <2>2. ~KeysReleased' /\ ~ButtonsReleased'
    BY <1>1 DEF KeysReleased, ButtonsReleased, Threads, ReleaseSteps
  <2>3. StillHeld' = Held'
    BY <2>1, <2>2 DEF StillHeld, Held, Reported
  <2>6. Held' \in SUBSET Events
    <3>1. Held' = Reported'
      BY <2>1 DEF Held
    <3>2. /\ prevModifiers' \in SUBSET Modifiers /\ prevKeys' \in SUBSET VALID_HID_RANGE
          /\ prevButtons' \in SUBSET Buttons
      BY DEF InjTypeOK
    <3>3. Keycodes(prevModifiers') \cup Keycodes(prevKeys') \cup prevButtons' \in SUBSET Events
      BY <3>2, ReportedEvents
    <3> QED
      BY <3>1, <3>3 DEF Reported, Keycodes
  <2>4. /\ Held' \in SUBSET Events /\ down' \in SUBSET Events
        /\ Cardinality(down' \ Held') + Cardinality((Held' \ Shared) \ down') <= lost'
        /\ lost' \in Nat
    BY <2>6 DEF Gap, Shared, InjTypeOK
  <2>5. /\ Cardinality(down' \ Held') \in Nat
        /\ Cardinality((Held' \ Shared) \ down') \in Nat
    BY <2>4, EventsFinite, down' \ Held' \in SUBSET Events,
       (Held' \ Shared) \ down' \in SUBSET Events
  <2> QED
    BY <2>3, <2>4, <2>5
<1> QED
  BY <1>2, <1>3 DEF Quiet, HeldCount

LEMMA InjectQuiet ==
    ASSUME InjTypeOK, InjTypeOK', Quiet, Inject, Apart'
    PROVE  Quiet'
<1> USE ThreadsDiffer DEF Goto, memory
<1>1. /\ pc[Client] \in {"idle"} \cup InjectSteps
      /\ pc'[Client] \in {"idle"} \cup InjectSteps
      /\ pc[Client] = "idle" => Injecting'
      /\ pc'[Main] = pc[Main]
      /\ inputs'[Main] = inputs[Main]
  BY DEF InjTypeOK, Inject, InjectReport, InjectPointer, Releases, Presses, SendKeys,
         StoreModifiers, StoreKeys, StoreButtons, SendButtons, InjectSteps, Injecting,
         SendInput, Add
<1>2. pc[Main] \notin ReleaseSteps
  BY <1>1 DEF Quiet, Apart, StopReleases, Injecting
<1>3. inputs'[Main].up = {} /\ inputs'[Main].press = {}
  BY <1>1, <1>2 DEF Quiet, Threaded
<1>g. Gap(Held) <= lost
  BY <1>1, <1>2 DEF Quiet, GapCount, StopReleases
<1>i. ClientInputs
  BY DEF Quiet, Threaded
<1> SUFFICES /\ ClientInputs'
             /\ pc'[Client] = "storeKeys" => prevModifiers' = report'.modifiers
             /\ Gap(Held)' <= lost'
  BY <1>1, <1>2, <1>3, ClientAlone
<1>4. ASSUME NEW m \in SUBSET Modifiers, NEW k \in SUBSET Codes, InjectReport(m, k)
      PROVE  ClientInputs' /\ pc'[Client] # "storeKeys" /\ Gap(Held)' <= lost'
  <2>1. pc[Client] = "idle" /\ pc'[Client] = "releases" /\ report'.modifiers = m
    BY <1>4 DEF InjectReport, InjTypeOK
  <2>2. /\ inputs'[Client].up = Keycodes(prevModifiers \ m)
        /\ inputs'[Client].press = Keycodes(m \ prevModifiers)
    BY <1>4, <1>i, <2>1 DEF InjectReport, Add, ClientInputs, InjTypeOK
  <2>3. ClientInputs'
    BY <1>4, <2>1, <2>2 DEF ClientInputs, ModifiersUp, ModifiersPress, InjectReport
  <2> QED
    BY <1>4, <1>g, <2>1, <2>3 DEF Gap, Held, Reported, InjectReport
<1>5. ASSUME NEW b \in SUBSET Buttons, InjectPointer(b)
      PROVE  ClientInputs' /\ pc'[Client] # "storeKeys" /\ Gap(Held)' <= lost'
  <2>1. pc[Client] = "idle" /\ pc'[Client] = "storeButtons" /\ report'.buttons = b
    BY <1>5 DEF InjectPointer, InjTypeOK, NoReport
  <2>2. /\ inputs'[Client].up = prevButtons \ b
        /\ inputs'[Client].press = b \ prevButtons
    BY <1>5, <1>i, <2>1 DEF InjectPointer, Add, ClientInputs, InjTypeOK
  <2>3. ClientInputs'
    BY <1>5, <2>1, <2>2 DEF ClientInputs, InjectPointer
  <2> QED
    BY <1>5, <1>g, <2>1, <2>3 DEF Gap, Held, Reported, InjectPointer
<1>6. CASE Releases
  <2>1. pc[Client] = "releases" /\ pc'[Client] = "presses"
    BY <1>6 DEF Releases, InjTypeOK
  <2>2. /\ inputs'[Client].up = ModifiersUp \cup KeysUp
        /\ inputs'[Client].press = ModifiersPress
    BY <1>6, <1>i, <2>1 DEF Releases, Add, ClientInputs, InjTypeOK, KeysUp
  <2>3. ClientInputs'
    BY <1>6, <2>1, <2>2 DEF ClientInputs, ModifiersUp, ModifiersPress, KeysUp, Releases
  <2> QED
    BY <1>6, <1>g, <2>1, <2>3 DEF Gap, Held, Reported, Releases
<1>7. CASE Presses
  <2>1. pc[Client] = "presses" /\ pc'[Client] = "send"
    BY <1>7 DEF Presses, InjTypeOK
  <2>2. /\ inputs'[Client].up = ModifiersUp \cup KeysUp
        /\ inputs'[Client].press = ModifiersPress \cup KeysPress
    BY <1>7, <1>i, <2>1 DEF Presses, Add, ClientInputs, InjTypeOK, KeysPress
  <2>3. ClientInputs'
    BY <1>7, <2>1, <2>2
       DEF ClientInputs, ModifiersUp, ModifiersPress, KeysUp, KeysPress, Presses
  <2> QED
    BY <1>7, <1>g, <2>1, <2>3 DEF Gap, Held, Reported, Presses
<1>8. CASE SendKeys
  <2>1. pc[Client] = "send" /\ pc'[Client] = "storeModifiers"
    BY <1>8 DEF SendKeys, InjTypeOK
  <2>2. inputs'[Client].up = {} /\ inputs'[Client].press = {}
    BY <1>8 DEF SendKeys, SendInput, InjTypeOK, NoInputs
  <2>3. ClientInputs'
    BY <2>1, <2>2 DEF ClientInputs
  <2> DEFINE S == Keycodes(report.modifiers) \cup Keycodes(report.keys) \cup prevButtons
  <2>4. /\ inputs[Client].up = ModifiersUp \cup KeysUp
        /\ inputs[Client].press = ModifiersPress \cup KeysPress
    BY <1>i, <2>1 DEF ClientInputs
  <2>5. Turns(Reported, S, inputs[Client].up, inputs[Client].press)
    <3>1. /\ prevModifiers \in SUBSET Modifiers /\ prevKeys \in SUBSET VALID_HID_RANGE
          /\ report.modifiers \in SUBSET Modifiers /\ report.keys \in SUBSET VALID_HID_RANGE
          /\ prevButtons \in SUBSET Buttons
      BY DEF InjTypeOK
    <3>2. Turns(Reported, S, ModifiersUp \cup KeysUp, ModifiersPress \cup KeysPress)
      BY <3>1, KeyboardBatch DEF ModifiersUp, KeysUp, ModifiersPress, KeysPress, Reported
    <3> QED
      BY <2>4, <3>2
  <2>6. S \in SUBSET Events /\ Reported \in SUBSET Events
    BY ReportedEvents DEF Reported, InjTypeOK
  <2>7. SendInput(Client) /\ Gap(Reported) <= lost
    BY <1>8, <1>g, <2>1 DEF SendKeys, Held
  <2> HIDE DEF S
  <2>8. Cardinality(down' \ S) + Cardinality((S \ Shared) \ down') <= lost'
    BY <2>5, <2>6, <2>7, SendGap
  <2>9. Held' = S
    BY <1>8, <2>1 DEF S, Held, SendKeys
  <2> QED
    BY <2>1, <2>3, <2>8, <2>9 DEF Gap
<1>9. CASE StoreModifiers
  <2>1. pc[Client] = "storeModifiers" /\ pc'[Client] = "storeKeys"
    BY <1>9 DEF StoreModifiers, InjTypeOK
  <2> QED
    BY <1>9, <1>g, <1>i, <2>1 DEF ClientInputs, StoreModifiers, Gap, Held
<1>10. CASE StoreKeys
  <2>1. pc[Client] = "storeKeys" /\ pc'[Client] = "idle"
    BY <1>10 DEF StoreKeys, InjTypeOK
  <2>2. prevModifiers = report.modifiers
    BY <2>1 DEF Quiet, Threaded
  <2> QED
    BY <1>10, <1>g, <1>i, <2>1, <2>2 DEF ClientInputs, StoreKeys, Gap, Held, Reported
<1>11. CASE StoreButtons
  <2>1. pc[Client] = "storeButtons" /\ pc'[Client] = "sendButtons"
    BY <1>11 DEF StoreButtons, InjTypeOK
  <2>2. /\ inputs'[Client].up = prevButtons \ prevButtons'
        /\ inputs'[Client].press = prevButtons' \ prevButtons
    BY <1>11, <1>i, <2>1 DEF StoreButtons, ClientInputs
  <2>3. ClientInputs'
    BY <2>1, <2>2 DEF ClientInputs, InjTypeOK
  <2>4. Held' = Held
    BY <1>11, <2>1, <2>2 DEF Held, Reported, StoreButtons
  <2> QED
    BY <1>11, <1>g, <2>1, <2>3, <2>4 DEF Gap, StoreButtons
<1>12. CASE SendButtons
  <2>1. pc[Client] = "sendButtons" /\ pc'[Client] = "idle"
    BY <1>12 DEF SendButtons, InjTypeOK
  <2>2. inputs'[Client].up = {} /\ inputs'[Client].press = {}
    BY <1>12 DEF SendButtons, SendInput, InjTypeOK, NoInputs
  <2>3. ClientInputs'
    BY <2>1, <2>2 DEF ClientInputs
  <2>4. /\ inputs[Client].up \subseteq Buttons \ prevButtons
        /\ inputs[Client].press \subseteq prevButtons
    BY <1>i, <2>1 DEF ClientInputs
  <2>5. /\ Held = Keycodes(prevModifiers) \cup Keycodes(prevKeys) \cup
                  ((prevButtons \ inputs[Client].press) \cup inputs[Client].up)
        /\ Held' = Reported
    BY <1>12, <2>1 DEF Held, Reported, SendButtons
  <2>6. /\ Held \in SUBSET Events /\ Reported \in SUBSET Events
        /\ (Keycodes(prevModifiers) \cup Keycodes(prevKeys)) \cap Buttons = {}
    BY <2>4, <2>5, ReportedEvents DEF Reported, InjTypeOK, Events
  <2>7. Turns(Held, Reported, inputs[Client].up, inputs[Client].press)
    BY <2>4, <2>5, <2>6 DEF Reported, Turns
  <2>8. SendInput(Client)
    BY <1>12 DEF SendButtons
  <2>9. Cardinality(down' \ Reported) + Cardinality((Reported \ Shared) \ down') <= lost'
    BY <1>g, <2>6, <2>7, <2>8, SendGap
  <2> QED
    BY <2>1, <2>3, <2>5, <2>9 DEF Gap
<1> QED
  BY <1>4, <1>5, <1>6, <1>7, <1>8, <1>9, <1>10, <1>11, <1>12 DEF Inject

-----------------------------------------------------------------------------
(* Releasing.                                                              *)

\* What release_all leaves alone, and what it does to the memory.
LEMMA ReleaseFrame ==
    ASSUME InjTypeOK, Quiet, NEW t \in Threads, release_all(t)
    PROVE  /\ pc[t] \in ReleaseSteps
           /\ pc'[t] \in ReleaseSteps \cup {"off", "stop"}
           /\ \A u \in Threads \ {t} : pc'[u] = pc[u] /\ inputs'[u] = inputs[u]
           /\ ~Injecting /\ ~Injecting'
           /\ prevModifiers' \in {prevModifiers, {}}
           /\ prevKeys' \in {prevKeys, {}}
           /\ prevButtons' \in {prevButtons, {}}
           /\ report' = report
           /\ t = Client => pc'[t] # "stop"
           /\ t = Main => pc'[t] # "off"
<1> USE ThreadsDiffer DEF Goto, memory
<1>1. /\ pc[t] \in ReleaseSteps
      /\ pc'[t] \in ReleaseSteps \cup {"off", "stop"}
      /\ t = Client => pc'[t] # "stop"
      /\ t = Main => pc'[t] # "off"
      /\ \A u \in Threads \ {t} : pc'[u] = pc[u]
  BY DEF InjTypeOK, release_all, ReleaseModifiers, ReleaseKeys, ReleaseSend,
         ReleaseStoreModifiers, ReleaseStoreKeys, ReleaseButtons, ReleaseSendButtons,
         ReleaseStoreButtons, ReleaseSteps
<1>2. \A u \in Threads \ {t} : inputs'[u] = inputs[u]
  BY DEF InjTypeOK, release_all, ReleaseModifiers, ReleaseKeys, ReleaseSend,
         ReleaseStoreModifiers, ReleaseStoreKeys, ReleaseButtons, ReleaseSendButtons,
         ReleaseStoreButtons, SendInput, Add
<1>3. /\ prevModifiers' \in {prevModifiers, {}}
      /\ prevKeys' \in {prevKeys, {}}
      /\ prevButtons' \in {prevButtons, {}}
      /\ report' = report
  BY DEF release_all, ReleaseModifiers, ReleaseKeys, ReleaseSend,
         ReleaseStoreModifiers, ReleaseStoreKeys, ReleaseButtons, ReleaseSendButtons,
         ReleaseStoreButtons
<1>4. ~Injecting /\ ~Injecting'
  <2>1. CASE t = Client
    BY <1>1, <2>1 DEF Injecting, InjectSteps, ReleaseSteps
  <2>2. CASE t = Main
    BY <1>1, <2>2 DEF Injecting, Quiet, Apart, StopReleases
  <2> QED
    BY <2>1, <2>2 DEF Threads
<1> QED
  BY <1>1, <1>2, <1>3, <1>4

\* The inputs and the memory of the thread that releases.
LEMMA ReleaseOwn ==
    ASSUME InjTypeOK, Quiet, NEW t \in Threads, release_all(t)
    PROVE  /\ pc'[t] \in ReleaseSteps => ReleaseInputs(t)' /\ Forgotten(t)'
           /\ pc'[t] \notin ReleaseSteps =>
                 /\ inputs'[t].up = {} /\ inputs'[t].press = {}
                 /\ prevModifiers' = {} /\ prevKeys' = {} /\ prevButtons' = {}
<1> USE ThreadsDiffer DEF Goto, memory
<1>1. ReleaseInputs(t) /\ Forgotten(t)
  BY ReleaseFrame DEF Quiet, Threaded
<1>2. inputs[t].press = {}
  BY <1>1 DEF ReleaseInputs
<1>3. CASE ReleaseModifiers(t) \/ ReleaseKeys(t) \/ ReleaseButtons(t)
  <2>1. /\ inputs'[t].press = {}
        /\ ReleaseModifiers(t) => Keycodes(prevModifiers) \subseteq inputs'[t].up
        /\ ReleaseKeys(t) =>
              Keycodes(prevModifiers) \cup Keycodes(prevKeys) \subseteq inputs'[t].up
        /\ ReleaseButtons(t) => prevButtons \subseteq inputs'[t].up
    BY <1>1, <1>3
       DEF InjTypeOK, ReleaseModifiers, ReleaseKeys, ReleaseButtons, Add, ReleaseInputs
  <2>2. /\ pc'[t] \in {"relKeys", "relSend", "relSendButtons"}
        /\ pc'[t] = "relKeys" => ReleaseModifiers(t)
        /\ pc'[t] = "relSend" => ReleaseKeys(t)
        /\ pc'[t] = "relSendButtons" => ReleaseButtons(t) /\ pc[t] = "relButtons"
    BY <1>3 DEF InjTypeOK, ReleaseModifiers, ReleaseKeys, ReleaseButtons
  <2>3. UNCHANGED <<prevModifiers, prevKeys, prevButtons>>
    BY <1>3 DEF ReleaseModifiers, ReleaseKeys, ReleaseButtons
  <2> QED
    BY <1>1, <2>1, <2>2, <2>3 DEF ReleaseInputs, Forgotten, ReleaseSteps, Keycodes
<1>4. CASE ReleaseSend(t) \/ ReleaseSendButtons(t)
  <2>4. SendInput(t)
    BY <1>4 DEF ReleaseSend, ReleaseSendButtons
  <2>5. inputs' = [inputs EXCEPT ![t] = NoInputs]
    BY <2>4 DEF SendInput
  <2>1. inputs'[t].up = {} /\ inputs'[t].press = {}
    BY <2>5 DEF InjTypeOK, NoInputs
  <2>2. /\ pc'[t] \in {"relStoreModifiers", "relStoreButtons"}
        /\ pc'[t] = "relStoreButtons" => pc[t] = "relSendButtons"
    BY <1>4 DEF InjTypeOK, ReleaseSend, ReleaseSendButtons
  <2>3. UNCHANGED <<prevModifiers, prevKeys, prevButtons>>
    BY <1>4 DEF ReleaseSend, ReleaseSendButtons
  <2> QED
    BY <1>1, <2>1, <2>2, <2>3 DEF ReleaseInputs, Forgotten, ReleaseSteps
<1>5. CASE ReleaseStoreModifiers(t)
  BY <1>1, <1>5 DEF InjTypeOK, ReleaseStoreModifiers, ReleaseInputs, Forgotten, ReleaseSteps
<1>6. CASE ReleaseStoreKeys(t)
  BY <1>1, <1>6 DEF InjTypeOK, ReleaseStoreKeys, ReleaseInputs, Forgotten, ReleaseSteps
<1>7. CASE ReleaseStoreButtons(t)
  BY <1>1, <1>7 DEF InjTypeOK, ReleaseStoreButtons, ReleaseInputs, Forgotten, ReleaseSteps
<1> QED
  BY <1>3, <1>4, <1>5, <1>6, <1>7 DEF release_all

LEMMA ReleaseThreaded ==
    ASSUME InjTypeOK, Quiet, NEW t \in Threads, release_all(t)
    PROVE  Threaded'
<1>t. Threaded
  BY DEF Quiet
<1>1. ASSUME NEW u \in Threads, pc'[u] \in ReleaseSteps
      PROVE  ReleaseInputs(u)' /\ Forgotten(u)'
  <2>1. CASE u = t
    BY <1>1, <2>1, ReleaseOwn
  <2>2. CASE u # t
    <3>1. ReleaseInputs(u) /\ Forgotten(u) /\ pc'[u] = pc[u] /\ inputs'[u] = inputs[u]
      BY <1>t, <1>1, <2>2, ReleaseFrame DEF Threaded
    <3>2. /\ Keycodes(prevModifiers)' \subseteq Keycodes(prevModifiers)
          /\ Keycodes(prevKeys)' \subseteq Keycodes(prevKeys)
          /\ prevButtons' \subseteq prevButtons
      BY ReleaseFrame DEF Keycodes
    <3> QED
      BY <3>1, <3>2, ReleaseFrame DEF ReleaseInputs, Forgotten
  <2> QED
    BY <2>1, <2>2
<1>2. pc'[Main] \notin ReleaseSteps => inputs'[Main].up = {} /\ inputs'[Main].press = {}
  BY <1>t, ThreadsDiffer, ReleaseFrame, ReleaseOwn DEF Threaded
<1>3. ASSUME pc'[Client] \in {"off", "gone"}
      PROVE  prevModifiers' = {} /\ prevKeys' = {} /\ prevButtons' = {}
  <2>1. CASE t = Client
    BY <1>3, <2>1, ReleaseOwn DEF ReleaseSteps
  <2>2. CASE t # Client
    BY <1>t, <1>3, <2>2, ThreadsDiffer, ReleaseFrame DEF Threaded
  <2> QED
    BY <2>1, <2>2
<1>4. ClientInputs' /\ (pc'[Client] = "storeKeys" => prevModifiers' = report'.modifiers)
  <2>1. pc'[Client] \in {"idle", "off", "gone"} \cup ReleaseSteps
    BY ThreadsDiffer, ReleaseFrame
       DEF Injecting, InjTypeOK, ClientSteps, Threads
  <2>2. CASE t = Client
    BY <2>1, <2>2, ReleaseFrame, ReleaseOwn DEF ClientInputs, ReleaseSteps
  <2>3. CASE t # Client
    BY <1>t, <2>1, <2>3, ThreadsDiffer, ReleaseFrame
       DEF Threaded, ClientInputs, ReleaseSteps
  <2> QED
    BY <2>2, <2>3
<1> QED
  BY <1>1, <1>2, <1>3, <1>4 DEF Threaded

LEMMA ReleaseHeld ==
    ASSUME InjTypeOK, InjTypeOK', Quiet, NEW t \in Threads, release_all(t)
    PROVE  Cardinality(down' \ StillHeld') <= lost'
<1> USE ThreadsDiffer DEF Goto, memory
<1>h. Cardinality(down \ StillHeld) <= lost
  BY ReleaseFrame DEF Quiet, HeldCount
<1>r. ReleaseInputs(t) /\ Forgotten(t)
  BY ReleaseFrame DEF Quiet, Threaded
<1>e. StillHeld \in SUBSET Events /\ StillHeld' \in SUBSET Events
  <2>1. Keycodes(prevModifiers) \cup Keycodes(prevKeys) \cup prevButtons \in SUBSET Events
    BY ReportedEvents DEF InjTypeOK
  <2>2. StillHeld' \subseteq Keycodes(prevModifiers) \cup Keycodes(prevKeys) \cup prevButtons
    BY ReleaseFrame DEF StillHeld, Keycodes
  <2> QED
    BY <2>1, <2>2 DEF StillHeld
<1>1. CASE ReleaseModifiers(t) \/ ReleaseKeys(t) \/ ReleaseButtons(t)
  <2>1. KeysReleased' = KeysReleased /\ ButtonsReleased' = ButtonsReleased
    BY <1>1
       DEF InjTypeOK, KeysReleased, ButtonsReleased, ReleaseModifiers, ReleaseKeys, ReleaseButtons
  <2>2. StillHeld' = StillHeld
    BY <1>1, <2>1 DEF StillHeld, ReleaseModifiers, ReleaseKeys, ReleaseButtons
  <2> QED
    BY <1>1, <1>h, <2>2 DEF ReleaseModifiers, ReleaseKeys, ReleaseButtons
<1>2. CASE ReleaseSend(t)
  <2>1. KeysReleased' /\ ButtonsReleased' = ButtonsReleased
    BY <1>2 DEF InjTypeOK, KeysReleased, ButtonsReleased, ReleaseSend
  <2>2. Keycodes(prevModifiers) \cup Keycodes(prevKeys) \subseteq inputs[t].up
        /\ inputs[t].press = {}
    BY <1>2, <1>r DEF ReleaseInputs, ReleaseSend
  <2>3. StillHeld \ StillHeld' \subseteq inputs[t].up
    BY <1>2, <2>1, <2>2 DEF StillHeld, ReleaseSend
  <2>4. SendInput(t)
    BY <1>2 DEF ReleaseSend
  <2> QED
    BY <1>h, <1>e, <2>2, <2>3, <2>4, SendHeld
<1>3. CASE ReleaseSendButtons(t)
  <2>1. ButtonsReleased' /\ KeysReleased' = KeysReleased
    BY <1>3 DEF InjTypeOK, KeysReleased, ButtonsReleased, ReleaseSendButtons
  <2>2. prevButtons \subseteq inputs[t].up /\ inputs[t].press = {}
    BY <1>3, <1>r DEF ReleaseInputs, ReleaseSendButtons
  <2>3. StillHeld \ StillHeld' \subseteq inputs[t].up
    BY <1>3, <2>1, <2>2 DEF StillHeld, ReleaseSendButtons
  <2>4. SendInput(t)
    BY <1>3 DEF ReleaseSendButtons
  <2> QED
    BY <1>h, <1>e, <2>2, <2>3, <2>4, SendHeld
<1>4. CASE ReleaseStoreModifiers(t)
  <2>1. KeysReleased /\ KeysReleased' /\ ButtonsReleased' = ButtonsReleased
    BY <1>4 DEF InjTypeOK, KeysReleased, ButtonsReleased, ReleaseStoreModifiers
  <2>2. StillHeld' = StillHeld
    BY <1>4, <2>1 DEF StillHeld, ReleaseStoreModifiers
  <2> QED
    BY <1>4, <1>h, <2>2 DEF ReleaseStoreModifiers
<1>5. CASE ReleaseStoreKeys(t)
  <2>1. KeysReleased /\ ButtonsReleased' = ButtonsReleased
    BY <1>5 DEF InjTypeOK, KeysReleased, ButtonsReleased, ReleaseStoreKeys
  <2>2. prevModifiers' = {} /\ prevKeys' = {} /\ prevButtons' = prevButtons
    BY <1>5, <1>r DEF Forgotten, ReleaseStoreKeys
  <2>3. StillHeld' = StillHeld
    BY <2>1, <2>2, NoEvents DEF StillHeld, Keycodes
  <2> QED
    BY <1>5, <1>h, <2>3 DEF ReleaseStoreKeys
<1>6. CASE ReleaseStoreButtons(t)
  <2>1. ButtonsReleased /\ KeysReleased' = KeysReleased
    BY <1>6 DEF InjTypeOK, KeysReleased, ButtonsReleased, ReleaseStoreButtons
  <2>2. StillHeld' = StillHeld
    BY <1>6, <2>1 DEF StillHeld, ReleaseStoreButtons
  <2> QED
    BY <1>6, <1>h, <2>2 DEF ReleaseStoreButtons
<1> QED
  BY <1>1, <1>2, <1>3, <1>4, <1>5, <1>6 DEF release_all

LEMMA ReleaseQuiet ==
    ASSUME InjTypeOK, InjTypeOK', Quiet, NEW t \in Threads, release_all(t)
    PROVE  Quiet'
<1>1. Apart' /\ HeldCount'
  BY ReleaseFrame, ReleaseHeld DEF Apart, HeldCount
<1>2. ASSUME ~StopReleases', pc'[Client] \in {"idle"} \cup InjectSteps
      PROVE  Gap(Held)' <= lost'
  <2>1. pc'[Client] = "idle"
    BY <1>2, ReleaseFrame DEF Injecting
  <2>2. t = Main /\ pc'[Main] \notin ReleaseSteps
    BY <1>2, <2>1, ReleaseFrame DEF ReleaseSteps, Threads, StopReleases
  <2>3. prevModifiers' = {} /\ prevKeys' = {} /\ prevButtons' = {}
    BY <2>2, ReleaseOwn
  <2>4. Held' = {} /\ StillHeld' = {}
    BY <2>1, <2>3, NoEvents DEF Held, Reported, StillHeld, Keycodes
  <2>5. Cardinality(down') <= lost' /\ Cardinality(down') \in Nat
    BY <2>4, ReleaseHeld, EventsFinite, down' \ {} = down' DEF InjTypeOK
  <2>6. Gap(Held)' = Cardinality(down') + Cardinality({})
    <3>1. down' \ Held' = down' /\ (Held' \ Shared') \ down' = {}
      BY <2>4
    <3> QED
      BY <3>1, Zenon DEF Gap
  <2> QED
    BY <2>5, <2>6, NoEvents
<1> QED
  BY <1>1, <1>2, ReleaseThreaded DEF Quiet, GapCount

-----------------------------------------------------------------------------
(* Connecting, disconnecting and stopping.                                 *)

LEMMA LifeQuiet ==
    ASSUME InjTypeOK, Quiet, LifeStep, Apart'
    PROVE  Quiet'
<1> USE ThreadsDiffer DEF Goto, Others, memory
<1>1. UNCHANGED <<prevModifiers, prevKeys, prevButtons, down, report, inputs, lost>>
  BY DEF LifeStep, Connect, Disconnect, LoopEnds, StopBegins, ClientStop, Exit
<1>2. /\ pc[Client] \notin InjectSteps \cup ReleaseSteps \/ pc'[Client] = pc[Client]
      /\ pc'[Client] \in {"idle", "relModifiers", "gone"} \/ pc'[Client] = pc[Client]
      /\ pc'[Client] = "idle" => pc[Client] \in {"off", "idle"}
      /\ pc'[Client] = "gone" => pc[Client] \in {"off", "gone"}
      /\ pc'[Client] = "relModifiers" => pc[Client] \in {"idle", "relModifiers"}
      /\ pc[Main] \notin ReleaseSteps \/ pc'[Main] = pc[Main]
      /\ pc'[Main] \in {"relModifiers", "join", "down"} \/ pc'[Main] = pc[Main]
      /\ pc'[Main] = "relModifiers" => pc[Main] \in {"up", "relModifiers"}
  BY DEF InjTypeOK, LifeStep, Connect, Disconnect, LoopEnds, StopBegins, ClientStop, Exit,
         InjectSteps, ReleaseSteps
<1>3. KeysReleased' = KeysReleased /\ ButtonsReleased' = ButtonsReleased
  BY <1>2 DEF KeysReleased, ButtonsReleased, Threads, ReleaseSteps
<1>4. StillHeld' = StillHeld
  BY <1>1, <1>3 DEF StillHeld
<1>5. Injecting' = Injecting /\ (~StopReleases' => ~StopReleases)
  BY <1>2 DEF Injecting, StopReleases, InjectSteps, ReleaseSteps
<1>6. HeldCount'
  BY <1>1, <1>4, <1>5 DEF Quiet, HeldCount
<1>7. Threaded'
  <2>1. ASSUME NEW u \in Threads, pc'[u] \in ReleaseSteps
        PROVE  ReleaseInputs(u)' /\ Forgotten(u)'
    <3>1. CASE pc'[u] = pc[u]
      BY <1>1, <2>1, <3>1 DEF Quiet, Threaded, ReleaseInputs, Forgotten
    <3>2. CASE pc'[u] # pc[u]
      <4>1. pc'[u] = "relModifiers" /\ inputs[u].press = {}
        BY <1>2, <2>1, <3>2
           DEF Quiet, Threaded, ClientInputs, Threads, ReleaseSteps
      <4> QED
        BY <1>1, <4>1 DEF ReleaseInputs, Forgotten
    <3> QED
      BY <3>1, <3>2
  <2>2. pc'[Main] \notin ReleaseSteps => inputs'[Main].up = {} /\ inputs'[Main].press = {}
    BY <1>1, <1>2 DEF Quiet, Threaded, ReleaseSteps
  <2>3. pc'[Client] \in {"off", "gone"} =>
            prevModifiers' = {} /\ prevKeys' = {} /\ prevButtons' = {}
    BY <1>1, <1>2 DEF Quiet, Threaded
  <2>4. ClientInputs'
    <3>1. ClientInputs
      BY DEF Quiet, Threaded
    <3>2. CASE pc'[Client] = pc[Client]
      BY <1>1, <3>1, <3>2
         DEF ClientInputs, ModifiersUp, ModifiersPress, KeysUp, KeysPress
    <3>3. CASE pc'[Client] # pc[Client]
      BY <1>1, <1>2, <3>1, <3>3 DEF ClientInputs
    <3> QED
      BY <3>2, <3>3
  <2>5. pc'[Client] = "storeKeys" => prevModifiers' = report'.modifiers
    BY <1>1, <1>2 DEF Quiet, Threaded
  <2> QED
    BY <2>1, <2>2, <2>3, <2>4, <2>5 DEF Threaded
<1>8. ASSUME ~StopReleases', pc'[Client] \in {"idle"} \cup InjectSteps
      PROVE  Gap(Held)' <= lost'
  <2>1. CASE pc'[Client] = pc[Client]
    <3>1. Gap(Held) <= lost
      BY <1>5, <1>8, <2>1 DEF Quiet, GapCount
    <3> QED
      BY <1>1, <2>1, <3>1 DEF Gap, Held, Reported
  <2>2. CASE pc'[Client] # pc[Client]
    <3>1. pc[Client] = "off" /\ pc'[Client] = "idle"
      BY <1>2, <1>8, <2>2 DEF InjectSteps
    <3>2. prevModifiers' = {} /\ prevKeys' = {} /\ prevButtons' = {}
      BY <1>1, <3>1 DEF Quiet, Threaded
    <3>3. Held' = {} /\ StillHeld' = {}
      BY <3>1, <3>2, NoEvents DEF Held, Reported, StillHeld, Keycodes
    <3>4. ~Injecting'
      BY <3>1 DEF Injecting, InjectSteps
    <3>5. Cardinality(down') <= lost' /\ Cardinality(down') \in Nat
      BY <1>1, <1>6, <3>3, <3>4, EventsFinite, down' \ {} = down' DEF HeldCount, InjTypeOK
    <3>6. Gap(Held)' = Cardinality(down') + Cardinality({})
      <4>1. down' \ Held' = down' /\ (Held' \ Shared') \ down' = {}
        BY <3>3
      <4> QED
        BY <4>1, Zenon DEF Gap
    <3> QED
      BY <3>5, <3>6, NoEvents
  <2> QED
    BY <2>1, <2>2
<1> QED
  BY <1>6, <1>7, <1>8 DEF Quiet, GapCount

-----------------------------------------------------------------------------
(* The invariant, and what it says.                                        *)

LEMMA InjInit == Init => InjInv
<1> SUFFICES ASSUME Init
             PROVE  InjInv
  OBVIOUS
<1> USE ThreadsDiffer, NoEvents DEF Init
<1>1. pc[Client] = "off" /\ pc[Main] = "up"
  OBVIOUS
<1>2. Apart /\ GapCount
  BY <1>1 DEF Apart, GapCount, StopReleases, Injecting, InjectSteps, ReleaseSteps
<1>3. Threaded
  BY <1>1 DEF Threaded, ClientInputs, Threads, ReleaseSteps, NoInputs
<1>4. HeldCount
  <2>1. down \ StillHeld = {}
    OBVIOUS
  <2> QED
    BY <2>1 DEF HeldCount
<1> QED
  BY <1>2, <1>3, <1>4, InitType DEF InjInv, Quiet

LEMMA InjStep == InjInv /\ [Next]_vars => InjInv'
<1> SUFFICES ASSUME InjInv, [Next]_vars
             PROVE  InjInv'
  OBVIOUS
<1>1. InjTypeOK /\ InjTypeOK'
  BY TypeStep DEF InjInv
<1>2. CASE UNCHANGED vars
  <2>1. UNCHANGED <<KeysReleased, ButtonsReleased>>
    BY <1>2 DEF vars, KeysReleased, ButtonsReleased
  <2>2. UNCHANGED <<StillHeld, Held, Reported, ClientInputs, Injecting, StopReleases>>
    BY <1>2, <2>1
       DEF vars, memory, StillHeld, Held, Reported, ClientInputs, ModifiersUp, ModifiersPress,
           KeysUp, KeysPress, Injecting, StopReleases
  <2>3. Quiet' = Quiet
    BY <1>2, <2>2
       DEF vars, memory, Quiet, Apart, Threaded, HeldCount, GapCount, Gap, ReleaseInputs,
           Forgotten
  <2> QED
    BY <1>1, <1>2, <2>3 DEF vars, InjInv
<1>3. CASE Next
  <2>1. pc'[Main] = "up" => pc[Main] = "up" /\ pc'[Main] \notin ReleaseSteps
    <3>1. pc'[Main] = "up" => pc[Main] = "up"
      <4>1. CASE Inject
        BY <4>1, <1>1, ThreadsDiffer
           DEF Goto, InjTypeOK, Inject, InjectReport, InjectPointer, Releases, Presses,
               SendKeys, StoreModifiers, StoreKeys, StoreButtons, SendButtons
      <4>2. ASSUME NEW t \in Threads, release_all(t)
            PROVE  pc'[Main] = "up" => pc[Main] = "up"
        BY <4>2, <1>1, ThreadsDiffer
           DEF Goto, InjTypeOK, release_all, ReleaseModifiers, ReleaseKeys, ReleaseSend,
               ReleaseStoreModifiers, ReleaseStoreKeys, ReleaseButtons, ReleaseSendButtons,
               ReleaseStoreButtons
      <4>3. CASE LifeStep
        BY <4>3, <1>1, ThreadsDiffer
           DEF Goto, InjTypeOK, LifeStep, Connect, Disconnect, LoopEnds, StopBegins,
               ClientStop, Exit
      <4> QED
        BY <1>3, <4>1, <4>2, <4>3 DEF Next, Step, LifeStep
    <3> QED
      BY <3>1 DEF ReleaseSteps
  <2>2. pc'[Main] = "up" => ~overlapped'
    BY <1>3, <2>1 DEF Next, InjInv, StopReleases
  <2>3. ASSUME ~overlapped'
        PROVE  Quiet'
    <3>1. Quiet /\ Apart'
      BY <1>3, <2>3 DEF Next, InjInv, Apart
    <3> QED
      BY <1>1, <1>3, <3>1, InjectQuiet, ReleaseQuiet, LifeQuiet DEF Next, Step, LifeStep
  <2> QED
    BY <1>1, <2>2, <2>3 DEF InjInv
<1> QED
  BY <1>2, <1>3

LEMMA InjInvariant == Spec => []InjInv
BY InjInit, InjStep, PTL DEF Spec

\* Nobody who is off the connection remembers anything.
LEMMA NothingRemembered ==
    ASSUME InjInv, ~overlapped, pc[Client] \in {"off", "gone"}
    PROVE  Cardinality(down) <= lost
<1>1. prevModifiers = {} /\ prevKeys = {} /\ prevButtons = {} /\ HeldCount
  BY DEF InjInv, Quiet, Threaded
<1>2. StillHeld = {}
  BY <1>1, NoEvents DEF StillHeld
<1>3. ~Injecting
  BY DEF Injecting, InjectSteps
<1> QED
  BY <1>1, <1>2, <1>3, down \ {} = down DEF HeldCount

(***************************************************************************)
(* Between reports the desktop holds what the last report held, up to the  *)
(* keys that share a virtual key and the events SendInput lost, although   *)
(* keys are remembered after they are sent and buttons before.             *)
(***************************************************************************)
THEOREM FollowsReports == Spec => []DesktopFollowsReports
<1>1. ASSUME InjInv
      PROVE  DesktopFollowsReports
  <2> SUFFICES ASSUME pc[Client] = "idle", pc[Main] = "up"
               PROVE  Cardinality(down \ Reported)
                          + Cardinality((Reported \ Shared) \ down) <= lost
    BY DEF DesktopFollowsReports
  <2>1. GapCount /\ ~StopReleases
    BY <1>1 DEF InjInv, Quiet, StopReleases, ReleaseSteps
  <2> QED
    BY <2>1 DEF GapCount, Gap, Held
<1> QED
  BY <1>1, InjInvariant, PTL

(***************************************************************************)
(* After a connection nothing stays held but what SendInput failed to      *)
(* release, wherever in its reports the connection ended, and wherever in  *)
(* stop() the main thread is, unless that release_all met an injection.    *)
(***************************************************************************)
THEOREM DisconnectReleases == Spec => []ReleasedOnDisconnect
<1>1. InjInv => ReleasedOnDisconnect
  BY NothingRemembered DEF ReleasedOnDisconnect, Left
<1> QED
  BY <1>1, InjInvariant, PTL

(***************************************************************************)
(* The same of a process that stop() ended, though it injected between     *)
(* stop()'s release_all and the end of its connection.                     *)
(***************************************************************************)
THEOREM StopReleasesAll == Spec => []CleanStop
<1>1. InjInv => CleanStop
  BY NothingRemembered DEF CleanStop, Left
<1> QED
  BY <1>1, InjInvariant, PTL
=============================================================================
