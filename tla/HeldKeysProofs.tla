--------------------------- MODULE HeldKeysProofs ---------------------------
(***************************************************************************)
(* HeldKeys for every keyboard, hotkey, set of buttons and limit, and the  *)
(* RateLimiter in it for any limit and window.                             *)
(***************************************************************************)
EXTENDS HeldKeys, FiniteSetTheorems, TLAPS

-----------------------------------------------------------------------------
(* The limiter: what each of its operations keeps.                         *)

\* Time stamps are in order, and none is in the future.
Ordered ==
    /\ \A i, j \in 1 .. Len(passed) : i <= j => passed[i] <= passed[j]
    /\ \A i \in 1 .. Len(passed) : passed[i] <= now

\* What is no longer in the deque has expired.
Gone == \A i \in 1 .. first - 1 : Expired(i)

LimiterInv == LimiterTypeOK /\ Ordered /\ Gone /\ WindowBound

\* A limiter that has let nothing through satisfies the invariant.
LEMMA InitInv == LimiterInit => LimiterInv
BY LimiterAssumption
   DEF LimiterInit, LimiterInv, LimiterTypeOK, Ordered, Gone, WindowBound

\* Forgetting everything at a reconnection keeps it.
LEMMA ResetInv == LimiterInv /\ Reset => LimiterInv'
BY LimiterAssumption
   DEF Reset, LimiterInv, LimiterTypeOK, Ordered, Gone, WindowBound

\* Time passing only makes more stamps expire.
LEMMA TickInv == LimiterInv /\ Tick => LimiterInv'
BY LimiterAssumption
   DEF Tick, LimiterInv, LimiterTypeOK, Ordered, Gone, WindowBound, Expired

\* A refusal evicts, and keeps the invariant.
LEMMA RejectInv == LimiterInv /\ Reject => LimiterInv'
<1> SUFFICES ASSUME LimiterInv,
                    NEW f \in first .. Len(passed) + 1, Evict(f),
                    first' = f, UNCHANGED <<now, passed>>
             PROVE  LimiterInv'
  BY DEF Reject
<1> USE LimiterAssumption
<1>1. LimiterTypeOK'
  BY DEF LimiterInv, LimiterTypeOK
<1>2. Ordered' /\ WindowBound'
  BY DEF LimiterInv, Ordered, WindowBound
<1>3. Gone'
  <2> SUFFICES ASSUME NEW i \in 1 .. f - 1
               PROVE  Expired(i)
    BY DEF Gone, Expired
  <2>1. CASE i < first
    BY <2>1 DEF LimiterInv, LimiterTypeOK, Gone
  <2>2. CASE i >= first
    BY <2>2 DEF LimiterInv, LimiterTypeOK, Evict
  <2> QED BY <2>1, <2>2 DEF LimiterInv, LimiterTypeOK
<1> QED BY <1>1, <1>2, <1>3 DEF LimiterInv

\* An event that is let through comes at least a window after the one
\* MaxEvents before it, because that one has been evicted.
LEMMA AllowInv == LimiterInv /\ Allow => LimiterInv'
<1> SUFFICES ASSUME LimiterInv,
                    NEW f \in first .. Len(passed) + 1, Evict(f), Held(f) < MaxEvents,
                    first' = f, passed' = Append(passed, now), UNCHANGED now
             PROVE  LimiterInv'
  BY DEF Allow
<1> USE LimiterAssumption
<1>t. /\ now \in Nat /\ passed \in Seq(Nat) /\ Len(passed) \in Nat
      /\ first \in 1 .. Len(passed) + 1 /\ f \in 1 .. Len(passed) + 1
      /\ \A i \in 1 .. Len(passed) : passed[i] \in Nat
  BY DEF LimiterInv, LimiterTypeOK
<1>a. /\ passed' \in Seq(Nat)
      /\ Len(passed') = Len(passed) + 1
      /\ passed'[Len(passed) + 1] = now
      /\ \A i \in 1 .. Len(passed) : passed'[i] = passed[i]
  BY <1>t
<1>1. LimiterTypeOK'
  BY <1>t, <1>a DEF LimiterTypeOK
<1>2. Ordered'
  BY <1>t, <1>a DEF LimiterInv, Ordered
<1>3. ASSUME NEW i \in 1 .. f - 1
      PROVE  Expired(i)
  <2>1. CASE i < first
    BY <1>t, <2>1 DEF LimiterInv, Gone
  <2>2. CASE i >= first
    BY <1>t, <2>2 DEF Evict
  <2> QED BY <1>t, <2>1, <2>2
<1>4. Gone'
  BY <1>t, <1>a, <1>3 DEF Gone, Expired
<1>5. WindowBound'
  <2> SUFFICES ASSUME NEW i \in 1 .. Len(passed') - MaxEvents
               PROVE  passed'[i] + Window <= passed'[i + MaxEvents]
    BY DEF WindowBound
  <2>t. MaxEvents \in Nat \ {0} /\ i \in Nat \ {0} /\ i + MaxEvents <= Len(passed) + 1
    BY <1>t, <1>a
  <2>1. CASE i + MaxEvents <= Len(passed)
    <3>1. i \in 1 .. Len(passed) - MaxEvents
      BY <1>t, <2>t, <2>1
    <3>2. passed[i] + Window <= passed[i + MaxEvents]
      BY <3>1 DEF LimiterInv, WindowBound
    <3>3. i \in 1 .. Len(passed) /\ i + MaxEvents \in 1 .. Len(passed)
      BY <1>t, <2>t, <2>1
    <3> QED BY <1>a, <3>2, <3>3
  <2>2. CASE i + MaxEvents = Len(passed) + 1
    <3>1. i \in 1 .. f - 1 /\ i \in 1 .. Len(passed)
      BY <1>t, <2>t, <2>2 DEF Held
    <3> QED BY <1>t, <1>a, <1>3, <2>2, <3>1 DEF Expired
  <2>3. i + MaxEvents <= Len(passed) \/ i + MaxEvents = Len(passed) + 1
    <3>1. i + MaxEvents \in Int /\ Len(passed) \in Int
      BY <1>t, <2>t
    <3> QED BY <2>t, <3>1
  <2> QED BY <2>1, <2>2, <2>3
<1> QED BY <1>1, <1>2, <1>4, <1>5 DEF LimiterInv

\* At a refusal the deque, evicted, holds at least the limit: the event
\* MaxEvents ago is in it, so it has not expired.
LEMMA RejectFull == LimiterInv /\ Reject => WindowFull
<1> SUFFICES ASSUME LimiterInv,
                    NEW f \in first .. Len(passed) + 1, Evict(f), Held(f) >= MaxEvents
             PROVE  WindowFull
  BY DEF Reject
<1> USE LimiterAssumption
<1>t. /\ now \in Nat /\ Len(passed) \in Nat /\ f \in 1 .. Len(passed) + 1
      /\ \A i \in 1 .. Len(passed) : passed[i] \in Nat
  BY DEF LimiterInv, LimiterTypeOK
<1>1. f <= Len(passed) - MaxEvents + 1 /\ f \in 1 .. Len(passed)
  BY <1>t DEF Held
<1>2. passed[f] > now - Window
  BY <1>t, <1>1 DEF Evict, Expired
<1>3. passed[f] <= passed[Len(passed) - MaxEvents + 1]
  BY <1>t, <1>1 DEF LimiterInv, Ordered
<1> QED BY <1>t, <1>1, <1>2, <1>3 DEF WindowFull

-----------------------------------------------------------------------------
(* Types.                                                                  *)

LEMMA ReportFacts ==
    /\ \A k \in SUBSET Keys : [dev |-> Keyboard, held |-> k] \in Report
    /\ \A m \in SUBSET Bits : [dev |-> Pointer, held |-> m] \in Report
    /\ \A r \in Report : /\ r.dev \in Devices
                         /\ r.dev = Keyboard => r.held \subseteq Keys
                         /\ r.dev = Pointer => r.held \subseteq Bits
    /\ Keyboard # Pointer
BY DEF Report, Devices, Keyboard, Pointer

LEMMA BitsOfButtons == \A b \in Buttons : Bit[b] \in Bits
BY DEF Bits

LEMMA InitType == Init => HeldTypeOK
<1> SUFFICES ASSUME Init
             PROVE  HeldTypeOK
  OBVIOUS
<1>1. LimiterTypeOK
  BY InitInv DEF Init, LimiterInv
<1>2. wire \in Seq(Report)
  BY DEF Init
<1> QED BY <1>1, <1>2 DEF Init, HeldTypeOK

LEMMA LimiterStep == LimiterInv /\ [Next]_vars => LimiterInv'
<1> SUFFICES ASSUME LimiterInv, [Next]_vars
             PROVE  LimiterInv'
  OBVIOUS
<1>1. CASE UNCHANGED limiterVars
  BY <1>1 DEF limiterVars, LimiterInv, LimiterTypeOK, Ordered, Gone, Expired, WindowBound
<1>2. CASE Allow
  BY <1>2, AllowInv
<1>3. CASE Reject
  BY <1>3, RejectInv
<1>4. CASE Reset
  BY <1>4, ResetInv
<1>5. CASE Tick
  BY <1>5, TickInv
<1>6. UNCHANGED limiterVars \/ Allow \/ Reject \/ Reset \/ Tick
  BY DEF Next, vars, KeyEvent, ButtonEvent, ButtonMissed, ReadError, Move, Write, Lose, Hotkey,
         MenuToggle, Toggle, MacRestarts, Connect, LinkLost, Disconnect, InjectKeyboard,
         InjectPointer, Refuse, RateLimited, StopRelease, StopReleased, ReceiverGone, WinStart,
         Time
<1> QED BY <1>1, <1>2, <1>3, <1>4, <1>5, <1>6

\* What Forward does, whoever calls it.
LEMMA ForwardType ==
    ASSUME sending \subseteq Report, behind \subseteq Devices, NEW dev \in Devices, NEW held,
           [dev |-> dev, held |-> held] \in Report, Forward(dev, held)
    PROVE  sending' \subseteq Report /\ behind' \subseteq Devices
BY DEF Forward

\* What Take does: a report of the right shape leaves the wire.
LEMMA TakeType ==
    ASSUME wire \in Seq(Report), NEW dev, Take(dev)
    PROVE  /\ wire' \in Seq(Report)
           /\ Head(wire) \in Report
           /\ Head(wire) = wire[1]
           /\ Len(wire) \in Nat \ {0}
           /\ Len(wire') = Len(wire) - 1
           /\ \A i \in 1 .. Len(wire) - 1 : wire'[i] = wire[i + 1]
BY DEF Take

LEMMA TypeStep == HeldTypeOK /\ LimiterInv' /\ [Next]_vars => HeldTypeOK'
<1> SUFFICES ASSUME HeldTypeOK, LimiterInv', [Next]_vars
             PROVE  HeldTypeOK'
  OBVIOUS
<1> USE DEF HeldTypeOK
<1>l. LimiterTypeOK'
  BY DEF LimiterInv
<1>d. Keyboard \in Devices /\ Pointer \in Devices
  BY DEF Devices
<1>1. ASSUME NEW k \in Keys, KeyEvent(k)
      PROVE  HeldTypeOK'
  <2>1. keys' \in SUBSET Keys
    BY <1>1 DEF KeyEvent, Flip
  <2>2. sending' \subseteq Report /\ behind' \subseteq Devices
    BY <1>1, <1>d, <2>1, ForwardType, ReportFacts DEF KeyEvent
  <2> QED BY <1>1, <1>l, <2>1, <2>2 DEF KeyEvent, macVars, winVars, desktop
<1>2. ASSUME NEW b \in Buttons, ButtonEvent(b)
      PROVE  HeldTypeOK'
  <2>1. mask' \in SUBSET Bits /\ buttons' \subseteq Buttons /\ missed' \subseteq Buttons
    BY <1>2, BitsOfButtons DEF ButtonEvent, Masked, Flip
  <2>2. sending' \subseteq Report /\ behind' \subseteq Devices
    BY <1>2, <1>d, <2>1, ForwardType, ReportFacts DEF ButtonEvent
  <2> QED BY <1>2, <1>l, <2>1, <2>2 DEF ButtonEvent, winVars, desktop
<1>3. ASSUME NEW b \in Buttons, ButtonMissed(b)
      PROVE  HeldTypeOK'
  BY <1>3, <1>l DEF ButtonMissed, Flip, macVars, winVars, desktop
<1>4. CASE Move
  <2>1. sending' \subseteq Report /\ behind' \subseteq Devices
    BY <1>4, <1>d, ForwardType, ReportFacts DEF Move
  <2> QED BY <1>4, <1>l, <2>1 DEF Move, hands, macVars, winVars, desktop
<1>5. CASE ReadError \/ Hotkey \/ MenuToggle \/ LinkLost
  BY <1>5, <1>l, <1>d DEF ReadError, Hotkey, MenuToggle, Toggle, LinkLost, hands, winVars, desktop
<1>6. CASE MacRestarts
  <2>1. behind' \subseteq Devices /\ sending' = {}
    BY <1>6, <1>d, ReportFacts DEF MacRestarts
  <2> QED BY <1>6, <1>l, <2>1 DEF MacRestarts, hands, winVars, desktop
<1>7. ASSUME NEW r \in sending, Write(r) \/ Lose(r)
      PROVE  HeldTypeOK'
  <2>1. r \in Report /\ r.dev \in Devices
    BY ReportFacts
  <2>2. wire' \in Seq(Report) /\ sending' \subseteq Report /\ behind' \subseteq Devices
    BY <1>7, <2>1 DEF Write, Lose
  <2> QED BY <1>7, <1>l, <2>2 DEF Write, Lose, hands, macVars, winVars, desktop
<1>8. CASE Connect \/ Disconnect \/ StopRelease \/ StopReleased \/ ReceiverGone
  <2>1. wire' \in Seq(Report) /\ behind' \subseteq Devices /\ sending' \subseteq Report
    <3>1. wire' = <<>> \/ wire' = wire
      BY <1>8 DEF Connect, Disconnect, StopRelease, StopReleased, ReceiverGone
    <3>2. behind' \in {behind, Devices} /\ sending' = sending
      BY <1>8 DEF Connect, Disconnect, StopRelease, StopReleased, ReceiverGone
    <3>3. <<>> \in Seq(Report)
      OBVIOUS
    <3>4. wire' \in Seq(Report)
      BY <3>1, <3>3 DEF HeldTypeOK
    <3>5. behind' \subseteq Devices /\ sending' \subseteq Report
      BY <3>2 DEF HeldTypeOK
    <3> QED BY <3>4, <3>5
  <2>2. /\ down' \subseteq down
        /\ prevKeys' \in {prevKeys, {}} /\ prevButtons' \in {prevButtons, {}}
        /\ releasing' \subseteq Keys \cup Bits
    BY <1>8 DEF Connect, Disconnect, StopRelease, StopReleased, ReceiverGone, release_all,
                desktop, Memory
  <2>3. macLinked' \in BOOLEAN /\ winLinked' \in BOOLEAN
    BY <1>8 DEF Connect, Disconnect, StopRelease, StopReleased, ReceiverGone, macVars
  <2>4. process' \in {"up", "releasing", "stopping", "down"}
    BY <1>8 DEF Connect, Disconnect, StopRelease, StopReleased, ReceiverGone
  <2>5. UNCHANGED <<keys, buttons, reading, mask, forwarding, missed>>
    BY <1>8 DEF Connect, Disconnect, StopRelease, StopReleased, ReceiverGone, hands, macVars
  <2> QED BY <1>l, <2>1, <2>2, <2>3, <2>4, <2>5
<1>9. CASE WinStart \/ Time
  BY <1>9, <1>l DEF WinStart, Time, hands, macVars, winVars, desktop
<1>10. CASE InjectKeyboard \/ InjectPointer
  <2>1. wire' \in Seq(Report) /\ down' \subseteq Keys \cup Bits
    BY <1>10, TakeType, ReportFacts DEF InjectKeyboard, InjectPointer, Pressed, Take
  <2>2. prevKeys' \subseteq Keys /\ prevButtons' \subseteq Bits
    BY <1>10, TakeType, ReportFacts DEF InjectKeyboard, InjectPointer, Take
  <2> QED BY <1>10, <1>l, <2>1, <2>2 DEF InjectKeyboard, InjectPointer, Take, hands, macVars
<1>11. CASE Refuse \/ RateLimited
  <2>1. PICK dev \in Devices : Drop(dev)
    BY <1>11, <1>d DEF Refuse, RateLimited
  <2>2. wire' \in Seq(Report) /\ behind' \subseteq Devices
    BY <2>1, TakeType DEF Drop
  <2> QED BY <1>l, <2>1, <2>2 DEF Drop, Take, hands, macVars, desktop
<1>12. CASE UNCHANGED vars
  BY <1>12, <1>l DEF vars, hands, macVars, winVars, desktop
<1> QED BY <1>1, <1>2, <1>3, <1>4, <1>5, <1>6, <1>7, <1>8, <1>9, <1>10, <1>11, <1>12 DEF Next

-----------------------------------------------------------------------------
(* The mask.                                                               *)

LEMMA MaskStep ==
    HeldTypeOK /\ MaskFollowsButtons /\ [Next]_vars => MaskFollowsButtons'
<1> SUFFICES ASSUME HeldTypeOK, MaskFollowsButtons, [Next]_vars
             PROVE  MaskFollowsButtons'
  OBVIOUS
<1> DEFINE Sharing(m) == {b \in Buttons : Bit[b] = m}
           Follows(m) == /\ m \in mask => Sharing(m) \cap (buttons \cup missed) # {}
                         /\ Sharing(m) \subseteq buttons \ missed => m \in mask
<1>f. \A m \in Bits : Follows(m)
  BY DEF MaskFollowsButtons
<1>g. SUFFICES ASSUME NEW m \in Bits
               PROVE  Follows(m)'
  BY DEF MaskFollowsButtons
<1>m. Sharing(m) # {}
  BY DEF Bits
<1>1. ASSUME NEW b \in Buttons, ButtonEvent(b)
      PROVE  Follows(m)'
  BY <1>1, <1>f DEF ButtonEvent, Masked, Flip
<1>2. ASSUME NEW b \in Buttons, ButtonMissed(b)
      PROVE  Follows(m)'
  BY <1>2, <1>f DEF ButtonMissed, Flip, macVars
<1>3. CASE MacRestarts
  BY <1>3, <1>m DEF MacRestarts, hands
<1>4. CASE UNCHANGED <<mask, buttons, missed>>
  BY <1>4, <1>f
<1>5. \/ \E b \in Buttons : ButtonEvent(b) \/ ButtonMissed(b)
      \/ MacRestarts
      \/ UNCHANGED <<mask, buttons, missed>>
  BY DEF Next, vars, hands, macVars, KeyEvent, ReadError, Move, Write, Lose, Hotkey, MenuToggle,
         Toggle, Connect, LinkLost, Disconnect, InjectKeyboard, InjectPointer, Refuse,
         RateLimited, Drop, Take, StopRelease, StopReleased, ReceiverGone, WinStart, Time
<1> QED BY <1>1, <1>2, <1>3, <1>4, <1>5

-----------------------------------------------------------------------------
(* The receiver's memory and the desktop.                                  *)

(***************************************************************************)
(* What the receiver remembers is held; without a connection it remembers  *)
(* nothing; and what the release_all of a stop() has read is either still  *)
(* remembered or no longer held.                                           *)
(***************************************************************************)
Remembered ==
    /\ Memory \subseteq down
    /\ ~winLinked => Memory = {}
    /\ releasing \cap Orphans = {}

\* The desktop and the memory change in few ways only.
DesktopStep ==
    \/ UNCHANGED <<desktop, releasing>> /\ (winLinked => winLinked')
    \/ /\ prevKeys' \subseteq Keys
       /\ down' = Pressed(prevKeys, prevKeys')
       /\ UNCHANGED <<prevButtons, releasing>> /\ winLinked'
    \/ /\ prevButtons' \subseteq Bits
       /\ down' = Pressed(prevButtons, prevButtons')
       /\ UNCHANGED <<prevKeys, releasing>> /\ winLinked'
    \/ Disconnect \/ StopRelease \/ StopReleased \/ ReceiverGone

LEMMA EveryDesktopStep == HeldTypeOK /\ [Next]_vars => DesktopStep
<1> SUFFICES ASSUME HeldTypeOK, [Next]_vars
             PROVE  DesktopStep
  OBVIOUS
<1>1. CASE InjectKeyboard
  BY <1>1, TakeType, ReportFacts DEF HeldTypeOK, InjectKeyboard, Take, DesktopStep
<1>2. CASE InjectPointer
  BY <1>2, TakeType, ReportFacts DEF HeldTypeOK, InjectPointer, Take, DesktopStep
<1>3. CASE Disconnect \/ StopRelease \/ StopReleased \/ ReceiverGone
  BY <1>3 DEF DesktopStep
<1>4. CASE UNCHANGED <<desktop, releasing>> /\ (winLinked => winLinked')
  BY <1>4 DEF DesktopStep
<1>5. \/ InjectKeyboard \/ InjectPointer
      \/ Disconnect \/ StopRelease \/ StopReleased \/ ReceiverGone
      \/ UNCHANGED <<desktop, releasing>> /\ (winLinked => winLinked')
  BY DEF Next, vars, winVars, KeyEvent, ButtonEvent, ButtonMissed, ReadError, Move, Write, Lose,
         Hotkey, MenuToggle, Toggle, MacRestarts, Connect, LinkLost, Refuse, RateLimited, Drop,
         Take, WinStart, Time
<1> QED BY <1>1, <1>2, <1>3, <1>4, <1>5

LEMMA RememberedStep ==
    HeldTypeOK /\ Remembered /\ [Next]_vars => Remembered'
<1> SUFFICES ASSUME HeldTypeOK, Remembered, DesktopStep
             PROVE  Remembered'
  BY EveryDesktopStep
<1> QED BY HeldAssumption
        DEF DesktopStep, Remembered, Memory, Orphans, Pressed, release_all, desktop, Disconnect,
            StopRelease, StopReleased, ReceiverGone, HeldTypeOK

LEMMA OrphansStep ==
    HeldTypeOK /\ Remembered /\ [Next]_vars =>
        /\ Orphans' \subseteq Orphans \/ LeavesOrphans
        /\ Orphans \ Orphans' \subseteq Memory'
<1> SUFFICES ASSUME HeldTypeOK, Remembered, DesktopStep
             PROVE  /\ Orphans' \subseteq Orphans \/ LeavesOrphans
                    /\ Orphans \ Orphans' \subseteq Memory'
  BY EveryDesktopStep
<1> USE HeldAssumption DEF Remembered, Memory, Orphans, HeldTypeOK
<1>1. CASE ReceiverGone
  BY <1>1 DEF ReceiverGone, LeavesOrphans
<1>2. CASE StopReleased
  BY <1>2 DEF StopReleased, release_all, LeavesOrphans
<1> QED BY <1>1, <1>2 DEF DesktopStep, Pressed, release_all, desktop, Disconnect, StopRelease

-----------------------------------------------------------------------------
(* The wire.                                                               *)

\* What a device says is held, and what the receiver remembers of it.
Says(dev) == IF dev = Keyboard THEN keys ELSE mask
Has(dev) == IF dev = Keyboard THEN prevKeys ELSE prevButtons

\* Nothing of the device follows on the wire.
NoneAfter(dev, i) == \A j \in 1 .. Len(wire) : j > i => wire[j].dev # dev

\* The thread of the device has a report to write.
Busy(dev) == \E r \in sending : r.dev = dev

\* What is to be written says what its device says; so does the reader's, and
\* only a reader that runs has any.
SendingInv ==
    \A r \in sending : r.held = Says(r.dev) /\ (r.dev = Keyboard => reading)

(***************************************************************************)
(* Unless the desktop has missed a device's last event, the device's last  *)
(* report on the wire says what the device says now; when none is on the   *)
(* wire, the receiver remembers it.                                        *)
(***************************************************************************)
InStep(dev) ==
    dev \notin behind /\ ~Busy(dev) =>
        /\ \A i \in 1 .. Len(wire) :
              wire[i].dev = dev /\ NoneAfter(dev, i) => wire[i].held = Says(dev)
        /\ winLinked /\ NoneAfter(dev, 0) => Has(dev) = Says(dev)

WireInv == SendingInv /\ \A dev \in Devices : InStep(dev)

\* Forward keeps it, for the device that sends and for the other.
LEMMA ForwardInStep ==
    ASSUME HeldTypeOK, WireInv, NEW d \in Devices, NEW held, Forward(d, held),
           CanCapture(d), d = Keyboard => reading, Says(d)' = held,
           \A dev \in Devices : /\ dev # d => Says(dev)' = Says(dev)
                                /\ Has(dev)' = Has(dev),
           UNCHANGED <<winLinked, wire, reading>>
    PROVE  WireInv'
<1>1. SendingInv'
  <2> SUFFICES ASSUME NEW r \in sending'
               PROVE  r.held = Says(r.dev)' /\ (r.dev = Keyboard => reading')
    BY DEF SendingInv
  <2>1. CASE r \in sending
    <3>1. r.dev \in Devices /\ r.dev # d
      BY <2>1, ReportFacts DEF HeldTypeOK, CanCapture
    <3> QED BY <2>1, <3>1 DEF WireInv, SendingInv
  <2>2. CASE r = [dev |-> d, held |-> held]
    BY <2>2
  <2> QED BY <2>1, <2>2 DEF Forward
<1>2. ASSUME NEW dev \in Devices
      PROVE  InStep(dev)'
  <2>1. CASE dev = d
    <3>1. CASE forwarding
      <4>1. [dev |-> d, held |-> held] \in sending'
        BY <3>1 DEF Forward
      <4>2. Busy(dev)'
        BY <2>1, <4>1 DEF Busy
      <4> QED BY <4>2 DEF InStep
    <3>2. CASE ~forwarding
      BY <2>1, <3>2 DEF Forward, InStep
    <3> QED BY <3>1, <3>2
  <2>2. CASE dev # d
    <3>1. Busy(dev)' = Busy(dev) /\ (dev \in behind') = (dev \in behind)
      BY <2>2 DEF Forward, Busy
    <3> QED BY <2>2, <3>1 DEF WireInv, InStep, NoneAfter
  <2> QED BY <2>1, <2>2
<1> QED BY <1>1, <1>2 DEF WireInv

\* So does the write of a report: it is the device's last.
LEMMA WriteInStep ==
    ASSUME HeldTypeOK, WireInv, NEW r \in sending, Write(r)
    PROVE  WireInv'
<1>r. r \in Report /\ r.dev \in Devices /\ r.held = Says(r.dev)
  BY ReportFacts DEF HeldTypeOK, WireInv, SendingInv
<1>s. UNCHANGED <<winLinked, reading, keys, mask, prevKeys, prevButtons>>
  BY DEF Write, hands, macVars, winVars, desktop
<1>1. SendingInv'
  BY <1>s DEF Write, WireInv, SendingInv, Says
<1>w. /\ wire \in Seq(Report) /\ Len(wire) \in Nat
      /\ Len(wire') = Len(wire) + 1
      /\ \A i \in 1 .. Len(wire) : wire'[i] = wire[i]
      /\ wire'[Len(wire) + 1] = r
  BY <1>r DEF HeldTypeOK, Write
<1>2. ASSUME NEW dev \in Devices, dev \notin behind', ~Busy(dev)'
      PROVE  InStep(dev)'
  <2>1. CASE dev = r.dev
    <3>1. ASSUME NEW i \in 1 .. Len(wire'), NoneAfter(dev, i)'
          PROVE  i = Len(wire) + 1
      BY <1>w, <2>1, <3>1 DEF NoneAfter
    <3>2. ~NoneAfter(dev, 0)'
      BY <1>w, <2>1 DEF NoneAfter
    <3>3. Says(dev)' = Says(dev)
      BY <1>s DEF Says
    <3> QED BY <1>r, <1>w, <2>1, <3>1, <3>2, <3>3 DEF InStep
  <2>2. CASE dev # r.dev
    <3>1. dev \notin behind /\ ~Busy(dev)
      BY <1>2, <2>2 DEF Write, Busy
    <3>2. \A i \in 0 .. Len(wire) : NoneAfter(dev, i)' = NoneAfter(dev, i)
      BY <1>w, <2>2 DEF NoneAfter
    <3>3. Says(dev)' = Says(dev) /\ Has(dev)' = Has(dev)
      BY <1>s DEF Says, Has
    <3>4. InStep(dev)
      BY DEF WireInv
    <3>5. ASSUME NEW i \in 1 .. Len(wire'), wire'[i].dev = dev, NoneAfter(dev, i)'
          PROVE  wire'[i].held = Says(dev)'
      <4>1. i \in 1 .. Len(wire) /\ i \in 0 .. Len(wire)
        BY <1>w, <2>2, <3>5
      <4> QED BY <1>w, <3>1, <3>2, <3>3, <3>4, <3>5, <4>1 DEF InStep
    <3> QED BY <1>s, <1>w, <3>1, <3>2, <3>3, <3>4, <3>5 DEF InStep
  <2> QED BY <2>1, <2>2
<1> QED BY <1>1, <1>2 DEF WireInv, InStep

\* A step that neither reads nor writes, and after which the desktop is behind
\* on every device whose word has changed or whose report is gone.
LEMMA QuietInStep ==
    ASSUME WireInv, wire' = wire, winLinked' = winLinked, behind \subseteq behind',
           sending' \subseteq sending,
           \A r \in sending : r \in sending' \/ r.dev \in behind',
           \A r \in sending' : Says(r.dev)' = Says(r.dev) /\ (r.dev = Keyboard => reading'),
           \A dev \in Devices : /\ Has(dev)' = Has(dev)
                                /\ Says(dev)' = Says(dev) \/ dev \in behind'
    PROVE  WireInv'
<1>1. SendingInv'
  BY DEF WireInv, SendingInv
<1>2. ASSUME NEW dev \in Devices, dev \notin behind', ~Busy(dev)'
      PROVE  InStep(dev)'
  <2>1. dev \notin behind /\ ~Busy(dev) /\ Says(dev)' = Says(dev)
    BY <1>2 DEF Busy
  <2> QED BY <2>1 DEF WireInv, InStep, NoneAfter
<1> QED BY <1>1, <1>2 DEF WireInv, InStep

\* Reading the first report keeps it for the other device, and for its own if
\* the report is remembered or another follows.
LEMMA TakeInStep ==
    ASSUME HeldTypeOK, WireInv, NEW d \in Devices, Take(d),
           UNCHANGED <<keys, mask>>,
           \A dev \in Devices : dev # d => Has(dev)' = Has(dev),
           behind \subseteq behind',
           \/ Has(d)' = Head(wire).held
           \/ d \in behind'
           \/ ~NoneAfter(d, 1)
    PROVE  WireInv'
<1>s. /\ UNCHANGED <<sending, reading>>
      /\ \A dev : Says(dev)' = Says(dev) /\ Busy(dev)' = Busy(dev)
  BY DEF Take, macVars, Says, Busy
<1> SUFFICES ASSUME NEW dev \in Devices, dev \notin behind', ~Busy(dev)
             PROVE  InStep(dev)'
  BY <1>s DEF WireInv, SendingInv, InStep
<1>w. /\ Len(wire) \in Nat \ {0} /\ Len(wire') = Len(wire) - 1
      /\ \A i \in 1 .. Len(wire) - 1 : wire'[i] = wire[i + 1]
      /\ wire[1].dev = d /\ wire[1] = Head(wire)
      /\ winLinked /\ winLinked' = winLinked
  BY TakeType DEF HeldTypeOK, Take
<1>1. InStep(dev) /\ dev \notin behind
  BY DEF WireInv
<1>2. ASSUME NEW i \in 0 .. Len(wire) - 1
      PROVE  NoneAfter(dev, i)' = NoneAfter(dev, i + 1)
  <2>1. ASSUME NoneAfter(dev, i)'
        PROVE  NoneAfter(dev, i + 1)
    <3> SUFFICES ASSUME NEW j \in 1 .. Len(wire), j > i + 1
                 PROVE  wire[j].dev # dev
      BY DEF NoneAfter
    <3>1. j - 1 \in 1 .. Len(wire) - 1 /\ j - 1 > i /\ (j - 1) + 1 = j
      BY <1>w
    <3> QED BY <1>w, <2>1, <3>1 DEF NoneAfter
  <2>2. ASSUME NoneAfter(dev, i + 1)
        PROVE  NoneAfter(dev, i)'
    <3> SUFFICES ASSUME NEW j \in 1 .. Len(wire) - 1, j > i
                 PROVE  wire'[j].dev # dev
      BY <1>w DEF NoneAfter
    <3>1. j + 1 \in 1 .. Len(wire) /\ j + 1 > i + 1
      BY <1>w
    <3> QED BY <1>w, <2>2, <3>1 DEF NoneAfter
  <2> QED BY <2>1, <2>2 DEF NoneAfter
<1>3. ASSUME NEW i \in 1 .. Len(wire'), wire'[i].dev = dev, NoneAfter(dev, i)'
      PROVE  wire'[i].held = Says(dev)'
  <2>1. i + 1 \in 1 .. Len(wire) /\ i \in 0 .. Len(wire) - 1 /\ wire'[i] = wire[i + 1]
    BY <1>w
  <2> QED BY <1>s, <1>1, <1>2, <1>3, <2>1 DEF InStep
<1>4. ASSUME NoneAfter(dev, 0)'
      PROVE  Has(dev)' = Says(dev)'
  <2>1. NoneAfter(dev, 1) /\ 1 \in 1 .. Len(wire)
    BY <1>w, <1>2, <1>4
  <2>2. CASE dev = d
    BY <1>s, <1>w, <1>1, <2>1, <2>2 DEF InStep
  <2>3. CASE dev # d
    <3>1. NoneAfter(dev, 0)
      BY <1>w, <2>1, <2>3 DEF NoneAfter
    <3> QED BY <1>s, <1>w, <1>1, <2>3, <3>1 DEF InStep
  <2> QED BY <2>2, <2>3
<1> QED BY <1>w, <1>3, <1>4 DEF InStep

LEMMA WireStep == HeldTypeOK /\ WireInv /\ [Next]_vars => WireInv'
<1> SUFFICES ASSUME HeldTypeOK, WireInv, [Next]_vars
             PROVE  WireInv'
  OBVIOUS
<1>d. Devices = {Keyboard, Pointer} /\ Keyboard # Pointer
  BY ReportFacts DEF Devices
<1>k. \A r \in sending : r.dev \in Devices /\ (r.dev = Keyboard => reading)
  BY ReportFacts DEF HeldTypeOK, WireInv, SendingInv
<1> USE DEF Says, Has, desktop
<1>1. ASSUME NEW k \in Keys, KeyEvent(k)
      PROVE  WireInv'
  <2>1. CASE reading
    BY <1>1, <1>d, <2>1, ForwardInStep DEF KeyEvent, macVars, winVars
  <2>2. CASE ~reading
    <3>1. /\ UNCHANGED <<wire, winLinked, sending, mask, prevKeys, prevButtons, reading>>
          /\ behind' = behind \cup {Keyboard}
      BY <1>1, <2>2 DEF KeyEvent, macVars, winVars
    <3> QED BY <1>d, <1>k, <2>2, <3>1, QuietInStep
  <2> QED BY <2>1, <2>2
<1>2. ASSUME NEW b \in Buttons, ButtonEvent(b)
      PROVE  WireInv'
  BY <1>2, <1>d, ForwardInStep DEF ButtonEvent, winVars
<1>3. CASE Move
  BY <1>3, <1>d, ForwardInStep DEF Move, hands, macVars, winVars
<1>4. ASSUME NEW b \in Buttons, ButtonMissed(b)
      PROVE  WireInv'
  BY <1>4, <1>d, <1>k, QuietInStep DEF ButtonMissed, macVars, winVars
<1>5. CASE ReadError
  <2>1. \A r \in sending : r.dev # Keyboard
    BY <1>5 DEF ReadError, CanCapture
  <2> QED BY <1>5, <1>d, <2>1, QuietInStep DEF ReadError, hands, winVars
<1>6. CASE Hotkey \/ MenuToggle \/ LinkLost
  BY <1>6, <1>d, <1>k, QuietInStep DEF Hotkey, MenuToggle, Toggle, LinkLost, hands, winVars
<1>7. CASE MacRestarts
  BY <1>7, <1>d, <1>k, QuietInStep DEF MacRestarts, hands, winVars
<1>8. CASE WinStart \/ Time \/ UNCHANGED vars
  BY <1>8, <1>d, <1>k, QuietInStep DEF WinStart, Time, vars, hands, macVars, winVars
<1>9. ASSUME NEW r \in sending, Write(r) \/ Lose(r)
      PROVE  WireInv'
  <2>1. CASE Write(r)
    BY <2>1, WriteInStep
  <2>2. CASE Lose(r)
    <3>1. /\ UNCHANGED <<wire, winLinked, keys, mask, prevKeys, prevButtons, reading>>
          /\ sending' = sending \ {r} /\ behind' = behind \cup {r.dev}
      BY <2>2 DEF Lose, hands, macVars, winVars
    <3> QED BY <1>d, <1>k, <3>1, QuietInStep
  <2> QED BY <1>9, <2>1, <2>2
<1>10. CASE StopRelease
  BY <1>10, <1>d, <1>k, QuietInStep DEF StopRelease, hands, macVars
<1>11. CASE Connect \/ Disconnect \/ StopReleased \/ ReceiverGone
  <2>1. behind' = Devices /\ UNCHANGED <<sending, keys, mask, reading>>
    BY <1>11 DEF Connect, Disconnect, StopReleased, ReceiverGone, hands, macVars
  <2> QED BY <2>1 DEF WireInv, InStep, SendingInv
<1>12. CASE InjectKeyboard
  BY <1>12, <1>d, TakeInStep DEF InjectKeyboard, Take, hands, macVars
<1>13. CASE InjectPointer
  BY <1>13, <1>d, TakeInStep DEF InjectPointer, Take, hands, macVars
<1>14. CASE Refuse \/ RateLimited
  <2>1. PICK dev \in Devices : Drop(dev)
    BY <1>14, <1>d DEF Refuse, RateLimited
  <2>2. dev \in behind' \/ ~NoneAfter(dev, 1)
    BY <2>1 DEF Drop, NoneAfter
  <2>3. behind \subseteq behind' /\ Take(dev) /\ UNCHANGED desktop
    BY <2>1 DEF Drop
  <2> QED BY <2>2, <2>3, TakeInStep DEF Take, hands, macVars
<1> QED BY <1>1, <1>2, <1>3, <1>4, <1>5, <1>6, <1>7, <1>8, <1>9, <1>10, <1>11, <1>12, <1>13,
           <1>14 DEF Next

-----------------------------------------------------------------------------
(* What is in flight.                                                      *)

\* Few reports are between a capture and a write.
Counted == IsFiniteSet(sending)

LEMMA CountedStep == Counted /\ [Next]_vars => Counted'
<1> SUFFICES ASSUME Counted, [Next]_vars
             PROVE  Counted'
  OBVIOUS
<1>1. ASSUME NEW dev, NEW held, Forward(dev, held)
      PROVE  Counted'
  BY <1>1, FS_AddElement DEF Forward, Counted
<1>2. ASSUME NEW r \in sending, Write(r) \/ Lose(r)
      PROVE  Counted'
  BY <1>2, FS_RemoveElement DEF Write, Lose, Counted
<1>3. CASE sending' = sending \/ sending' = {}
  BY <1>3, FS_EmptySet DEF Counted
<1>4. \/ \E dev, held : Forward(dev, held)
      \/ \E r \in sending : Write(r) \/ Lose(r)
      \/ sending' = sending \/ sending' = {}
  BY DEF Next, vars, KeyEvent, ButtonEvent, ButtonMissed, ReadError, Move, Hotkey, MenuToggle,
         Toggle, MacRestarts, Connect, LinkLost, Disconnect, InjectKeyboard, InjectPointer,
         Refuse, RateLimited, Drop, Take, StopRelease, StopReleased, ReceiverGone, WinStart,
         Time
<1> QED BY <1>1, <1>2, <1>3, <1>4

LEMMA PauseStep ==
    ASSUME HeldTypeOK, Counted, [Next]_vars,
           ~forwarding, ~forwarding', winLinked', process' = "up"
    PROVE  InFlight' <= InFlight /\ (down' # down => InFlight' < InFlight)
<1>n. Len(wire) \in Nat /\ Cardinality(sending) \in Nat
  BY FS_CardinalityType DEF HeldTypeOK, Counted
<1>1. CASE UNCHANGED <<wire, sending, down>>
  BY <1>1, <1>n DEF InFlight
<1>2. ASSUME NEW r \in sending, Write(r) \/ Lose(r)
      PROVE  InFlight' <= InFlight /\ down' = down
  <2>1. Cardinality(sending') = Cardinality(sending) - 1
    BY <1>2, FS_RemoveElement DEF Write, Lose, Counted
  <2>2. Len(wire') \in {Len(wire), Len(wire) + 1}
    BY <1>2 DEF Write, Lose, HeldTypeOK
  <2>3. down' = down
    BY <1>2 DEF Write, Lose, winVars, desktop
  <2> QED BY <1>n, <2>1, <2>2, <2>3 DEF InFlight
<1>3. ASSUME NEW dev, Take(dev)
      PROVE  InFlight' < InFlight
  BY <1>3, <1>n, TakeType DEF InFlight, Take, HeldTypeOK
<1>4. CASE Connect
  BY <1>4, <1>n DEF Connect, InFlight, desktop
<1>5. \/ UNCHANGED <<wire, sending, down>>
      \/ \E r \in sending : Write(r) \/ Lose(r)
      \/ \E dev : Take(dev)
      \/ Connect
  BY DEF Next, vars, winVars, desktop, KeyEvent, ButtonEvent, ButtonMissed, ReadError, Move,
         Forward, Hotkey, MenuToggle, Toggle, MacRestarts, LinkLost, Disconnect, InjectKeyboard,
         InjectPointer, Refuse, RateLimited, Drop, StopRelease, StopReleased, ReceiverGone,
         WinStart, Time
<1>6. InFlight \in Int /\ InFlight' \in Int
  <2>1. Len(wire') \in Nat /\ Cardinality(sending') \in Nat
    <3>1. IsFiniteSet(sending')
      BY CountedStep DEF Counted
    <3>2. CASE UNCHANGED wire
      BY <1>n, <3>1, <3>2, FS_CardinalityType
    <3>3. ASSUME NEW r \in sending, Write(r)
          PROVE  Len(wire') \in Nat
      BY <3>3 DEF Write, HeldTypeOK
    <3>4. ASSUME NEW dev, Take(dev)
          PROVE  Len(wire') \in Nat
      BY <3>4, TakeType DEF HeldTypeOK
    <3>5. ASSUME Connect
          PROVE  Len(wire') \in Nat
      <4>1. Len(wire') = 0
        BY <3>5 DEF Connect
      <4> QED BY <4>1
    <3>6. ASSUME NEW r \in sending, Lose(r)
          PROVE  UNCHANGED wire
      BY <3>6 DEF Lose
    <3>7. Len(wire') \in Nat
      BY <1>5, <1>n, <3>2, <3>3, <3>4, <3>5, <3>6
    <3>8. Cardinality(sending') \in Nat
      BY <3>1, FS_CardinalityType
    <3> QED BY <3>7, <3>8
  <2> QED BY <1>n, <2>1 DEF InFlight
<1> QED BY <1>1, <1>2, <1>3, <1>4, <1>5, <1>6

-----------------------------------------------------------------------------
(* The theorems.                                                           *)

HeldInv == HeldTypeOK /\ LimiterInv /\ MaskFollowsButtons /\ Remembered /\ WireInv /\ Counted

LEMMA HeldInvHolds == Spec => []HeldInv
<1>1. Init => HeldInv
  <2> SUFFICES ASSUME Init
               PROVE  HeldInv
    OBVIOUS
  <2>1. HeldTypeOK /\ LimiterInv
    BY InitType, InitInv DEF Init
  <2>2. MaskFollowsButtons
    BY DEF Init, MaskFollowsButtons, Bits
  <2>3. Remembered /\ WireInv
    BY DEF Init, Remembered, Memory, Orphans, WireInv, SendingInv, InStep, Says, Has
  <2>4. Counted
    BY FS_EmptySet DEF Init, Counted
  <2> QED BY <2>1, <2>2, <2>3, <2>4 DEF HeldInv
<1>2. HeldInv /\ [Next]_vars => HeldInv'
  BY TypeStep, LimiterStep, MaskStep, RememberedStep, WireStep, CountedStep DEF HeldInv
<1> QED BY <1>1, <1>2, PTL DEF Spec

(***************************************************************************)
(* Every variable keeps its type: the mask holds bits only, the wire only  *)
(* reports of the two devices.                                             *)
(***************************************************************************)
THEOREM HeldTypeCorrect == Spec => []HeldTypeOK
<1>1. HeldInv => HeldTypeOK
  BY DEF HeldInv
<1> QED BY <1>1, HeldInvHolds, PTL

(***************************************************************************)
(* No burst gets past the rate limiter, for any limit and window.          *)
(***************************************************************************)
THEOREM WindowBoundCorrect == Spec => []WindowBound
<1>1. HeldInv => WindowBound
  BY DEF HeldInv, LimiterInv
<1> QED BY <1>1, HeldInvHolds, PTL

(***************************************************************************)
(* The limiter refuses a report only at the limit.                         *)
(***************************************************************************)
THEOREM RejectsCorrect == Spec => RejectsOnlyWhenFull
<1>1. HeldInv => [RateLimited => WindowFull]_vars
  BY RejectFull DEF HeldInv, RateLimited
<1> QED BY <1>1, HeldInvHolds, PTL DEF RejectsOnlyWhenFull

(***************************************************************************)
(* The trackpad's mask follows the buttons, however many share a bit.      *)
(***************************************************************************)
THEOREM MaskCorrect == Spec => []MaskFollowsButtons
<1>1. HeldInv => MaskFollowsButtons
  BY DEF HeldInv
<1> QED BY <1>1, HeldInvHolds, PTL

\* The wire invariant, when nothing of a device is on the wire.
LEMMA AgreesNow == HeldInv => DesktopAgrees
<1> SUFFICES ASSUME HeldInv
             PROVE  DesktopAgrees
  OBVIOUS
<1>1. ASSUME NEW dev \in Devices, UpToDate(dev)
      PROVE  Has(dev) = Says(dev)
  BY <1>1 DEF HeldInv, HeldTypeOK, WireInv, InStep, UpToDate, NoneAfter, Busy
<1>2. Keyboard \in Devices /\ Pointer \in Devices /\ Keyboard # Pointer
  BY ReportFacts DEF Devices
<1>3. prevKeys \subseteq down /\ prevButtons \subseteq down
  BY DEF HeldInv, Remembered, Memory
<1> QED BY <1>1, <1>2, <1>3 DEF DesktopAgrees, Has, Says

(***************************************************************************)
(* The desktop agrees with a device once its last event has arrived, after *)
(* any losses, refusals, pauses and restarts.                              *)
(***************************************************************************)
THEOREM DesktopCorrect == Spec => []DesktopAgrees
BY HeldInvHolds, AgreesNow, PTL

(***************************************************************************)
(* What a receiver that goes down in the middle of a connection, or a stop *)
(* that runs into an injection, leaves held on the desktop stays held over *)
(* every reconnection and restart until it is pressed again; nothing else  *)
(* leaves any.                                                             *)
(***************************************************************************)
THEOREM OrphansCorrect == Spec => OrphansStay
<1>1. HeldInv /\ [Next]_vars => /\ Orphans' \subseteq Orphans \/ LeavesOrphans
                               /\ Orphans \ Orphans' \subseteq Memory'
  BY OrphansStep DEF HeldInv
<1>2. HeldInv /\ [Next]_vars => [/\ Orphans' \subseteq Orphans \/ LeavesOrphans
                                /\ Orphans \ Orphans' \subseteq Memory']_vars
  BY <1>1
<1> QED BY <1>2, HeldInvHolds, PTL DEF Spec, OrphansStay

(***************************************************************************)
(* A pause freezes the desktop but for the reports that were captured      *)
(* before it, however many threads were past the check of _forwarding.     *)
(***************************************************************************)
THEOREM PauseCorrect == Spec => PauseFreezes
<1> DEFINE Freezes ==
      ~forwarding /\ ~forwarding' /\ winLinked' /\ process' = "up" =>
        /\ InFlight' <= InFlight
        /\ down' # down => InFlight' < InFlight
<1>1. HeldInv /\ [Next]_vars => [Freezes]_vars
  BY PauseStep DEF HeldInv
<1> QED BY <1>1, HeldInvHolds, PTL DEF Spec, PauseFreezes
=============================================================================
