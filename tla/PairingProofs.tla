--------------------------- MODULE PairingProofs ---------------------------
(***************************************************************************)
(* Theorems about Pairing, for any number of runs of the wizards.          *)
(***************************************************************************)
EXTENDS Pairing, TLAPS

USE MaxKeysAssumption

NewKey(s) == derive_shared_key(own[s], peer[s])

InWizard(s) == pc[s] \in {"wizard", "paste", "confirm", "store"}

\* A run of the wizard shows the key of its two halves before it asks, and
\* stores what was confirmed, entry by entry.
RunInv(s) ==
    /\ pc[s] \in {"paste", "confirm", "store"} => own[s] \in KeyPairs
    /\ pc[s] \in {"confirm", "store"} =>
           peer[s] \in KeyPairs /\ screen[s] = NewKey(s)
    /\ pc[s] # "store" => storing[s] = 0
    /\ pc[s] = "store" =>
           /\ screen[s] \in confirmed[s]
           /\ storing[s] >= 1 => store[s].private_key = own[s]
           /\ storing[s] >= 2 => store[s].public_key = own[s]
           /\ storing[s] >= 3 => store[s].peer_public_key = peer[s]

\* A stored shared key was confirmed, and so is one in use.
ConfirmedInv(s) ==
    /\ pc[s] = "load" => store[s].shared_key # NoSharedKey
    /\ store[s].shared_key # NoSharedKey => store[s].shared_key \in confirmed[s]
    /\ pc[s] = "running" => using[s] \in confirmed[s]

\* The shared key is stored last: where it is, a whole run is, and the wizard
\* is over.  It is the key still on the screen, and the key in use.
LastInv(s) ==
    ~cut[s] =>
        /\ store[s].shared_key # NoSharedKey =>
               /\ store[s].private_key # None
               /\ store[s].peer_public_key # None
               /\ store[s].public_key = store[s].private_key
               /\ store[s].shared_key =
                      derive_shared_key(store[s].private_key, store[s].peer_public_key)
               /\ ~InWizard(s)
               /\ screen[s] = store[s].shared_key
        /\ pc[s] = "running" => using[s] = screen[s]

\* A side whose user has confirmed, and which may come to run.
Committed(s) ==
    \/ pc[s] \in {"store", "load", "running"}
    \/ store[s].shared_key # NoSharedKey

\* Two sides that have confirmed have confirmed the same number.
AgreeInv ==
    (\A s \in Sides : Committed(s) /\ ~cut[s]) => screen[Mac] = screen[Win]

PairInv ==
    /\ PairTypeOK
    /\ \A s \in Sides : RunInv(s) /\ ConfirmedInv(s) /\ LastInv(s)
    /\ AgreeInv

\* What a step of the other side leaves alone.
Local(t) == <<pc[t], own[t], peer[t], storing[t], store[t], using[t], screen[t],
              confirmed[t], cut[t]>>

LEMMA SidesFacts ==
    /\ Mac \in Sides /\ Win \in Sides /\ Mac # Win
    /\ \A s \in Sides : Other(s) \in Sides /\ Other(s) # s
    /\ \A s, t \in Sides : t # s => t = Other(s)
BY DEF Sides, Mac, Win, Other

LEMMA Shared ==
    ASSUME NEW a \in KeyPairs, NEW b \in KeyPairs
    PROVE  /\ derive_shared_key(a, b) \in SUBSET KeyPairs
           /\ derive_shared_key(a, b) # NoSharedKey
           /\ a # None
BY DEF derive_shared_key, NoSharedKey, KeyPairs, None

\* The store's names, one by one.
LEMMA Complete ==
    ASSUME NEW s \in Sides
    PROVE  has_completed_setup(s) <=>
               /\ store[s].private_key # None
               /\ store[s].public_key # None
               /\ store[s].peer_public_key # None
               /\ store[s].shared_key # NoSharedKey
<1>1. DOMAIN StoreOrder = {1, 2, 3, 4}
  BY DEF StoreOrder
<1>2. /\ StoreOrder[1] = "private_key" /\ StoreOrder[2] = "public_key"
      /\ StoreOrder[3] = "peer_public_key" /\ StoreOrder[4] = "shared_key"
  BY DEF StoreOrder
<1> QED
  BY <1>1, <1>2 DEF has_completed_setup, Present, EmptyStore

-----------------------------------------------------------------------------

\* A side the step does not touch keeps its part of the invariant.
LEMMA Frame ==
    ASSUME NEW t \in Sides, RunInv(t), ConfirmedInv(t), LastInv(t),
           Local(t)' = Local(t)
    PROVE  RunInv(t)' /\ ConfirmedInv(t)' /\ LastInv(t)'
BY DEF Local, RunInv, ConfirmedInv, LastInv, NewKey, InWizard

\* Nobody new has confirmed, and no screen has changed.
LEMMA AgreeFrame ==
    ASSUME AgreeInv, UNCHANGED screen,
           \A s \in Sides : Committed(s)' /\ ~cut'[s] => Committed(s) /\ ~cut[s]
    PROVE  AgreeInv'
BY DEF AgreeInv

\* So a step of one side has to be looked at on that side only.
LEMMA OneSide ==
    ASSUME PairInv, NEW s \in Sides, PairTypeOK',
           Local(Other(s))' = Local(Other(s)),
           RunInv(s)', ConfirmedInv(s)', LastInv(s)', AgreeInv'
    PROVE  PairInv'
<1> SUFFICES ASSUME NEW t \in Sides
             PROVE  RunInv(t)' /\ ConfirmedInv(t)' /\ LastInv(t)'
  BY DEF PairInv
<1> QED
  BY Frame, SidesFacts DEF PairInv

LEMMA PairInitInv == Init => PairInv
<1> SUFFICES ASSUME Init PROVE PairInv
  OBVIOUS
<1>1. EmptyStore \in Entries
  BY DEF EmptyStore, Entries, NoSharedKey
<1>2. cut \in [Sides -> BOOLEAN]
  BY DEF Init
<1>3. PairTypeOK
  BY <1>1, <1>2 DEF Init, PairTypeOK, NoSharedKey, None
<1>4. /\ \A s \in Sides : RunInv(s) /\ ConfirmedInv(s) /\ LastInv(s)
      /\ screen[Mac] = screen[Win]
  BY SidesFacts
     DEF Init, RunInv, ConfirmedInv, LastInv, EmptyStore, InWizard
<1> QED
  BY <1>3, <1>4 DEF PairInv, AgreeInv

\* A process that ends, at any point of its run.
LEMMA ForgetInv ==
    ASSUME PairInv, NEW s \in Sides, pc' = [pc EXCEPT ![s] = "off"], Forget(s)
    PROVE  PairInv'
<1> USE SidesFacts
<1>1. PairTypeOK'
  BY DEF Forget, PairInv, PairTypeOK, NoSharedKey
<1>2. /\ Local(Other(s))' = Local(Other(s))
      /\ pc'[s] = "off" /\ storing'[s] = 0 /\ UNCHANGED <<store, screen, confirmed, cut>>
      /\ \A t \in Sides : t # s => pc'[t] = pc[t]
  BY DEF Forget, PairInv, PairTypeOK, Local
<1>3. RunInv(s)' /\ ConfirmedInv(s)' /\ LastInv(s)'
  BY <1>2 DEF PairInv, RunInv, ConfirmedInv, LastInv, InWizard
<1>4. AgreeInv'
  BY <1>2, AgreeFrame DEF PairInv, Committed
<1> QED
  BY <1>1, <1>2, <1>3, <1>4, OneSide

LEMMA StartInv == ASSUME PairInv, NEW s \in Sides, Start(s) PROVE PairInv'
<1> USE SidesFacts
<1>1. PairTypeOK'
  BY DEF Start, Goto, wizard, PairInv, PairTypeOK
<1>2. /\ Local(Other(s))' = Local(Other(s))
      /\ pc[s] = "off"
      /\ UNCHANGED <<own, peer, storing, store, using, screen, confirmed, cut>>
      /\ \A t \in Sides : t # s => pc'[t] = pc[t]
      /\ \/ pc'[s] = "load" /\ has_completed_setup(s)
         \/ pc'[s] = "wizard" /\ ~has_completed_setup(s)
  BY DEF Start, Goto, wizard, PairInv, PairTypeOK, Local
<1>3. pc'[s] = "load" => store[s].shared_key # NoSharedKey
  BY <1>2, Complete
<1>4. pc'[s] = "wizard" /\ ~cut[s] => store[s].shared_key = NoSharedKey
  BY <1>2, Complete DEF PairInv, LastInv
<1>5. RunInv(s)' /\ ConfirmedInv(s)' /\ LastInv(s)'
  BY <1>2, <1>3, <1>4 DEF PairInv, RunInv, ConfirmedInv, LastInv, InWizard
<1>6. AgreeInv'
  BY <1>2, <1>3, AgreeFrame DEF PairInv, Committed
<1> QED
  BY <1>1, <1>2, <1>5, <1>6, OneSide

LEMMA GenerateInv == ASSUME PairInv, NEW s \in Sides, GenerateKeypair(s) PROVE PairInv'
<1> USE SidesFacts
<1>1. made' \in KeyPairs
  BY DEF GenerateKeypair, KeyPairs, PairInv, PairTypeOK
<1>2. PairTypeOK'
  BY <1>1 DEF GenerateKeypair, Goto, PairInv, PairTypeOK, KeyPairs
<1>3. /\ Local(Other(s))' = Local(Other(s))
      /\ pc[s] = "wizard" /\ pc'[s] = "paste" /\ own'[s] \in KeyPairs
      /\ UNCHANGED <<storing, store, using, screen, confirmed, cut>>
      /\ \A t \in Sides : t # s => pc'[t] = pc[t]
  BY <1>1 DEF GenerateKeypair, Goto, PairInv, PairTypeOK, Local
<1>4. RunInv(s)' /\ ConfirmedInv(s)' /\ LastInv(s)'
  BY <1>3 DEF PairInv, RunInv, ConfirmedInv, LastInv, InWizard
<1>5. AgreeInv'
  BY <1>3, AgreeFrame DEF PairInv, Committed
<1> QED
  BY <1>2, <1>3, <1>4, <1>5, OneSide

LEMMA PasteInv == ASSUME PairInv, NEW s \in Sides, PasteKey(s) PROVE PairInv'
<1> USE SidesFacts
<1> PICK p \in shown : /\ Goto(s, "paste", "confirm")
                       /\ peer' = [peer EXCEPT ![s] = p]
                       /\ screen' = [screen EXCEPT ![s] = derive_shared_key(own[s], p)]
                       /\ shown' = shown \cup {own[s]}
                       /\ UNCHANGED <<made, own, storing, store, using, confirmed, cut>>
  BY DEF PasteKey
<1>1. p \in KeyPairs /\ own[s] \in KeyPairs
  BY DEF Goto, PairInv, PairTypeOK, RunInv
<1>2. PairTypeOK'
  BY <1>1, Shared DEF Goto, PairInv, PairTypeOK
<1>3. /\ Local(Other(s))' = Local(Other(s))
      /\ pc[s] = "paste" /\ pc'[s] = "confirm"
      /\ peer'[s] \in KeyPairs /\ screen'[s] = NewKey(s)'
  BY <1>1 DEF Goto, PairInv, PairTypeOK, Local, NewKey
<1>4. RunInv(s)' /\ ConfirmedInv(s)' /\ LastInv(s)'
  BY <1>3 DEF PairInv, RunInv, ConfirmedInv, LastInv, InWizard
<1>5. AgreeInv'
  BY <1>3 DEF PairInv, AgreeInv, Committed, LastInv, InWizard
<1> QED
  BY <1>2, <1>3, <1>4, <1>5, OneSide

\* The one step that commits a side: the screens agree when it is taken.
LEMMA ConfirmInv == ASSUME PairInv, NEW s \in Sides, Confirm(s) PROVE PairInv'
<1> USE SidesFacts
<1>1. PairTypeOK'
  BY DEF Confirm, Goto, wizard, PairInv, PairTypeOK
<1>2. /\ Local(Other(s))' = Local(Other(s))
      /\ pc[s] = "confirm" /\ pc'[s] = "store"
      /\ UNCHANGED <<own, peer, storing, store, using, screen, cut>>
      /\ screen[s] \in confirmed'[s] /\ confirmed[s] \subseteq confirmed'[s]
      /\ screen[Mac] = screen[Win]
  BY DEF Confirm, Goto, wizard, PairInv, PairTypeOK, Local, Other
<1>3. storing[s] = 0 /\ storing'[s] = 0
  BY <1>2 DEF PairInv, RunInv
<1>4. RunInv(s)' /\ ConfirmedInv(s)' /\ LastInv(s)'
  BY <1>2, <1>3 DEF PairInv, RunInv, ConfirmedInv, LastInv, InWizard, NewKey
<1>5. AgreeInv'
  BY <1>2 DEF AgreeInv
<1> QED
  BY <1>1, <1>2, <1>4, <1>5, OneSide

LEMMA LoadInv == ASSUME PairInv, NEW s \in Sides, LoadSharedKey(s) PROVE PairInv'
<1> USE SidesFacts
<1>1. PairTypeOK'
  BY DEF LoadSharedKey, Goto, wizard, PairInv, PairTypeOK, Entries
<1>2. /\ Local(Other(s))' = Local(Other(s))
      /\ pc[s] = "load" /\ pc'[s] = "running" /\ using'[s] = store[s].shared_key
      /\ UNCHANGED <<own, peer, storing, store, screen, confirmed, cut>>
      /\ \A t \in Sides : t # s => pc'[t] = pc[t]
  BY DEF LoadSharedKey, Goto, wizard, PairInv, PairTypeOK, Local
<1>3. RunInv(s)' /\ ConfirmedInv(s)' /\ LastInv(s)'
  BY <1>2 DEF PairInv, RunInv, ConfirmedInv, LastInv, InWizard
<1>4. AgreeInv'
  BY <1>2, AgreeFrame DEF PairInv, Committed
<1> QED
  BY <1>1, <1>2, <1>3, <1>4, OneSide

-----------------------------------------------------------------------------
(* The store itself: what a store call and a deletion leave.               *)

LEMMA ToStoreType ==
    ASSUME PairInv, NEW s \in Sides, pc[s] = "store"
    PROVE  /\ own[s] \in KeyPairs /\ peer[s] \in KeyPairs
           /\ ToStore(s).private_key = own[s] /\ ToStore(s).public_key = own[s]
           /\ ToStore(s).peer_public_key = peer[s]
           /\ ToStore(s).shared_key = NewKey(s)
           /\ NewKey(s) \in SUBSET KeyPairs /\ NewKey(s) # NoSharedKey
           /\ screen[s] = NewKey(s) /\ screen[s] \in confirmed[s]
<1>1. own[s] \in KeyPairs /\ peer[s] \in KeyPairs
  BY DEF PairInv, RunInv
<1> QED
  BY <1>1, Shared DEF PairInv, RunInv, NewKey, ToStore

\* One store call writes one entry: the first three leave the shared key.
LEMMA StoreKeyStep ==
    ASSUME PairInv, NEW s \in Sides, StoreKey(s)
    PROVE  /\ store' \in [Sides -> Entries]
           /\ \A t \in Sides : t # s => store'[t] = store[t]
           /\ store'[s].private_key =
                  IF storing[s] = 0 THEN own[s] ELSE store[s].private_key
           /\ store'[s].public_key =
                  IF storing[s] = 1 THEN own[s] ELSE store[s].public_key
           /\ store'[s].peer_public_key =
                  IF storing[s] = 2 THEN peer[s] ELSE store[s].peer_public_key
           /\ store'[s].shared_key =
                  IF storing[s] = 3 THEN NewKey(s) ELSE store[s].shared_key
<1> DEFINE name == StoreOrder[storing[s] + 1]
           value == ToStore(s)[name]
           after == [store[s] EXCEPT ![name] = value]
<1>1. /\ StoreOrder[1] = "private_key" /\ StoreOrder[2] = "public_key"
      /\ StoreOrder[3] = "peer_public_key" /\ StoreOrder[4] = "shared_key"
  BY DEF StoreOrder
<1>2. /\ pc[s] = "store" /\ storing[s] \in {0, 1, 2, 3} /\ store[s] \in Entries
      /\ store \in [Sides -> Entries]
  BY DEF StoreKey, Goto, PairInv, PairTypeOK
<1>3. /\ name = IF storing[s] = 0 THEN "private_key"
                ELSE IF storing[s] = 1 THEN "public_key"
                ELSE IF storing[s] = 2 THEN "peer_public_key" ELSE "shared_key"
  BY <1>1, <1>2
<1>4. /\ value = IF storing[s] < 2 THEN own[s]
                 ELSE IF storing[s] = 2 THEN peer[s] ELSE NewKey(s)
      /\ own[s] \in KeyPairs /\ peer[s] \in KeyPairs /\ NewKey(s) \in SUBSET KeyPairs
  BY <1>2, <1>3, ToStoreType
<1>5. store' = [store EXCEPT ![s] = after]
  BY DEF StoreKey
<1>6. store'[s] = after /\ \A t \in Sides : t # s => store'[t] = store[t]
  BY <1>2, <1>5
<1>7. /\ after.private_key = IF storing[s] = 0 THEN own[s] ELSE store[s].private_key
      /\ after.public_key = IF storing[s] = 1 THEN own[s] ELSE store[s].public_key
      /\ after.peer_public_key =
             IF storing[s] = 2 THEN peer[s] ELSE store[s].peer_public_key
      /\ after.shared_key = IF storing[s] = 3 THEN NewKey(s) ELSE store[s].shared_key
  <2> HIDE DEF name, value
  <2> QED
    BY <1>2, <1>3, <1>4 DEF Entries
<1>8. after \in Entries
  <2> HIDE DEF name, value
  <2> QED
    BY <1>2, <1>3, <1>4 DEF Entries
<1>9. store' \in [Sides -> Entries]
  <2> HIDE DEF after
  <2> QED
    BY <1>2, <1>5, <1>8
<1> HIDE DEF after
<1> QED
  BY <1>6, <1>7, <1>9

LEMMA StoreInv == ASSUME PairInv, NEW s \in Sides, StoreKey(s) PROVE PairInv'
<1> USE SidesFacts
<1>1. /\ pc[s] = "store" /\ storing[s] \in 0 .. 3
      /\ pc'[s] = IF storing[s] = 3 THEN "load" ELSE "store"
      /\ storing'[s] = (storing[s] + 1) % 4
      /\ UNCHANGED <<own, peer, using, screen, confirmed, cut>>
      /\ \A t \in Sides : t # s => pc'[t] = pc[t] /\ storing'[t] = storing[t]
  BY DEF StoreKey, Goto, PairInv, PairTypeOK
<1>2. storing'[s] = IF storing[s] = 3 THEN 0 ELSE storing[s] + 1
  BY <1>1
<1>3. PairTypeOK'
  <2>1. storing' \in [Sides -> 0 .. 3]
    <3>1. storing \in [Sides -> 0 .. 3] /\ storing'[s] \in 0 .. 3
      BY <1>1, <1>2 DEF PairInv, PairTypeOK
    <3>2. storing' = [storing EXCEPT ![s] = storing'[s]]
      BY <3>1 DEF StoreKey
    <3> QED
      BY <3>1, <3>2
  <2> QED
    BY <2>1, StoreKeyStep DEF StoreKey, Goto, PairInv, PairTypeOK
<1>4. Local(Other(s))' = Local(Other(s))
  BY <1>1, StoreKeyStep DEF Local
<1>5. RunInv(s) /\ ConfirmedInv(s) /\ LastInv(s)
  BY DEF PairInv
<1>6. CASE storing[s] < 3
  <2>1. store'[s].shared_key = store[s].shared_key
    BY <1>6, StoreKeyStep
  <2>2. pc'[s] = "store" /\ storing'[s] = storing[s] + 1
    BY <1>1, <1>2, <1>6
  <2>3. RunInv(s)'
    BY <1>1, <1>5, <1>6, <2>2, StoreKeyStep DEF RunInv, NewKey
  <2>4. ConfirmedInv(s)' /\ LastInv(s)'
    BY <1>1, <1>5, <2>1, <2>2 DEF ConfirmedInv, LastInv, InWizard
  <2>5. AgreeInv'
    BY <1>1, <1>4, <2>2, AgreeFrame DEF PairInv, Committed, Local
  <2> QED
    BY <1>3, <1>4, <2>3, <2>4, <2>5, OneSide
<1>7. CASE storing[s] = 3
  <2>2. /\ store'[s].private_key = own[s] /\ store'[s].public_key = own[s]
        /\ store'[s].peer_public_key = peer[s] /\ store'[s].shared_key = NewKey(s)
    BY <1>1, <1>5, <1>7, StoreKeyStep DEF RunInv
  <2>3. pc'[s] = "load" /\ storing'[s] = 0
    BY <1>1, <1>2, <1>7
  <2>4. RunInv(s)'
    BY <2>3 DEF RunInv
  <2>5. /\ own[s] # None /\ peer[s] # None /\ NewKey(s) # NoSharedKey
        /\ screen[s] = NewKey(s) /\ screen[s] \in confirmed[s]
    BY <1>1, ToStoreType, Shared
  <2>6. ConfirmedInv(s)' /\ LastInv(s)'
    BY <1>1, <2>2, <2>3, <2>5 DEF ConfirmedInv, LastInv, InWizard, NewKey
  <2>7. AgreeInv'
    BY <1>1, <1>4, <2>3, AgreeFrame DEF PairInv, Committed, Local
  <2> QED
    BY <1>3, <1>4, <2>4, <2>6, <2>7, OneSide
<1> QED
  BY <1>1, <1>6, <1>7

\* A deletion takes the shared key, or cuts the store, or never found it.
LEMMA DeleteStep ==
    ASSUME PairInv, NEW s \in Sides, DeleteKeys(s)
    PROVE  /\ store' \in [Sides -> Entries]
           /\ cut' \in [Sides -> BOOLEAN]
           /\ \A t \in Sides : t # s => store'[t] = store[t] /\ cut'[t] = cut[t]
           /\ cut[s] => cut'[s]
           /\ store'[s].shared_key \in {store[s].shared_key, NoSharedKey}
           /\ ~cut'[s] => store'[s].shared_key = NoSharedKey
<1> PICK n \in 1 .. 4 :
        LET gone == {StoreOrder[i] : i \in 1 .. n} IN
        /\ \A name \in gone : Present(store[s], name)
        /\ store' = [store EXCEPT ![s] =
               [name \in DOMAIN EmptyStore |->
                   IF name \in gone THEN EmptyStore[name] ELSE @[name]]]
        /\ cut' = [cut EXCEPT ![s] = @ \/ (n < 4 /\ Present(store[s], StoreOrder[n + 1]))]
  BY DEF DeleteKeys
<1> DEFINE gone == {StoreOrder[i] : i \in 1 .. n}
           left == [name \in DOMAIN EmptyStore |->
                       IF name \in gone THEN EmptyStore[name] ELSE store[s][name]]
<1>1. /\ StoreOrder[1] = "private_key" /\ StoreOrder[2] = "public_key"
      /\ StoreOrder[3] = "peer_public_key" /\ StoreOrder[4] = "shared_key"
  BY DEF StoreOrder
<1>2. DOMAIN EmptyStore = {"private_key", "public_key", "peer_public_key", "shared_key"}
  BY DEF EmptyStore
<1>3. store[s] \in Entries /\ store \in [Sides -> Entries] /\ cut \in [Sides -> BOOLEAN]
  BY DEF PairInv, PairTypeOK
<1>4. /\ store'[s] = left
      /\ store' = [store EXCEPT ![s] = left]
  BY <1>3
<1>5. left \in Entries
  BY <1>2, <1>3 DEF Entries, EmptyStore, NoSharedKey
<1>6. store'[s].shared_key = IF "shared_key" \in gone THEN NoSharedKey ELSE store[s].shared_key
  BY <1>2, <1>4 DEF EmptyStore
<1>7. cut'[s] = (cut[s] \/ (n < 4 /\ Present(store[s], StoreOrder[n + 1])))
  BY <1>3
<1>8. ASSUME ~cut'[s] PROVE store'[s].shared_key = NoSharedKey
  <2>1. ~cut[s] /\ ~(n < 4 /\ Present(store[s], StoreOrder[n + 1]))
    BY <1>7, <1>8
  <2>2. CASE n = 4
    BY <1>1, <1>6, <2>2
  <2>3. CASE n < 4
    <3>1. ~Present(store[s], StoreOrder[n + 1])
      BY <2>1, <2>3
    <3>2. \/ store[s].public_key = None
          \/ store[s].peer_public_key = None
          \/ store[s].shared_key = NoSharedKey
      BY <1>1, <2>3, <3>1 DEF Present, EmptyStore
    <3>3. store[s].shared_key = NoSharedKey
      BY <2>1, <3>2 DEF PairInv, LastInv
    <3> QED
      BY <1>6, <3>3
  <2> QED
    BY <2>2, <2>3
<1>9. /\ store' \in [Sides -> Entries] /\ cut' \in [Sides -> BOOLEAN]
      /\ \A t \in Sides : t # s => store'[t] = store[t] /\ cut'[t] = cut[t]
  BY <1>3, <1>4, <1>5
<1> QED
  BY <1>6, <1>7, <1>8, <1>9

LEMMA DeleteInv == ASSUME PairInv, NEW s \in Sides, DeleteKeys(s) PROVE PairInv'
<1> USE SidesFacts
<1>1. /\ pc[s] \in {"off", "running"}
      /\ UNCHANGED <<made, pc, own, peer, storing, using, shown, screen, confirmed>>
  BY DEF DeleteKeys, wizard
<1>2. PairTypeOK'
  BY <1>1, DeleteStep DEF PairInv, PairTypeOK
<1>3. Local(Other(s))' = Local(Other(s))
  BY <1>1, DeleteStep DEF Local
<1>4. RunInv(s)' /\ ConfirmedInv(s)' /\ LastInv(s)'
  BY <1>1, DeleteStep DEF PairInv, RunInv, ConfirmedInv, LastInv, InWizard
<1>5. \A t \in Sides : Committed(t)' /\ ~cut'[t] => Committed(t) /\ ~cut[t]
  BY <1>1, DeleteStep DEF Committed
<1>6. AgreeInv'
  BY <1>1, <1>5, AgreeFrame DEF PairInv
<1> QED
  BY <1>2, <1>3, <1>4, <1>6, OneSide

LEMMA PairStepInv == PairInv /\ [Next]_vars => PairInv'
<1> SUFFICES ASSUME PairInv, [Next]_vars PROVE PairInv'
  OBVIOUS
<1>1. ASSUME NEW s \in Sides, Step(s) PROVE PairInv'
  <2>1. CASE InvalidKey(s) \/ Decline(s) \/ End(s)
    BY <2>1, ForgetInv DEF InvalidKey, Decline, End, Goto
  <2> QED
    BY <1>1, <2>1, StartInv, GenerateInv, PasteInv, ConfirmInv, StoreInv, LoadInv,
       DeleteInv DEF Step
<1>2. CASE UNCHANGED vars
  <2>1. \A s \in Sides : Local(s)' = Local(s)
    BY <1>2 DEF vars, wizard, Local
  <2>2. PairTypeOK'
    BY <1>2 DEF vars, wizard, PairInv, PairTypeOK
  <2>3. AgreeInv'
    BY <1>2 DEF vars, PairInv, AgreeInv, Committed
  <2> QED
    BY <2>1, <2>2, <2>3, Frame DEF PairInv
<1> QED
  BY <1>1, <1>2 DEF Next

THEOREM PairInvariant == Spec => []PairInv
  BY PairInitInv, PairStepInv, PTL DEF Spec

-----------------------------------------------------------------------------
(* What follows from it.                                                   *)

(***************************************************************************)
(* The state of the wizards and of the stores keeps its types:             *)
(* setup_wizard.py, keychain.py, credential_store.py.                      *)
(***************************************************************************)
THEOREM PairTypeCorrect == Spec => []PairTypeOK
<1>1. PairInv => PairTypeOK
  BY DEF PairInv
<1> QED
  BY <1>1, PairInvariant, PTL

(***************************************************************************)
(* A complete store holds the keys of one run: run_setup stores the shared *)
(* key last, and has_completed_setup looks at all four.                    *)
(***************************************************************************)
THEOREM StoredTogetherCorrect == Spec => []StoredTogether
<1>1. PairInv => StoredTogether
  BY Complete DEF PairInv, LastInv, StoredTogether
<1> QED
  BY <1>1, PairInvariant, PTL

(***************************************************************************)
(* No daemon runs with a key nobody confirmed: main.py loads what a        *)
(* wizard stored, and run_setup stores after the question only.            *)
(***************************************************************************)
THEOREM ConfirmedCorrect == Spec => []RunsWithConfirmedKey
<1>1. PairInv => RunsWithConfirmedKey
  BY DEF PairInv, ConfirmedInv, RunsWithConfirmedKey
<1> QED
  BY <1>1, PairInvariant, PTL

(***************************************************************************)
(* Two daemons that run use the same key, however many runs of the wizards *)
(* came before: the fingerprints that run_setup shows are compared.        *)
(***************************************************************************)
THEOREM AgreementCorrect == Spec => []KeysAgree
<1>1. PairInv => KeysAgree
  BY SidesFacts DEF PairInv, LastInv, AgreeInv, Committed, KeysAgree
<1> QED
  BY <1>1, PairInvariant, PTL
=============================================================================
