------------------------------ MODULE Pairing ------------------------------
(***************************************************************************)
(* First-run setup: the wizard of each side (setup_wizard.py), its key     *)
(* store (keychain.py, credential_store.py), and the start of each program *)
(* (main.py), which runs the wizard unless four keys are stored.           *)
(*                                                                         *)
(* Two people, or one, sit in front of the machines.  They paste any key   *)
(* that was ever displayed, of an earlier run too, and confirm only a      *)
(* fingerprint that is on both screens.  Either program may end at any     *)
(* point, between two stores too, and is started again.                    *)
(*                                                                         *)
(* Key pairs are numbered as they are generated; a number stands for both  *)
(* halves.  A fingerprint stands for its shared key: different keys are    *)
(* taken to have different fingerprints.                                   *)
(***************************************************************************)
EXTENDS Integers, Sequences

CONSTANT MaxKeys    \* bound: key pairs ever generated

ASSUME MaxKeysAssumption == MaxKeys \in Nat

Mac == "mac"
Win == "win"
Sides == {Mac, Win}
Other(s) == IF s = Mac THEN Win ELSE Mac

KeyPairs == 1 .. MaxKeys
None == 0
NoSharedKey == {}

\* The four entries, in the order the wizard stores them.
StoreOrder == <<"private_key", "public_key", "peer_public_key", "shared_key">>

VARIABLES
    made,       \* key pairs generated so far
    pc,         \* where each program is
    own,        \* the key pair of the wizard run in progress
    peer,       \* the public key pasted into it
    storing,    \* how many of its entries are stored
    store,      \* keychain and credential store
    using,      \* Daemon._shared_key
    shown,      \* public keys ever displayed, by either side
    screen,     \* the last fingerprint each side displayed
    confirmed,  \* history: shared keys confirmed on each side
    cut         \* history: a deletion of the store was interrupted

wizard == <<own, peer, storing>>
vars == <<made, pc, wizard, store, using, shown, screen, confirmed, cut>>

Entries == [private_key : KeyPairs \cup {None}, public_key : KeyPairs \cup {None},
            peer_public_key : KeyPairs \cup {None}, shared_key : SUBSET KeyPairs]

EmptyStore == [private_key |-> None, public_key |-> None,
               peer_public_key |-> None, shared_key |-> NoSharedKey]

PairTypeOK ==
    /\ made \in 0 .. MaxKeys
    /\ pc \in [Sides -> {"off", "wizard", "paste", "confirm", "store", "load", "running"}]
    /\ own \in [Sides -> KeyPairs \cup {None}]
    /\ peer \in [Sides -> KeyPairs \cup {None}]
    /\ storing \in [Sides -> 0 .. 3]
    /\ store \in [Sides -> Entries]
    /\ using \in [Sides -> SUBSET KeyPairs]
    /\ shown \subseteq KeyPairs
    /\ screen \in [Sides -> SUBSET KeyPairs]
    /\ confirmed \in [Sides -> SUBSET SUBSET KeyPairs]
    /\ cut \in [Sides -> BOOLEAN]

Init ==
    /\ made = 0
    /\ pc = [s \in Sides |-> "off"]
    /\ own = [s \in Sides |-> None]
    /\ peer = [s \in Sides |-> None]
    /\ storing = [s \in Sides |-> 0]
    /\ store = [s \in Sides |-> EmptyStore]
    /\ using = [s \in Sides |-> NoSharedKey]
    /\ shown = {}
    /\ screen = [s \in Sides |-> NoSharedKey]
    /\ confirmed = [s \in Sides |-> {}]
    /\ cut = [s \in Sides |-> FALSE]

Goto(s, from, to) == pc[s] = from /\ pc' = [pc EXCEPT ![s] = to]

-----------------------------------------------------------------------------
(* crypto.py and the stores.                                               *)

\* Diffie-Hellman: the same key from either end.
derive_shared_key(private, public) == {private, public}

Present(entries, name) == entries[name] # EmptyStore[name]

\* Mutant: setup counts as done once there is a key pair.
Mut_has_completed_setup(s) ==
    Present(store[s], "private_key") /\ Present(store[s], "public_key")

has_completed_setup(s) ==
    \A i \in DOMAIN StoreOrder : Present(store[s], StoreOrder[i])

-----------------------------------------------------------------------------
(* main() and run_setup()                                                  *)

Start(s) ==
    /\ Goto(s, "off", IF has_completed_setup(s) THEN "load" ELSE "wizard")
    /\ UNCHANGED <<made, wizard, store, using, shown, screen, confirmed, cut>>

\* A new key pair on every run; the Mac displays its public key at once.
GenerateKeypair(s) ==
    /\ Goto(s, "wizard", "paste")
    /\ made < MaxKeys
    /\ made' = made + 1
    /\ own' = [own EXCEPT ![s] = made']
    /\ shown' = shown \cup IF s = Mac THEN {made'} ELSE {}
    /\ UNCHANGED <<peer, storing, store, using, screen, confirmed, cut>>

\* Mutant: the keys are stored without the question.
MutPasteKey(s) ==
    \E p \in shown :
        /\ Goto(s, "paste", "store")
        /\ peer' = [peer EXCEPT ![s] = p]
        /\ screen' = [screen EXCEPT ![s] = derive_shared_key(own[s], p)]
        /\ shown' = shown \cup {own[s]}
        /\ UNCHANGED <<made, own, storing, store, using, confirmed, cut>>

\* A valid key is pasted.  Windows displays its own key only now.
PasteKey(s) ==
    \E p \in shown :
        /\ Goto(s, "paste", "confirm")
        /\ peer' = [peer EXCEPT ![s] = p]
        /\ screen' = [screen EXCEPT ![s] = derive_shared_key(own[s], p)]
        /\ shown' = shown \cup {own[s]}
        /\ UNCHANGED <<made, own, storing, store, using, confirmed, cut>>

\* What a process that ends takes with it; its screen stays readable.
Forget(s) ==
    /\ own' = [own EXCEPT ![s] = None]
    /\ peer' = [peer EXCEPT ![s] = None]
    /\ storing' = [storing EXCEPT ![s] = 0]
    /\ using' = [using EXCEPT ![s] = NoSharedKey]
    /\ UNCHANGED <<made, store, shown, screen, confirmed, cut>>

\* Not base64, or not 32 bytes: run_setup returns False and main exits.
InvalidKey(s) ==
    /\ Goto(s, "paste", "off")
    /\ Forget(s)

\* "Match? (y/n)": y, since the number is the one on the other screen.
Confirm(s) ==
    /\ screen[Other(s)] = screen[s]
    /\ Goto(s, "confirm", "store")
    /\ confirmed' = [confirmed EXCEPT ![s] = @ \cup {screen[s]}]
    /\ UNCHANGED <<made, wizard, store, using, shown, screen, cut>>

\* Mutant: the answer is not looked at.
MutDecline(s) ==
    /\ Goto(s, "confirm", "store")
    /\ UNCHANGED <<made, wizard, store, using, shown, screen, confirmed, cut>>

\* Anything but y.
Decline(s) ==
    /\ Goto(s, "confirm", "off")
    /\ Forget(s)

ToStore(s) ==
    [private_key |-> own[s], public_key |-> own[s], peer_public_key |-> peer[s],
     shared_key |-> derive_shared_key(own[s], peer[s])]

\* Mutant: one call too many.
MutStoreKey(s) ==
    LET name == StoreOrder[(storing[s] % 4) + 1] IN
    /\ Goto(s, "store", IF storing[s] = 4 THEN "load" ELSE "store")
    /\ store' = [store EXCEPT ![s][name] = ToStore(s)[name]]
    /\ storing' = [storing EXCEPT ![s] = (@ + 1) % 5]
    /\ UNCHANGED <<made, own, peer, using, shown, screen, confirmed, cut>>

\* The four store calls, one after the other; then main() goes on.
StoreKey(s) ==
    LET name == StoreOrder[storing[s] + 1] IN
    /\ Goto(s, "store", IF storing[s] = 3 THEN "load" ELSE "store")
    /\ store' = [store EXCEPT ![s][name] = ToStore(s)[name]]
    /\ storing' = [storing EXCEPT ![s] = (@ + 1) % 4]
    /\ UNCHANGED <<made, own, peer, using, shown, screen, confirmed, cut>>

\* Daemon.__init__
LoadSharedKey(s) ==
    /\ Goto(s, "load", "running")
    /\ using' = [using EXCEPT ![s] = store[s].shared_key]
    /\ UNCHANGED <<made, wizard, store, shown, screen, confirmed, cut>>

\* The program ends: stopped, killed, or by an exception of the store.
End(s) ==
    /\ pc[s] # "off"
    /\ pc' = [pc EXCEPT ![s] = "off"]
    /\ Forget(s)

(***************************************************************************)
(* The deletion of docs/RUNNING.md ("need to redo setup"): a script that   *)
(* deletes the entries in this order, and raises at one that is missing.   *)
(* It may be interrupted after n of them.                                  *)
(***************************************************************************)
DeleteKeys(s) ==
    \E n \in 1 .. 4 :
        LET gone == {StoreOrder[i] : i \in 1 .. n} IN
        /\ pc[s] \in {"off", "running"}
        /\ \A name \in gone : Present(store[s], name)
        /\ store' = [store EXCEPT ![s] =
               [name \in DOMAIN EmptyStore |->
                   IF name \in gone THEN EmptyStore[name] ELSE @[name]]]
        /\ cut' = [cut EXCEPT ![s] = @ \/ (n < 4 /\ Present(store[s], StoreOrder[n + 1]))]
        /\ UNCHANGED <<made, pc, wizard, using, shown, screen, confirmed>>

Step(s) ==
    \/ Start(s) \/ GenerateKeypair(s) \/ PasteKey(s) \/ InvalidKey(s)
    \/ Confirm(s) \/ Decline(s) \/ StoreKey(s) \/ LoadSharedKey(s) \/ End(s)
    \/ DeleteKeys(s)

Next == \E s \in Sides : Step(s)

Spec == Init /\ [][Next]_vars

-----------------------------------------------------------------------------
(* Properties.                                                             *)

(***************************************************************************)
(* A store that counts as complete holds the keys of one run of the        *)
(* wizard, however often a run ended between two stores: the shared key is *)
(* the one of the stored pair and peer.  It takes an interrupted deletion  *)
(* to mix two runs.                                                        *)
(***************************************************************************)
StoredTogether ==
    \A s \in Sides : has_completed_setup(s) /\ ~cut[s] =>
        /\ store[s].public_key = store[s].private_key
        /\ store[s].shared_key =
               derive_shared_key(store[s].private_key, store[s].peer_public_key)

(***************************************************************************)
(* Nothing is ever encrypted with a key nobody confirmed: a daemon runs    *)
(* with a shared key, and with one whose fingerprint was confirmed on its  *)
(* own side.                                                               *)
(***************************************************************************)
RunsWithConfirmedKey ==
    \A s \in Sides : pc[s] = "running" => using[s] \in confirmed[s]

(***************************************************************************)
(* Two running daemons share one key, whatever run ended where on either   *)
(* side: there is no pairing in which both sides are set up, connect, and  *)
(* understand nothing.                                                     *)
(***************************************************************************)
KeysAgree ==
    (\A s \in Sides : pc[s] = "running" /\ ~cut[s]) => using[Mac] = using[Win]
=============================================================================
