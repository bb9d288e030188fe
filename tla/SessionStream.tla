---------------------------- MODULE SessionStream ----------------------------
(***************************************************************************)
(* What a session promises, whatever the threads, the link and the         *)
(* restarts do.  The messages the Mac seals for a session are opened on    *)
(* Windows one after the other from the first, each at most once, only     *)
(* while that session is the current one, and no session is returned to.   *)
(* Messages may be lost - then the session delivers nothing more - but     *)
(* they are never repeated, reordered or carried over.                     *)
(***************************************************************************)
EXTENDS Integers, Sequences

CONSTANT Sessions       \* sessions, numbered in the order they begin

VARIABLES
    sealed,     \* how many messages the Mac has sealed for each session
    opened,     \* the positions of the messages opened, as they were opened
    current     \* the session being received, or 0

svars == <<sealed, opened, current>>

Init ==
    /\ sealed = [s \in Sessions |-> 0]
    /\ opened = [s \in Sessions |-> <<>>]
    /\ current = 0

Seal(s) ==
    /\ sealed' = [sealed EXCEPT ![s] = @ + 1]
    /\ UNCHANGED <<opened, current>>

\* A session begins before anything of it, or of a later one, was opened.
Begin(s) ==
    /\ current = 0
    /\ \A t \in Sessions : t >= s => opened[t] = <<>>
    /\ current' = s
    /\ UNCHANGED <<sealed, opened>>

End ==
    /\ current' = 0
    /\ UNCHANGED <<sealed, opened>>

\* The next message of the current session is opened.
Deliver ==
    /\ current \in Sessions
    /\ Len(opened[current]) < sealed[current]
    /\ opened' = [opened EXCEPT ![current] = Append(@, Len(@))]
    /\ UNCHANGED <<sealed, current>>

Next == End \/ Deliver \/ \E s \in Sessions : Seal(s) \/ Begin(s)

Spec == Init /\ [][Next]_svars
=============================================================================
