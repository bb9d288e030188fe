----------------------------- MODULE MCHeldKeys -----------------------------
(***************************************************************************)
(* HeldKeys with one key, the hotkey itself, and two side buttons, which   *)
(* share the middle button's bit.                                          *)
(***************************************************************************)
EXTENDS HeldKeys, TLC

CONSTANTS side1, side2

MCKeys == {"f12"}
MCButtons == {side1, side2}
MCBit == side1 :> "middle" @@ side2 :> "middle"
SameBit == Permutations(MCButtons)
=============================================================================
