----------------------------- MODULE MCInjector -----------------------------
(***************************************************************************)
(* Injector with a keyboard of four codes: a letter, the two Enter keys    *)
(* that share VK_RETURN, and a code outside the whitelist.                 *)
(***************************************************************************)
EXTENDS Injector, TLC

MCCodes == {"a", "enter", "keypadEnter", "rollover"}
MCModifiers == {"shift"}
MCButtons == {"left"}
MCVk == "a" :> "VK_A" @@ "enter" :> "VK_RETURN" @@ "keypadEnter" :> "VK_RETURN"
        @@ "shift" :> "VK_LSHIFT"
=============================================================================
