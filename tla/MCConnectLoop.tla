--------------------------- MODULE MCConnectLoop ----------------------------
(***************************************************************************)
(* ConnectLoop with four values to a byte, so that a short has sixteen and *)
(* the event overflows both, and a port of each direction: one that stays  *)
(* silent, one that never opens, and the Mac's, listed last.               *)
(***************************************************************************)
EXTENDS ConnectLoop, TLC

MCReports == {<<1, 2>>}
MCMotions == {Motion(3, -9, 8, -1, 6)}
MCListing == <<"COM3", "COM4", "COM5">>
MCDirection == "COM3" :> "incoming" @@ "COM4" :> "other" @@ "COM5" :> "outgoing"
=============================================================================
