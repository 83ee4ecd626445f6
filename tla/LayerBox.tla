------------------------------- MODULE LayerBox -------------------------------
(***************************************************************************)
(* What a layer promises those around it, whatever it computes: it takes a *)
(* token when it is empty, is busy with it, gives it back in one cycle,    *)
(* and is empty again.  A token offered while it is not empty is not taken *)
(* (valid_in has no ready).                                                *)
(***************************************************************************)
CONSTANT BoxTokens

VARIABLES
  boxState,       (* "EMPTY", "BUSY" or "GIVING"                             *)
  boxToken        (* the token in the box: {} or a singleton                 *)

boxVars == <<boxState, boxToken>>

BoxInit == boxState = "EMPTY" /\ boxToken = {}

BoxTake(token) ==
  boxState = "EMPTY" /\ boxState' = "BUSY" /\ boxToken' = {token}

BoxGive == boxState = "BUSY" /\ boxState' = "GIVING" /\ UNCHANGED boxToken

BoxClear == boxState = "GIVING" /\ boxState' = "EMPTY" /\ boxToken' = {}

BoxNext == (\E token \in BoxTokens : BoxTake(token)) \/ BoxGive \/ BoxClear

BoxSpec == BoxInit /\ [][BoxNext]_boxVars /\ WF_boxVars(BoxGive \/ BoxClear)

=============================================================================
