------------------------------ MODULE MailHold ------------------------------
(***************************************************************************)
(* What the deep-analysis hold promises about one message, without saying  *)
(* how the scans, the workers and the API get there: the message is held   *)
(* at most once, leaves the hold at most once, is handed downstream at     *)
(* most once by the hold, and only after somebody claimed its release.     *)
(***************************************************************************)

VARIABLES
    stage,     \* where the hold stands (mail_logs.deep_analysis_state)
    claimed,   \* has a release of the hold been claimed?
    delivered  \* has the hold handed the message downstream?

holdVars == <<stage, claimed, delivered>>

HInit == /\ stage = "absent"
         /\ claimed = FALSE
         /\ delivered = FALSE

Hold == /\ stage = "absent"
        /\ stage' = "pending"
        /\ UNCHANGED <<claimed, delivered>>

Condemn == /\ stage = "pending"
           /\ stage' = "threat"
           /\ UNCHANGED <<claimed, delivered>>

Claim == /\ stage = "pending"
         /\ ~claimed
         /\ stage' = "releasing"
         /\ claimed' = TRUE
         /\ UNCHANGED delivered

\* A claimed release may reach the relay after the hold was given up.
Deliver == /\ claimed
           /\ ~delivered
           /\ delivered' = TRUE
           /\ UNCHANGED <<stage, claimed>>

Finish == /\ stage = "releasing"
          /\ stage' = "released"
          /\ UNCHANGED <<claimed, delivered>>

GiveUp == /\ stage \in {"pending", "releasing"}
          /\ stage' = "unavailable"
          /\ UNCHANGED <<claimed, delivered>>

HNext == Hold \/ Condemn \/ Claim \/ Deliver \/ Finish \/ GiveUp

HSpec == HInit /\ [][HNext]_holdVars
=============================================================================
