--------------------------- MODULE MCNotifications ---------------------------
(***************************************************************************)
(* Instances of Notifications for TLC.  Messages are interchangeable.       *)
(***************************************************************************)
EXTENDS Notifications, TLC

\* The two kinds of mail have no column in common, so each user gets one kind.
Alerted == [classes : {{"held", "tagged"}}, alert : {"immediate", "daily"},
            notice : {"immediate"}]
Reminded == [classes : {{"challenge"}}, alert : {"immediate"},
             notice : {"immediate", "hourly"}]
Users == Alerted \cup Reminded

MsgSymmetry == Permutations(Msg)
=============================================================================
