------------------------------ MODULE MCAccounts ------------------------------
(***************************************************************************)
(* Instances of Accounts for TLC.                                          *)
(***************************************************************************)
EXTENDS Accounts

Person(org, role) == [org |-> org, role |-> role]

\* The platform, a provider below it, and a customer below that.
ThreeLevels == [platform |-> "none", provider |-> "platform", customer |-> "provider"]
FourPeople == [root |-> Person("platform", "super_admin"), boss |-> Person("provider", "msp_admin"),
               user |-> Person("customer", "org_user"), new |-> Person("customer", "org_user")]
\* Requests begin in this order and run in any order.
AnyTwoAndOne == <<{"setup", "confirm", "start", "logout", "login", "challenge",
                    "password", "delete", "delete org"},
                  AllKinds \ {"challenge"}, {"code", "stop"}>>
AllButNew == {"root", "boss", "user"}
=============================================================================
