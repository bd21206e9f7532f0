----------------------------- MODULE MCDecisions -----------------------------
(***************************************************************************)
(* Instances of Decisions for TLC.                                         *)
(***************************************************************************)
EXTENDS Decisions

Message(from, subject, held, pending) ==
    [from |-> from, subject |-> subject, held |-> held, pending |-> pending, campaign |-> 1]

\* Two copies of one campaign in the mailbox, and one message held for approval.
ThreeMessages == <<Message("a", "s", FALSE, FALSE), Message("b", "", FALSE, FALSE),
                   Message("a", "t", TRUE, TRUE)>>
=============================================================================
