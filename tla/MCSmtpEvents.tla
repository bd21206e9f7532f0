---------------------------- MODULE MCSmtpEvents ----------------------------
(***************************************************************************)
(* Instances of SmtpEvents for TLC.                                        *)
(***************************************************************************)
EXTENDS SmtpEvents
=============================================================================
