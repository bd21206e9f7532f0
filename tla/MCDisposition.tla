---------------------------- MODULE MCDisposition ----------------------------
(***************************************************************************)
(* Instances of Disposition for TLC.                                       *)
(***************************************************************************)
EXTENDS Disposition

Switches == {"on", "name", "subject", "link", "receipt"}
Plain == [quarantine |-> "quarantine", blacklist |-> TRUE, challenge |-> FALSE,
          verified |-> TRUE, brand |-> Switches, scam |-> {Slug[c] : c \in DOMAIN Slug},
          campaign |-> "reject"]

\* The default policy, a lenient one, and strict approval with an unverified
\* source and the detectors off.
SomePolicies ==
    {Plain,
     [Plain EXCEPT !.quarantine = "tag", !.blacklist = FALSE, !.scam = {"malware"},
                   !.campaign = "discard"],
     [Plain EXCEPT !.challenge = TRUE, !.verified = FALSE, !.brand = {"on"}, !.scam = {},
                   !.campaign = "aggregate"]}

SomeSymbols == {{}, {"phish"}, {"virus", "phish"}, {"reputation"}, {"white", "reputation"},
                {"openphish", "virus"}, {"blocked"}}

SomeCues == {{}, {"credential"}, {"delivery", "malware"}, {"malware"}, {"health"}}

SomeClaims == {{}, {"name"}, {"subject", "cue", "link"}, {"pressure", "receipt"}}
=============================================================================
