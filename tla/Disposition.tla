----------------------------- MODULE Disposition -----------------------------
(***************************************************************************)
(* What the ingest handler decides about ONE message: a chain of detectors *)
(* and overrides, each of which sees only the disposition and the reason   *)
(* the ones before it left.  Words, scores and symbols are abstracted to   *)
(* what the chain asks about them; a Go map is read in any order.          *)
(***************************************************************************)
EXTENDS Integers, Sequences, FiniteSets

CONSTANTS
    Scores,    \* where the score may stand among the policy's thresholds
    Auths,     \* what SPF, DKIM and DMARC may have said of the sender
    SymbolSets,\* sets of symbols rspamd may have put on the message
    CueSets,   \* sets of scam categories the words of a message may match
    ClaimSets, \* sets of brand claims a message may make
    Policies,  \* the policies that may be resolved for the recipient
    Mailboxes  \* what the recipient's mailbox may say of challenge-response

Held == {"quarantined", "rejected"}
\* "auth policy": the sender's own DMARC policy asks to reject or quarantine.
AuthReasons == {"auth missing", "auth failed", "auth policy"}
ScoreReasons == {"score spam", "score quarantine", "score reject"}
Reasons == AuthReasons \cup ScoreReasons
           \cup {"none", "dsn", "allowlist", "learned", "blacklist", "reputation", "feed", "scam",
                 "brand", "phish signal", "malware", "approval", "learned threat", "deep",
                 "campaign rejected", "campaign discarded"}
Learned == {"none", "not_spam", "spam", "phishing"}
ThreatClasses == {"PHISHING", "VIRUS", "MALWARE"}

\* "brand": the verified sender is a protected brand itself; "policy": its DMARC
\* policy asks to reject or quarantine.
AuthResults == {"brand", "verified", "pass", "fail", "policy", "missing"}
Unproved == {"fail", "policy", "missing"}
Symbols == {"phish", "openphish", "virus", "reputation", "white", "blocked"}
Claims == {"name", "subject", "cue", "workflow", "pressure", "link", "newsletter", "receipt"}

\* AnalyzeCommonScam reports the first category whose words it finds.
ScamOrder == <<"credential", "wallet", "delivery", "bec", "payment", "support", "reward", "tax",
               "investment", "miracle", "health", "home", "job", "tech", "malware">>

\* The policy switch of a category; a category without one is never acted on.
Slug == [credential |-> "credential", wallet |-> "credential", support |-> "support",
         tax |-> "tax", miracle |-> "health", health |-> "health", home |-> "home",
         malware |-> "malware"]

ASSUME InputAssumption ==
    /\ Scores \subseteq {"low", "spam", "quarantine", "reject"}
    /\ Auths \subseteq AuthResults
    /\ SymbolSets \subseteq SUBSET Symbols
    /\ CueSets \subseteq SUBSET {ScamOrder[i] : i \in DOMAIN ScamOrder}
    /\ ClaimSets \subseteq SUBSET Claims
    /\ Mailboxes \subseteq {"absent", "inactive", "inherit", "enabled", "disabled"}

\* What the pipeline reads of a policy.
PolicyRow == [quarantine : {"quarantine", "reject", "tag", "deliver"},
              blacklist : BOOLEAN, challenge : BOOLEAN, verified : BOOLEAN,
              brand : SUBSET {"on", "name", "subject", "link", "receipt"},
              scam : SUBSET {Slug[c] : c \in DOMAIN Slug},
              campaign : {"aggregate", "reject", "discard"}]

ASSUME PolicyAssumption == Policies \subseteq PolicyRow

VARIABLES
    pc,      \* where the handler stands
    ev,      \* the event: what rspamd saw
    pol,     \* the resolved policy, challenge merged with the mailbox's own mode
    action,  \* what the sender lists say
    feed,    \* was an indicator of the message in a cached feed?
    learned, \* what the recipient said of similar mail
    v,       \* disposition and reason so far
    class    \* threat class of the campaign, and of the quarantine entry if one is made

pipelineVars == <<pc, ev, pol, action, feed, learned, v, class>>

Verdict(disp, reason) == [disp |-> disp, reason |-> reason]
-----------------------------------------------------------------------------
(***************************************************************************)
(* The detectors and overrides, in the order handle applies them.          *)
(***************************************************************************)

DispositionFor(word) ==
    CASE word = "deliver" -> "delivered" [] word = "tag" -> "tagged"
      [] word = "reject" -> "rejected"   [] OTHER -> "quarantined"

Decided(e, p) ==
    CASE e.score = "reject" -> Verdict("rejected", "score reject")
      [] e.score = "quarantine" -> Verdict(DispositionFor(p.quarantine), "score quarantine")
      [] e.score = "spam" -> Verdict("tagged", "score spam")
      [] OTHER -> Verdict("delivered", "none")

\* A bounce is delivered whatever it scored.
AfterBounce(d, e) ==
    IF e.dsn /\ d.reason \in ScoreReasons \cup {"none"}
    THEN Verdict("delivered", "dsn") ELSE d

AfterAuth(d, e) ==
    IF d.disp \in Held \/ ~e.inbound \/ e.dsn THEN d
    ELSE CASE e.auth = "missing" -> Verdict("quarantined", "auth missing")
           [] e.auth = "policy" -> Verdict("quarantined", "auth policy")
           [] e.auth = "fail" -> Verdict("quarantined", "auth failed")
           [] OTHER -> d

\* Mutant: the reputation hit is missing from the list.
AllowMayOverrideLess(reason) ==
    reason \notin AuthReasons \cup {"score quarantine", "score reject", "feed", "malware",
                                    "blacklist", "approval", "learned threat"}

\* isAllowlistOverrideBlockedReason, negated.
AllowMayOverride(reason) ==
    reason \notin AuthReasons \cup {"score quarantine", "score reject", "feed", "malware",
                                    "blacklist", "reputation", "approval", "learned threat"}

AfterSenderList(d, a, enabled) ==
    CASE a = "block" /\ enabled -> Verdict("rejected", "blacklist")
      [] a = "allow" /\ AllowMayOverride(d.reason) /\ d.disp \in {"tagged", "quarantined"}
            -> Verdict("delivered", "allowlist")
      [] OTHER -> d

\* The milter asked the same lists before: it marks blocked mail with a symbol.
AfterRspamdBlock(d, e) ==
    IF "blocked" \in e.symbols THEN Verdict("rejected", "blacklist") ELSE d

ReputationHit(e) ==
    {"reputation", "openphish"} \cap e.symbols # {} /\ "white" \notin e.symbols

AfterReputation(d, e) ==
    IF d.disp \notin Held /\ ReputationHit(e) THEN Verdict("quarantined", "reputation") ELSE d

AfterFeed(d, hit) ==
    IF d.disp \notin Held /\ hit THEN Verdict("quarantined", "feed") ELSE d

EmailType(e) ==
    LET found == {i \in DOMAIN ScamOrder : ScamOrder[i] \in e.cues}
    IN  IF found = {} THEN "none"
        ELSE ScamOrder[CHOOSE i \in found : \A j \in found : i <= j]

\* A protected brand may ask its customers to sign in.
ScamHit(e, p) ==
    /\ EmailType(e) \in DOMAIN Slug
    /\ Slug[EmailType(e)] \in p.scam
    /\ ~(EmailType(e) = "credential" /\ e.auth = "brand")

AfterScam(d, e, p) ==
    IF d.disp \notin Held /\ ScamHit(e, p) THEN Verdict("quarantined", "scam") ELSE d

\* scoreBrandClaim: points per claim, each with its own switch; the links of an
\* authenticated newsletter do not count, and a brand's own receipt is deducted.
BrandScore(e, p) ==
    LET Points(needs, switches, n) ==
            IF needs \subseteq e.claims /\ switches \subseteq p.brand THEN n ELSE 0
        open == {"name", "subject"} \cap e.claims = {}
        explicit == ~open \/ "pressure" \in e.claims
        newsletter == "newsletter" \in e.claims /\ {"name", "pressure"} \cap e.claims = {}
    IN  Points({"name"}, {"name"}, 80) + Points({"subject", "cue"}, {"subject"}, 45)
        + (IF open THEN Points({"workflow"}, {"link"}, 80) ELSE 0)
        + Points({"pressure"}, {}, 80)
        + (IF explicit /\ ~newsletter THEN Points({"link"}, {"link"}, 45) ELSE 0)
        - (IF e.auth = "brand" THEN Points({"receipt"}, {"receipt"}, 80) ELSE 0)

BrandHit(e, p) == "on" \in p.brand /\ BrandScore(e, p) >= 70

AfterBrand(d, e, p, a) ==
    IF d.disp \notin Held /\ a # "allow" /\ e.inbound /\ BrandHit(e, p)
    THEN Verdict("quarantined", "brand") ELSE d

SymbolClass == [phish |-> "PHISHING", openphish |-> "PHISHING", virus |-> "VIRUS",
                reputation |-> "REPUTATION"]

\* rspamd's own guess of phishing is not believed of a protected brand.
Telling(e) ==
    (e.symbols \cap DOMAIN SymbolClass) \ (IF e.auth = "brand" THEN {"phish"} ELSE {})

\* classifyThreat returns for the first telling symbol of a Go map: any of them.
ClassesOf(e, p) ==
    CASE Telling(e) # {} -> {SymbolClass[s] : s \in Telling(e)}
      [] Telling(e) = {} /\ ScamHit(e, p) ->
            {CASE EmailType(e) \in {"credential", "wallet", "support", "tax", "miracle"} -> "PHISHING"
               [] EmailType(e) = "malware" -> "MALWARE"
               [] OTHER -> "SPAM"}
      [] Telling(e) = {} /\ ~ScamHit(e, p) /\ BrandHit(e, p) -> {"PHISHING"}
      [] OTHER -> {IF e.score \in {"quarantine", "reject"} THEN "SPAM" ELSE "none"}

AfterThreat(d, threat) ==
    IF d.disp \in Held THEN d
    ELSE CASE threat = "PHISHING" /\ d.disp = "delivered" -> Verdict("tagged", "phish signal")
           [] threat = "PHISHING" /\ d.disp = "tagged" /\ d.reason = "none" ->
                [d EXCEPT !.reason = "phish signal"]
           [] threat \in {"VIRUS", "MALWARE"} -> Verdict("quarantined", "malware")
           [] OTHER -> d

\* challengeResponseModeEnabled: an active mailbox may overrule the policy.
ChallengeOn(policy, mailbox) ==
    CASE mailbox = "enabled" -> TRUE [] mailbox = "disabled" -> FALSE [] OTHER -> policy

\* Every detector on, as classifyThreat takes them when it gets no policy.
Vigilant(p) == [p EXCEPT !.scam = {Slug[c] : c \in DOMAIN Slug},
                         !.brand = {"on", "name", "subject", "link", "receipt"}]

\* challengeCanRequestApproval: only missing or failed authentication may wait
\* for approval, and not if a threat is seen.
MayRequestApproval(d, e, p, threat) ==
    d.reason \in AuthReasons /\ threat \notin ThreatClasses /\ ~ScamHit(e, p)

\* Mutant: an allowed sender need not be verified.
AllowedAsSuch(e, p, a) == a = "allow"

AllowedHere(e, p, a) == a = "allow" /\ (~p.verified \/ e.auth \in {"brand", "verified"})

AfterChallenge(d, e, p, a, threat) ==
    IF \/ d.disp = "rejected" \/ ~p.challenge \/ ~e.inbound \/ e.dsn
       \/ d.disp = "quarantined" /\ ~MayRequestApproval(d, e, p, threat)
       \/ AllowedHere(e, p, a)
    THEN d ELSE Verdict("quarantined", "approval")

HardGate(reason) ==
    reason \in AuthReasons \cup {"score quarantine", "score reject", "feed", "malware",
                                 "blacklist", "reputation", "approval"}

AfterLearned(d, said) ==
    CASE said = "not_spam" /\ ~HardGate(d.reason) /\ d.disp \in {"quarantined", "tagged"}
            -> Verdict("delivered", "learned")
      [] said = "spam" /\ d.disp \in {"delivered", "tagged"}
            -> Verdict("quarantined", "learned threat")
      [] said = "phishing" /\ d.disp # "rejected" -> Verdict("quarantined", "learned threat")
      [] OTHER -> d

\* Mutant: what scored high enough to reject is rejected.
NoQuarantineFirst(d, e) == d

AfterQuarantineFirst(d, e) ==
    IF d.disp = "rejected" /\ d.reason # "blacklist" /\ e.inbound
    THEN [d EXCEPT !.disp = "quarantined"] ELSE d

\* A tagged message the scorer may still clear is withheld (see DeepAnalysis).
AfterDeepAnalysis(d, e, eligible) ==
    IF eligible /\ e.inbound /\ d.disp = "tagged" THEN Verdict("quarantined", "deep") ELSE d

EntryClass(d, threat) ==
    IF d.disp # "quarantined" THEN "none"
    ELSE CASE d.reason = "deep" -> "PENDING_ANALYSIS"
           [] d.reason = "approval" -> "CHALLENGE_RESPONSE"
           [] OTHER -> threat

\* Mutant: what failed authentication is not excluded.
HighConfidenceAlways(d, c) == d.disp = "quarantined" /\ c # "CHALLENGE_RESPONSE"

\* highConfidenceCampaign: of the authentication reasons it excludes one.
HighConfidence(d, c) ==
    d.disp = "quarantined" /\ c # "CHALLENGE_RESPONSE" /\ d.reason # "auth failed"

\* full: as many copies have been counted as the policy allows (see Campaign).
AfterCampaign(d, c, p, full) ==
    CASE full /\ HighConfidence(d, c) /\ p.campaign = "reject"
            -> Verdict("rejected", "campaign rejected")
      [] full /\ HighConfidence(d, c) /\ p.campaign = "discard"
            -> [d EXCEPT !.reason = "campaign discarded"]
      [] OTHER -> d
-----------------------------------------------------------------------------
ListOn == pol.blacklist \/ pol.challenge

Events == [score : Scores, auth : Auths, symbols : SUBSET Symbols, cues : CueSets,
           claims : ClaimSets, inbound : BOOLEAN, dsn : BOOLEAN]

\* What arrives: outbound mail is never a bounce, and an authenticated
\* newsletter or receipt is authenticated.
Arriving ==
    {e \in Events : /\ e.symbols \in SymbolSets
                    /\ e.dsn => e.inbound
                    /\ e.auth \in Unproved => {"newsletter", "receipt"} \cap e.claims = {}}

\* The policy resolved for the recipient, the mailbox's own mode included.
PipelineInit ==
    /\ pc = "decide"
    /\ ev \in Arriving
    /\ pol \in {[p EXCEPT !.challenge = ChallengeOn(@, m)] : p \in Policies, m \in Mailboxes}
    /\ action = "none" /\ feed = FALSE /\ learned = "none"
    /\ v = Verdict("delivered", "none")
    /\ class = "none"

Step(from, to) == pc = from /\ pc' = to

\* decide, the bounce exception and the authentication gate.
Decides ==
    /\ Step("decide", "list")
    /\ v' = AfterAuth(AfterBounce(Decided(ev, pol), ev), ev)
    /\ UNCHANGED <<ev, pol, action, feed, learned, class>>

\* The sender lists are read once; then what needs no further lookup.
ReadsLists ==
    /\ Step("list", "feeds")
    /\ action' \in {"none", "allow", "block"}
    /\ v' = AfterReputation(AfterRspamdBlock(AfterSenderList(v, action', ListOn), ev), ev)
    /\ UNCHANGED <<ev, pol, feed, learned, class>>

\* Only what is not held yet is looked up; a hit leaves a symbol of its own,
\* which classifyThreat reads as phishing, as reputation, or not at all.
ReadsFeeds ==
    /\ Step("feeds", "detect")
    /\ feed' \in (IF v.disp \in Held THEN {FALSE} ELSE BOOLEAN)
    /\ \E mark \in IF feed' THEN {{"openphish"}, {"reputation"}, {}} ELSE {{}} :
        ev' = [ev EXCEPT !.symbols = @ \cup mark]
    /\ v' = AfterFeed(v, feed')
    /\ UNCHANGED <<pol, action, learned, class>>

\* Scam and brand detection, the threat symbols, and the lists once more.
Detects ==
    /\ Step("detect", "challenge")
    /\ \E threat \in ClassesOf(ev, pol) :
        v' = AfterSenderList(AfterThreat(AfterBrand(AfterScam(v, ev, pol), ev, pol, action),
                                         threat), action, ListOn)
    /\ UNCHANGED <<ev, pol, action, feed, learned, class>>

AsksApproval ==
    /\ Step("challenge", "learned")
    /\ \E threat \in ClassesOf(ev, Vigilant(pol)) :
        v' = AfterChallenge(v, ev, pol, action, threat)
    /\ UNCHANGED <<ev, pol, action, feed, learned, class>>

\* The recipient's own verdicts, the lists, and quarantine before rejection.
ReadsLearned ==
    /\ Step("learned", "hold")
    /\ learned' \in Learned
    /\ v' = AfterQuarantineFirst(
                AfterSenderList(AfterLearned(v, learned'), action, ListOn), ev)
    /\ UNCHANGED <<ev, pol, action, feed, class>>

\* The deep-analysis hold, the class of what is held, and the campaign's action.
Records ==
    /\ Step("hold", "done")
    /\ \E eligible, full \in BOOLEAN, threat \in ClassesOf(ev, pol) :
        LET held == AfterDeepAnalysis(v, ev, eligible)
        IN  /\ class' = EntryClass(held, threat)
            /\ v' = AfterCampaign(held, EntryClass(held, threat), pol, full)
    /\ UNCHANGED <<ev, pol, action, feed, learned>>

\* An unknown domain, a policy, a list or the campaign that cannot be read:
\* the handler answers without a decision, and the MTA keeps its own.
GivesUp ==
    /\ pc \in {"decide", "list", "hold"} /\ pc' = "failed"
    /\ UNCHANGED <<ev, pol, action, feed, learned, v, class>>

PipelineNext == \/ Decides \/ ReadsLists \/ ReadsFeeds \/ Detects \/ AsksApproval \/ ReadsLearned
        \/ Records \/ GivesUp

Pipeline == PipelineInit /\ [][PipelineNext]_pipelineVars
-----------------------------------------------------------------------------
\* Every variable stays in its domain, the disposition in its enum.
PipelineTypeOK ==
    /\ pc \in {"decide", "list", "feeds", "detect", "challenge", "learned", "hold", "done", "failed"}
    /\ ev \in Events
    /\ pol \in PolicyRow
    /\ action \in {"none", "allow", "block"} /\ feed \in BOOLEAN /\ learned \in Learned
    /\ v \in [disp : {"delivered", "tagged", "quarantined", "rejected"}, reason : Reasons]
    /\ class \in ThreatClasses \cup {"none", "SPAM", "REPUTATION", "PENDING_ANALYSIS",
                                     "CHALLENGE_RESPONSE"}

Finished == pc = "done"
Delivers == Finished /\ v.disp \notin Held
Strict == pol.challenge /\ ev.inbound /\ ~ev.dsn

\* A sender somebody blocked is rejected and logged as such, whatever any other
\* detector, verdict or approval rule says of the message (docs/use.md:43).
BlockedIsRejected ==
    Finished /\ ((action = "block" /\ ListOn) \/ "blocked" \in ev.symbols)
        => v = Verdict("rejected", "blacklist")

\* Hard evidence is never overruled: mail that failed authentication, scored
\* for quarantine or hit a reputation list or feed is withheld, whichever of
\* allow list, learned verdict and approval come after it.
HardEvidence ==
    \/ ReputationHit(ev) \/ feed
    \/ ~ev.dsn /\ ev.inbound /\ ev.auth \in Unproved
    \/ ~ev.dsn /\ ev.score = "reject"
    \/ ~ev.dsn /\ ev.score = "quarantine" /\ DispositionFor(pol.quarantine) \in Held

HardEvidenceHolds == Finished /\ HardEvidence => v.disp \in Held

\* With strict approval, an allowed sender gets through only from a verified
\* source (docs/use.md:44).
AllowedIsVerified ==
    Delivers /\ Strict /\ action = "allow" /\ pol.verified => ev.auth \in {"brand", "verified"}

\* With strict approval, a sender nobody allowed gets through only if the
\* recipient declared similar mail wanted; bounces are exempt
\* (applyChallengeResponseHoldEnabled, applyLearnedClassification; docs/use.md:45
\* knows no such exception).
StrangerNeedsVerdict == Delivers /\ Strict /\ action # "allow" => learned = "not_spam"

\* Inbound mail is refused at SMTP only for a blocked sender, or once a tenant
\* that chose to reject floods has counted enough copies of mail that is held
\* and does not wait for approval; everything else is kept for review
\* (applyQuarantineFirst, handle).
RefusedOnlyAsBlocked ==
    Finished /\ ev.inbound /\ v.disp = "rejected" =>
        \/ v.reason = "blacklist"
        \/ v.reason = "campaign rejected" /\ pol.campaign = "reject" /\ class # "CHALLENGE_RESPONSE"

\* Mail that is held for nothing but its sender's failed SPF, DKIM or DMARC, be
\* it as such or for approval, stays held for that, whatever flood it belongs to
\* and whatever the detectors, lists and verdicts after the gate say of it
\* (docs/campaign-protection.md:23-24); only a blocked sender and a verdict of
\* phishing weigh more.
OnlyUnproved(auths) ==
    /\ ev.inbound /\ ~ev.dsn /\ ev.auth \in auths /\ ev.score \in {"low", "spam"}
    /\ "blocked" \notin ev.symbols /\ ~(action = "block" /\ ListOn) /\ learned # "phishing"

HeldAsUnproved ==
    v \in {Verdict("quarantined", r) : r \in AuthReasons \cup {"approval"}}

AuthHoldStands == Finished /\ OnlyUnproved({"fail"}) => HeldAsUnproved

\* What docs/campaign-protection.md:23 promises of every authentication-only
\* hold; the code exempts only one of the three kinds (campaign.go:153).
EveryAuthHoldStands == Finished /\ OnlyUnproved(Unproved) => HeldAsUnproved
=============================================================================
