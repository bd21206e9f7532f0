# SentinelMail Gateway: TLA+ models and proofs

SentinelMail Gateway stands between the internet and an organisation's mail
servers. Postfix receives a message, Rspamd asks the Go API what to do with it,
and the API answers: deliver, tag, reject, or discard the original because the
gateway has kept a copy. From that answer on the copy in the gateway is the only
one, and several processes work on it at once: HTTP handlers, scan workers, result
callbacks, minute loops, background jobs and operators. None of them holds a lock
or a transaction across more than one SQL statement, except where noted. The
specifications here are about that: what may happen to a message, and what a
record says about it, when those steps interleave, fail or are cut off.

## 1. Inventory

| Component (source) | State | Operations | Interacts with |
|---|---|---|---|
| Mail ingest (`internal/mail/ingest.go`, `sender_policy.go`) | `mail_logs`, `mail_log_blobs`, `mailbox_messages`, `quarantine_entries`, `quarantine_blobs` | `IngestHandler.handle`: decide, persist, alert, queue scans, answer | called by the milter; calls campaigns, scans, notifications |
| Milter (`deploy/docker/rspamd/sentinelmail.lua`) | none; the SMTP session waits for it | `post_mail_event`: post the event, act on the answer or on its absence | Postfix, ingest |
| Campaign protection (`internal/mail/campaign.go`) | `mail_campaigns`, `mail_campaign_sources` | count a copy, decide whether it is suppressed, record the representative | ingest, policies |
| Deep-analysis hold (`internal/scan/scan.go`) | `scan_jobs`, Redis lists, `mail_logs.deep_analysis_*` | enqueue, `recordResult`, `reconcileDeepAnalysis`, `ResolveExpiredDeepAnalysis` | ingest, workers, quarantine, reports |
| Scan workers (`src/workers`) | one envelope in memory | BLPOP, scan, post the result | Redis, scan callbacks |
| Scan verdict reports (`internal/phishingreports`) | `phishing_reports`, quarantine entries | `RecordFromScan`, review screens | scan callbacks, quarantine |
| Quarantine (`internal/quarantine`) | `quarantine_entries.state` | release, not spam, verdict, block, delete, bulk forms, purge, abuse reports | sent emails, sender lists, the hold |
| Sent email log (`internal/sentemails`) | `sent_emails.status` | `Send`: insert pending, hand to the relay, finish; `resend` | quarantine, notifications |
| Sender lists (`internal/senderlists`) | `list_entries` | upsert as DELETE then INSERT, matching | ingest, quarantine, mail logs |
| Mail logs (`internal/maillogs`) | reads `mail_logs` | queries; release, not spam, block, delete of held copies | quarantine, sender lists |
| SMTP events (`internal/smtpevents`, the Postfix log forwarder) | `smtp_events`, `mail_logs.terminal_*`; the forwarder follows the log from its end and remembers no position | ingest of delivery events, correlation with a mail log | Postfix logs, mail logs |
| Notifications (`internal/notifications`) | the time stamps and frequencies of `users` | immediate alerts, digests, challenge digests | API loops, sent emails |
| Policies (`internal/policies`) | `policies` | CRUD, `Resolve` by precedence | ingest |
| Classifier (`internal/classifier`) | `user_mail_classifications` | learn from a decision, forget, look up by sender, subject and domain | mailbox, quarantine, ingest |
| Spoofing, challenge | none | pure scoring | ingest |
| Threat feeds (`internal/threatfeed`) | answers cached in Redis with a time to live | lookups, refresh | ingest |
| Brand intelligence (`internal/brandintel`) | `brand_profiles`, a copy of it in each process, the feed's status | seeding at a start, edits, import from PhishTank, loading the copy, match | ingest |
| Authentication (`internal/auth`) | `sessions`, the password and secret columns of `users` | login, codes, logout, impersonation | every handler |
| Tenancy and users (`internal/tenant`, `internal/orgs`, `internal/users`) | `organizations`, `users` | the scope of an identity, changing accounts and organisations | every handler |
| Mailbox (`internal/mailbox`) | `mailbox_messages` | verdicts, block and allow, delete, their bulk forms | sender lists, classifier, quarantine |
| Settings, billing, domains, audit, cluster, reports | rows | single-statement updates and queries | screens |
| API process (`cmd/api`) | timers | the loops that expire holds, send digests, purge, refresh | all of the above |

**What is hard.**

* *A decision spread over callbacks.* A message held for deep analysis is released
  by whichever result callback finds that all scans are finished; callbacks, the
  ingest handler that is still queueing scans, the deadline and an operator race.
* *The only copy.* The milter discards the original as soon as the API says the
  gateway has it. Everything the API had to persist before that, and everything that
  may go wrong after, decides whether a message can be lost or delivered twice.
* *Check, then send, then mark.* Every release reads a state, hands a message to a
  relay (which cannot be rolled back), and writes the state afterwards.
* *Copies of a flood.* Many copies of one message are processed at the same time
  and all but one should leave no record.
* *Bulk work in the background* on entries that others change or purge meanwhile.
* *Windows in time*: digests and cooldowns computed from `now()` at several moments.
* *External logs* that arrive late, twice or out of order.
* *A chain of detectors*, each of which may replace what the one before decided.
* *One decision, many rows*: a block or a verdict writes sender rules, learned
  verdicts and entries under several keys, by several screens, without a transaction.
* *Stale copies*: a process's brands, an identity read when a request began.

What makes each component correct is listed with the properties in section 3; the
full list of hazards, each at its line, is in `PROJECT.json`.

## 2. Modules

| Module | What it is |
|---|---|
| `MailHold` | abstract: what the deep-analysis hold promises about one message |
| `DeepAnalysis` | ingest, milter, scan queue, workers, callbacks, deadline and operator, for one message |
| `Campaign` | concurrent ingest of the copies of one campaign |
| `Quarantine` | concurrent requests and bulk jobs on the held copies of one mail log, and the sent mail log |
| `Notifications` | alerts, digests and approval reminders of one user, racing with arriving mail and the clock |
| `Disposition` | what the ingest handler decides about one message: the chain of detectors and overrides |
| `Decisions` | what people decide about mail: requests of four screens on rules, learned verdicts, mailbox copies and entries |
| `SmtpEvents` | Postfix's log, the forwarder and the API: what a mail log says finally happened |
| `Accounts` | accounts, sessions, authenticator codes and the organisation tree under concurrent requests |
| `Brands` | the brand table, its edits, seeding and feed, and the copy each process keeps |
| `MC*` | instances for TLC |
| `*Proofs` | theorems and proofs about the module they extend; `DetectionProofs` extends two, `Brands` and `Disposition`, which is why the specification of the latter is called `Pipeline` |

Every SQL statement, Redis call, HTTP exchange and SMTP hand-off is an action of its
own; what a handler does between two of them is local and is folded into the step
that follows. `pc`-like variables hold the position of each handler. A CONSTANT
`Faults` names the faults the environment may inject, so that one specification
serves runs with and without them, and the theorems hold for every subset
(`MayFail` in `Decisions` and `Accounts`, where a failing statement is the only
fault; `Brands` and `Disposition` always allow for failures).

How they compose: `Disposition` ends where `DeepAnalysis` and `Campaign` begin, with
a disposition to persist; the answers of the lists and of what was learned, which are
inputs to it, are what `Decisions` computes from the tables (`Effective`, `Learnt`);
its brand claims are matched against the rows of `Brands`; `SmtpEvents` tells what
became of the answer that `DeepAnalysis` gives. They share no variables: what one
writes the others read only as a fact about one message, which is an input there with
every value it may take. Composing them into one state space would add no
interleaving that matters and put every run out of reach.

### DeepAnalysis

One inbound message that `handle` decided to withhold (`disposition = quarantined`,
`deep_analysis_state = 'pending'`).

| Model | Code |
|---|---|
| `ing`, `nxt`: `LogsMail`, `InsertsEntry`, `InsertsBlob`, `InsertsJob`, `PushesJob`, `EnqueueFails`, `Replies`, `IngestDies` | the persistence half of `handle`, `spawnScans`, `EnqueueScan`, the JSON answer |
| `mta`: `MtaHears`, `MtaTimesOut` | the milter's `discard` or pass |
| `redis`, `wk`: `Pops`, `WorkerFree` | RPUSH and BLPOP on two lists, one worker process each |
| `req`, `job`: `Starts`, `StoresResult`, `RecordsThreat` | the worker's two posts, `recordResult`, `RecordFromScan` |
| `hold`, `why`: `ReadsHold`, `CountsScans`, `Condemns`, `Abandons`, `Claims` | `reconcileDeepAnalysis`; the claim is its conditional UPDATE |
| `todo`, `entry`: `SelectsEntries`, `Sends`, `SendFails`, `Marks`, `Finishes`, `GivesUp` | `ReleaseDeepAnalysisHold`, `releaseMessage` |
| `ExpiresHold` | `ResolveExpiredDeepAnalysis`, called every minute |
| `op`: `OpRelease`, `OpSends`, `OpMarks`, `OpFails`, `OpDeletes` | `release` and `del` of the quarantine screen |

What a scan finds (`Outcomes`) and whether the event carries a message that may be
stored (`HasRaw`) are inputs. One recipient; a second entry appears only through
`RecordFromScan`. `MaxManual` bounds the deliveries an operator makes by hand.

### Campaign

`Copy` is the set of copies the API works on; their classes (what the pipeline
decided) are inputs. Each copy runs `RecordsCampaign` (the upsert that returns the
counters and the representative), `LogsMail`, `CopiesToMailbox`, `StoresOriginal`,
`InsertsEntry`, `Represents`, `StoresBlob`, `Replies`, as `handle` does; its milter
then acts on the answer. Once the SMTP dialogue is over a deep-analysis hold is
settled or expires. The unique index on representative entries is `InCampaign`
together with `Conflicts`.

### Quarantine

`Request` is a set of handlers or background jobs, each of some kind in `Kinds`,
working on entries of one mail log. `Loads` is the SELECT and the checks on the row
it returns; `Forgets` and `Decides` are the DELETE and the INSERT of a sender
decision; `Reads`, `Logs`, `Sends`, `FinishesRow`, `Marks` are `releaseMessage`,
`sentemails.Send` and the UPDATE after it; `Updates` is the UPDATE of delete, verdict and
block; `FailsToLoad` and `Fails` are any failing statement, `Dies` the end of the process
or of the job's half hour; `Purges` is retention. A release of an entry without a stored
message or without a usable gateway (`gatewayForRelease`, the fault `gateway`) ends in
`Reads` and leaves no trace but the count of failures it answers with. `relayed`, `asked`
and `failed` are history: what the relay accepted, what was asked for, and which entries
a release gave up.
The administrator's variant of each request is modelled (an end user's request
works on one entry and writes its rule under that user).

### Notifications

One user, and the messages withheld from that user. Two kinds of mail share
nothing but the loop of the process: alerts and digests about held and tagged
mail (`users.phishing_alert_*`), and reminders of mail that awaits approval
(`users.challenge_response_alert_*`). Both are here, and a profile says which
classes of mail arrive and what the user chose.

| Model | Code |
|---|---|
| `LogsMail`, `Holds`, `Resolves` | the inserts of ingest and the goroutine it starts; a release or delete |
| `LoadsAlert`, `Mails`, `NotesAlert` of a message | `SendPhishingAlertForMailLog` |
| `StartsDigest`, `ListsItems`, `Mails`, `NotesAlert` of `DigestLoop` | `RunQuarantineAlertDigests`, `digestSince`, `digestItems` |
| `LoadsUser` of a message; `FindsUser`, `FindsLatest` of `ReminderLoop` | `SendChallengeResponseAlertForMailLog`; `RunChallengeResponseDigests` |
| `ChecksDue`, `ClaimsAttempt`, `ListsPending`, `Reminds`, `Records` | `challengeDigestDue` and `sendChallengeOne` |

The clock moves by one whenever a time stamp is stored, so no two stamps are equal, and
by a pause (`Waits`) that is long enough for a backoff to end. A run that a pause
overtakes is `late`: its context of 10 or 30 seconds is over, its statements fail,
but an SMTP hand-off under way, which takes no context, still goes through. The
clocks of the API and of PostgreSQL are taken as one, and one API process runs
(each process has one loop of each kind). `told`, `missed`, `digested`, `noted` and
`fresh` are history.

### Disposition

`IngestHandler.handle` up to the point where it persists. Each action is one stretch of
the handler between two reads of the database or of a feed, in the order of the code;
the detectors and overrides are operators on a verdict (disposition and reason).

| Model | Code |
|---|---|
| `Decides`: `Decided`, `AfterBounce`, `AfterAuth` | `decide`, the exception for bounces, the authentication gate |
| `ReadsLists`: `AfterSenderList`, `AfterRspamdBlock`, `AfterReputation` | `applySenderListAction` and the allow list's blocked reasons, the symbol the milter sets, the reputation symbols |
| `ReadsFeeds` | the feed lookup, made only while the message is not held, and the symbol a hit leaves |
| `Detects`: `AfterScam`, `AfterBrand`, `AfterThreat` | `AnalyzeCommonScam` with the policy's switches, `scoreBrandClaim` with its points, `classifyThreat` over a Go map (any telling symbol may come first) |
| `AsksApproval`: `AfterChallenge` | `applyChallengeResponseHold`, mailbox mode merged with the policy |
| `ReadsLearned`: `AfterLearned`, `AfterQuarantineFirst` | the recipient's own verdicts and the last pass of the lists |
| `Records`: `AfterDeepAnalysis`, `EntryClass`, `HighConfidence`, `AfterCampaign` | the deep-analysis hold, the class of the entry, and what a policy's campaign action makes of a copy past the threshold; whether it is past it is an input here and counted in `Campaign` |
| `GivesUp` | the reads whose failure ends the request without a decision |

Words, scores and symbols are abstracted to what the chain asks of them.

### Decisions

A request is checked (`Starts`) and then runs a program of statements; `Runs` and
`Fails` take one statement of any request, so requests interleave between any two.
`Program` gives the statements of each kind: the mailbox screen (`MailboxProgram`),
the quarantine screen (`HeldProgram`), the mail log screen (`LogProgram`) and the list
screen. `Replace` is the DELETE and INSERT of `UpsertDecision`; `Learn` and
`LearnBlocked` are `classifier.Learn` and `recordQuarantineClassification`; `Soft` says
whose failure is only logged. `AddsDomain` is the trigger that protects the
gateway's own domains from block rules. `Effective` and `Learnt` are the look-ups of the ingest
handler. `done`, `hurt` and `rivals` are history: a property about a decision holds
of one that no other request on the same thing ran with or after.

### SmtpEvents

Messages whose mail logs carry one queue id, which Postfix uses again once a message
has left the queue. `Arrives`, `InsertsLog`, `CallbackDies`, `MtaHears`, `MtaTimesOut` are
the milter and its callback; `Settles` and `Defers` are what Postfix logs for each
recipient (external); `ReadsLine`, `Sends`, `GivesUp`, `Breaks`, `Restarts` the
forwarder with its two attempts, its uncaught connection error and `tail -n0 -F`;
`Ingests` and `Fails` the API's transaction: the event row and the outcome on the
nearest mail log within the window (`Target`, `Outcome`). The clock counts windows,
and what takes seconds ends within a tick. `said` and `late` are history.

### Accounts

A request is authenticated by a session (`Authenticated`, the middleware), by a password
(`SignsIn`) or by a code (`GivesCode`); `Admits` is what the handler reads before it
writes; `Runs` and `Fails` take its statements one at a time (`Program`). `Sweeps`,
`Revokes` and `Opens` are statements on `sessions`, `Writes` those on a row of `users`,
`Deletes`, `Inserts`, `InsertsOrg` and `DeletesOrg` carry the schema's foreign keys with
them (`SessionsWithout`: CASCADE and SET NULL). `ResetsAdmin` is the console. Passwords
and secrets are version numbers. `Tree` is what `ScopeForIdentity` reads: an organisation
and all below it at that time. Each session remembers the password it was opened on
and who signed in (history).

### Brands

`Boots` seeds the table over what is there (`EnsureDefaults`), `Asks`, `Reads`, `Stores`
and `FallsBack` are a load of a process's copy (`ProtectedProfiles`), `Opens`, `Writes`
and `Applies` an administrator's edit, which reads the row, checks the merged one, writes
all columns and drops the copy of its process; `StartsRefresh`, `Imports`, `EndsRefresh`
the feed. `Ticks` ages copies and loads. A process may run another build with
other built-in brands and priorities; a start raises the priority of any built-in brand, reviewed
or not, to the one of its build (`Raised`). Of what an edit may change, domains (with
aliases), protection, priority and activity are modelled. `asked`, `passed`, `raced` and
`wrote` are history.

## 3. What is checked

All runs use `CHECK_DEADLOCK FALSE`: a message whose life is over, or a set of
requests that have all been answered, is a state in which nothing more needs to
happen.

| Run | Question | Bounds |
|---|---|---|
| `deep_faults` | Under every fault, with an operator: delivered at most once by the hold (`DeliversOnce`), and only on clean scans (`ReleaseRestsOnCleanScans`); no second held copy (`OneHeldCopy`); a discarded original is kept (`DiscardedIsKept`); `released` means done (`ReleasedIsDone`); every hold settles (`HoldSettles`); implements `MailHold` (`ImplementsHold`) | 2 scans on 2 workers, each clean, malicious or failed, 1 manual delivery |
| `deep_calm` | Without faults or deadline the callbacks alone settle the hold, and clean mail arrives (`CleanMailArrives`) | 3 scans, 2 on one worker, of any result |
| `campaign_faults` | One investigation per campaign (`OneInvestigation`); a discarded copy has its own original or its representative's (`DiscardedIsStored`); excluded holds keep their record (`ExcludedKeepsItsRecord`) | 3 copies, threshold 3 |
| `quarantine_faults` | Released and sent mean relayed (`ReleasedWasRelayed`, `LogTellsTruth`); of every entry a finished release either reports a failure or has sent it and taken it out of the hold (`ReleaseAccounts`); a finished release never comes back (`QuietStays`); verdicts spare what was released (`VerdictSparesReleased`) | 2 requests of any of six kinds, one for each course a handler can take, 2 entries |
| `notify_faults` | A message is forgotten only if it was on its way while a notice was being sent (`ForgottenOnlyMidNotice`); an hourly reminder keeps its cadence (`ReminderKeepsCadence`); a digest repeats nothing (`DigestListsOnce`) | 2 messages, pauses of 6, cadence 8, lookback 10, clock up to 15: two pauses and 2 stored stamps, or one and 8 |
| `notify_find_due` | *violated*: a newly held message still triggers an immediate reminder | 2 messages, no fault |
| `disposition_all` | Hard evidence is never overruled (`HardEvidenceHolds`); with verified sources, strict approval lets an allowed sender through only from one (`AllowedIsVerified`); mail held for failed SPF, DKIM or DMARC alone stays held for that (`AuthHoldStands`); inbound mail is refused only for a block or as a flood the tenant chose to reject (`RefusedOnlyAsBlocked`) | 4 scores, 6 authentication results, 7 sets of symbols, 5 of words, 4 of claims, 3 policies with one campaign action each, 2 mailbox modes; every list, feed and learned answer, below the campaign threshold and past it |
| `disposition_auth_only` | *violated*: every authentication-only hold, also for a DMARC policy or for missing results, is exempt from the campaign's action | as `disposition_all` |
| `decisions_faults` | A decision is never half replaced (`DecisionSurvives`), a block takes effect (`BlockTakesEffect`) and settles the entry (`BlockSettlesEntry`), a cleared sender is cleared (`ClearedIsCleared`), a verdict is overwritten only by one on the same copy (`VerdictIsOwn`) | 2 requests of any kind, any statement may fail; 3 messages: two copies of a campaign, one pending |
| `smtp_faults` | An outcome is of that message (`OutcomeIsTrue`), alarms stand (`MismatchStands`), outcomes move forward (`OutcomesMoveForward`), no line blocks the log (`LinesAreHandled`) | 2 messages sharing a queue id, 2 recipients each, 2 lines, window 1, clock 2, all decisions, all faults |
| `accounts_faults` | Sessions of an old password end (`OldPasswordEnds`), an enrolled secret was proved (`EnrolledIsProved`), impersonation gives everyone their own session back as long as their account exists (`OwnerIsKept`), accounts change only by those responsible, whatever became of the organisations since they were checked (`ChangesAreOwn`) | a request of nine kinds, one of any kind and a third that is a code or the end of an impersonation, one reset from the console; 4 people on a tree of 3 levels |
| `brands_faults` | A protected brand keeps domains (`ProtectedHasProfile`), copies are no older than promised and one load (`EditTakesEffect`), an edit is seen where it was made (`EditSeenHere`), reviewed brands change only as edits say, but for a priority a start raises (`ReviewedStands`) | 2 processes, 1 load, 2 requests, one built-in and one observed brand, priorities 0 to 2 with 1 the built-in one, time to live 2, load time 1 |

**Why the bounds are enough.** The races are between pairs of steps: two callbacks
and the ingest handler (two scans give two callbacks, and a third scan adds one
that shares a worker); a copy that reads the counters before and one that reads
after the representative exists, plus one that loses the insert (three copies; a
threshold of 3 is reached by the last only); two requests on the same entry, with a
second entry so that a bulk action has something to go on with. The threshold of
the campaign is the smallest that lets a copy below it become the representative.
A message that arrives before a notice, and one that arrives while it is on its way,
are the two messages of `Notifications`; one pause ends a
backoff, two end a cadence, and the lookback lets a digest resume at its last one
or at the cap (a backoff is shorter than a cadence and a cadence than the cap, as in
the code).
Copies and requests are interchangeable, as are messages to notify about, so the safety
runs of `Campaign`, `Quarantine` and `Notifications` use symmetry, and that of `Brands`
for its processes; runs with liveness do not.
In `Quarantine` a verdict and a block end in the same UPDATE, and the mail log screen's
forms differ from the others in working on what is held and in storing their rule
first; `logBlock` stands for them (the theorems below are about all ten kinds).
A reminded user of `notify_faults` takes alerts at once, so that the digest loop, which
has nothing to list for that user, stands still.
In `Decisions` a violation needs a decision and one that meddles with it; the three
messages give a campaign to correlate, a subject without words, and mail that awaits
approval. In `Accounts` the three levels give an administrator above, one beside and
one below; a third request is needed where a session is swapped twice or a login gets
its code. `SmtpEvents` needs two messages with one id, and lines enough for the outcomes of two
recipients of one, or one of each message; the theorems below cover any number of lines
and any window. One load and two
requests in `Brands` let a load straddle an edit and an edit another edit; ages stop at
the point from which nothing depends on them. The first request of `Accounts` leaves out
the kinds that only change a row once (they come second), what is first being whatever
can be half way when the second begins to matter.

**Bounds that are not inputs.** `MaxManual` (deliveries by hand), `MaxTime` (the clocks of
`Notifications` and `SmtpEvents`), `MaxLines`, and the number of requests cap what would
go on for ever; an action beyond them is disabled, so the runs show what happens
up to them.

**Fairness.** `deep_faults` and `deep_calm` use `FairSpec`: weak
fairness of the ingest handler, the milter, each worker and each callback, which
are running goroutines and processes that nothing blocks for ever (every call has a
timeout), and of the minute loop, a ticker that runs as long as the API does. The
operator, the sender and the faults owe nothing. Dying counts as a step of the
handler that dies: liveness must survive it through the deadline.

`smtp_faults` uses the fairness of `SmtpEvents!Spec`: the forwarder's loop runs on, and the
API handles or fails every request (its context has a timeout). Postfix, the senders and
the faults owe nothing; a broken connection ends the loop for good, which the
property admits.

**Disagreements.** Two runs end in a violation on purpose (`PROJECT.json`, `findings`):

* `notify_find_due`: a comment promises that newly held mail still triggers an immediate
  reminder, and a message held while another reminder is on its way gets none.
* `disposition_auth_only`: the documentation exempts authentication-only holds from flood
  suppression (`docs/campaign-protection.md:23`), and `campaign.go:153` recognises one
  of the four wordings such a hold may have; the other wording it looks for,
  "authentication unavailable", nobody writes. A flood of mail held for a DMARC policy or for
  missing results is rejected or discarded by the campaign's action.

Further disagreements between code and text that the models reproduce, without a run
of their own; where a property above would be false because of one, it says so:

* A hold is released as soon as the AI scan and the scans *inserted so far* are clean,
  while the ingest handler still queues others (`scan.go:388`; the comment at
  `quarantine.go:192` says after all scans).
* A malicious verdict after the release creates a held entry, without a message, for mail
  that was delivered: the log row still says quarantined (`reports.go:137`; the comment at
  `reports.go:134` says no held copies are created).
* A hold's entry is committed before its quarantine blob is inserted. When that insert
  fails, the entry is still the campaign's representative and later copies are discarded
  against it, although there is nothing to release; the original is then only with the mail
  log (`ingest.go:287`; `docs/campaign-protection.md:9` says the representative is kept with its
  original message). `DiscardedIsStored` asks for the original, not for the blob.
* Under the discard action a copy is thrown away when it is not the first to be
  counted, whether or not the first left a record (`ingest.go:205`;
  `docs/campaign-protection.md:9`).
* A copy in deep analysis that is suppressed as a duplicate is neither scanned nor held, and
  later times out as "remains held" (`campaign.go:148`, `scan.go:442`).
* Releasing pending mail from the mail log creates no allow rule (`quarantine.go:163`;
  `docs/use.md:47` says releasing does).
* A phishing symbol only tags a message (`ingest.go:966`), and mail that is only tagged may
  be offered for approval (`ingest.go:988`; `docs/use.md:46` says never).
* Under strict approval a sender nobody allowed is let through once the recipient has
  declared similar mail wanted: `applyLearnedClassification` (`ingest.go:160-162`, `739-745`)
  comes after approval and delivers what is held for no hard reason, a brand or scam
  quarantine included. Bounces never wait for approval (`docs/use.md:45-46` says every other
  inbound sender is held and detected phishing remains threat quarantine). The theorem
  `StrangersNeedVerdict` states these exceptions.
* A tenant's campaign action `reject` refuses held mail past the threshold with a reason of its
  own (`ingest.go:198-202`), so a block is not the only refusal of inbound mail, although
  quarantine-first (`ingest.go:1210`) turns every other rejection into a hold.
  `RefusedOnlyAsBlocked` names both.
* When an administrator who is helping a user is deleted, the session loses its mark and goes on as
  a plain session of the user (`00006_admin_actions.sql:11`, `ON DELETE SET NULL`; its comment,
  lines 7-8, says this keeps things safe). `OwnerIsKept` says nothing of an owner whose account is
  gone.
* Every start of a process raises the priority of a built-in brand to the one of its build, also
  after an administrator has lowered it (`catalog.go:144`; `docs/brand-intelligence.md:48-50`
  offers changing it). `ReviewedStands` excepts exactly that.
* A release that finds no usable gateway leaves the entry held without a row in the sent mail log
  (`quarantine.go:575`); the failure shows only in the answer, or in the mail after a background
  job.
* Changing a password ends the session it was changed from as well (`users.go:417` says
  the current one stays valid).
* `MFAConfirm` checks a code against the secret it has read and then enrols the
  account with whatever secret is stored (`mfa.go:56`).
* The PhishTank feed is not in the registry that refreshes feeds (`cmd/api/main.go:96`),
  so it is refreshed only on request (`docs/brand-intelligence.md:23` says hourly).
* A copy of the catalog is dated when it is stored, so it may be a load older than the
  five minutes `catalog.go:39` names.

## 4. What is proved

TLAPS checks the proofs in the `*Proofs` modules for every value of the constants:
any number of scans, workers, copies, requests, entries, messages, accounts, processes and
brands, any tree of organisations, any delays, any mail and verdicts, any policy, any
inputs, any set of faults. They rest on the named assumptions of the modules
(`NAssumption`, `KindAssumption`, ..., `InputAssumption`), which only say what kind of
value each constant is, that the organisations of the start are closed upwards
(`FirstOrgsAssumption`) and that mail awaiting approval is held (`MailAssumption` of
`Decisions`), and which TLC evaluates on every run.

| Theorem | Statement | Inductive invariant, and why it is needed |
|---|---|---|
| `DeepAnalysisProofs!TypeCorrect` | `Spec => []TypeOK` | `TypeOK` |
| `DeepAnalysisProofs!HoldDeliversOnce` | `Spec => []DeliversOnce` | `ReleaseInv`: the claim is won while the hold is pending, and it never is again (`OneClaim`); only the winner is in the release code, and until its send nothing was sent (`NotYetSent`). `DeliversOnce` says nothing of *who* may send, so it is not inductive |
| `DeepAnalysisProofs!HoldRefines` | `Spec => ImplementsHold` | `ReleaseInv` again; each action maps to one action of `MailHold` or to a stutter |
| `DeepAnalysisProofs!ReleaseIsGrounded` | `Spec => []ReleaseRestsOnCleanScans` | `ScanInv`: scans are enqueued in the order of their number and each passes through Redis, worker and callback once (`ScanOrder`), so what a callback counted up to its own scan cannot change before it claims (`ClaimBasis`) |
| `DeepAnalysisProofs!OneCopyIsHeld` | `Spec => []OneHeldCopy` | `CopyInv`: log row, entry, message and answer come in that order (`EntryOrder`), and `RecordFromScan` inserts only while nothing is held (`HeldOnce`) |
| `DeepAnalysisProofs!DiscardedStays`, `ReleasedMeansDone` | `Spec => []DiscardedIsKept`, `Spec => []ReleasedIsDone` | `CopyInv` again: whoever is about to mark an entry released has sent it (`MarkedIsSent`), and a release loop ends only on an entry that was released or deleted (`LoopsUntilDone`), although the operator works on the same row |
| `CampaignProofs!TypeCorrect` | `Spec => []TypeOK` | `TypeOK` |
| `CampaignProofs!OneInvestigationOpens` | `Spec => []OneInvestigation` | `FloodInv`: alerts and scans come after the entry, and the unique index lets one copy of the flood have an entry |
| `CampaignProofs!NothingDiscardedIsLost` | `Action # "discard" => (Spec => []DiscardedIsStored)` | `StoreInv`: original before entry before representative (`OriginalComesFirst`); whatever may still be discarded is `Backed`, by its own original or its representative's. Under the discard action the statement is false (see the disagreements above) |
| `CampaignProofs!ExcludedKeepTheirs` | `Spec => []ExcludedKeepsItsRecord` | `OwnRecord`: for each position of the handler, what a copy that flood protection excludes has stored; its insert never meets the unique index, because it is not of the campaign |
| `QuarantineProofs!TypeCorrect` | `Spec => []TypeOK` | `WorksOnEntry`: a handler between two statements of a release has an entry |
| `QuarantineProofs!ReleasedMeansRelayed`, `SentMeansRelayed` | `Spec => []ReleasedWasRelayed`, `Spec => []LogTellsTruth` | `AcceptedWasRelayed`: between the relay's answer and the UPDATE, only the position of the handler knows |
| `QuarantineProofs!NoReleaseComesBack` | `Spec => QuietStays` | an action property; the lemma goes through every action and shows that none puts an entry that has left `held` back into the hands of a release |
| `QuarantineProofs!ReleasesAccount` | `Spec => []ReleaseAccounts` | `AskInv`: every entry a release was asked for is still to come, is being worked on, has been given up, or was sent by this release and is not held any more; the last two never end, whatever another request does |
| `QuarantineProofs!ReleasedIsSpared` | `Spec => VerdictSparesReleased` | an action property: only the UPDATE of a delete request on that entry moves it from `released` to `deleted` |
| `NotificationsProofs!NotificationsTypes` | `Spec => []TypeOK` | `ClaimTimes`: the time of a claim is that of an earlier look at the clock |
| `NotificationsProofs!NothingElseForgotten` | `Spec => []ForgottenOnlyMidNotice` | `Accounted`: whatever was logged before the stamp of a recorded notice was listed by it or is known to be missed. That needs `Stamped`: an entry is inserted after its mail log, neither in the future; so the stamps of what awaits approval have a greatest (lemma `Greatest`), and the latest message there is one that awaits approval |
| `NotificationsProofs!CadenceKept` | `Spec => ReminderKeepsCadence` | `ReadsRecorded`: while no reminder was handed over since the last recorded one, a run that read the user's row since then knows of it, and if it is on its way to remind, it is due by its own account; stale readers are exactly those not in `fresh` |
| `NotificationsProofs!DigestsDisjoint` | `Spec => DigestListsOnce` | `Resumes`: what digests have listed is stamped no later than the last recorded one, and the one under way selects from there on; `OneCadence`: no alert moves that stamp meanwhile, as a user has alerts or digests |
| `DetectionProofs!PipelineTypes` | `Pipeline => []PipelineTypeOK` | `PipelineTypeOK` with the reasons each stage may leave |
| `DetectionProofs!HardEvidenceIsKept` | `Pipeline => []HardEvidenceHolds` | `EvidenceInv`: up to the approval and learned stages, the message is held *for a reason no later override may lift*; that it is held is not enough |
| `DetectionProofs!BlockWins`, `OnlyBlocksRefuse` | `Pipeline => []BlockedIsRejected`, `Pipeline => []RefusedOnlyAsBlocked` | `BlockInv`: from the lists on, a blocked sender's message has exactly the verdict *rejected, blacklist*; that reason is what every later override skips, the disposition alone would not stop quarantine-first. From quarantine-first on, inbound mail is rejected for that only, until the campaign's action |
| `DetectionProofs!StrangersNeedVerdict`, `AllowedNeedsProof` | `Pipeline => []StrangerNeedsVerdict`, `Pipeline => []AllowedIsVerified` | `ApprovalInv` on top of `EvidenceInv`: after the approval stage strict mail of a sender nobody allowed is held, and an unverified allowed sender's for a reason that neither a verdict *wanted* nor the allow list lifts |
| `DetectionProofs!AuthHoldsStand` | `Pipeline => []AuthHoldStands` | `AuthHoldInv`: at each stage such mail is held with the very reason of failed authentication, or for approval; only that reason, or the class that goes with approval, keeps the campaign's action off |
| `DecisionsProofs!TypeCorrect` | `Spec => []TypeOK` | `IInv`: what a request has left to run are statements that fit it (`Programs`, from lemmas about each of the programs), a request in progress is a rival of all others (`Rivalry`), and unless one of its statements failed its forget is followed at once by its store and it learns before it forgets (`Order`) |
| `DecisionsProofs!BlocksTakeEffect` | `Spec => []BlockTakesEffect` | `BlockInv`: the rule is still to be stored, stands, or was withdrawn by the trigger, and otherwise a rival works on the same key |
| `DecisionsProofs!DecisionsSurvive` | `Spec => []DecisionSurvives` | `SurviveInv`: a key has a rule unless a rival is exactly between its DELETE and its INSERT, or failed there |
| `DecisionsProofs!SendersAreCleared` | `Spec => []ClearedIsCleared` | `ClearInv`: the sender is still to be unlearned, or is unlearned and the request has nothing left to learn |
| `DecisionsProofs!BlocksSettle` | `Spec => []BlockSettlesEntry` | `SettleInv`: the class is still to be written, or the entry is settled, or a rival works on the same entry |
| `DecisionsProofs!VerdictsAreOwn` | `Spec => VerdictIsOwn` | an action property, from `IInv`: a statement names the message of its request |
| `DetectionProofs!BrandsTypes` | `Spec => []TypeOK` | `Domains` with `UpInv` (a process that is down keeps nothing) and `FeedInv` (what a refresh has stored stays) |
| `DetectionProofs!ProtectedStayKnown`, `ReviewedRowsStand` | `Spec => []ProtectedHasProfile`, `Spec => ReviewedStands` | `TableInv`: what an edit has read, merged with its change, is acceptable *as it was read*, and an edit nobody raced with still holds the row it replaces, but for a priority that a start raised meanwhile |
| `DetectionProofs!EditsReachEveryone`, `EditsAreSeenHere` | `Spec => []EditTakesEffect`, `Spec => []EditSeenHere` | `CopyInv`: ages of copies and loads bound how long ago they were read; a load or copy without the edit is marked as having been passed by it |
| `SmtpEventsProofs!TypeCorrect` | `Spec => []TypeOK`, with at most two event rows for a line | `AttemptInv`: the rows of a line and the requests about it that are under way are together no more than the attempts made so far (`Spent`); no two requests are the same attempt, which holds only because a line is read once (`OrderInv`). `OpenInv`: a message in the queue has a recipient left |
| `SmtpEventsProofs!AlarmsStand` | `Spec => MismatchStands` | `MailInv`, `EventInv` and `AlarmInv` |
| `SmtpEventsProofs!OutcomesAreTrue` | `Spec => []OutcomeIsTrue` | messages that share a queue id are more than a window apart (`MailInv`), and an event is handled in the tick it was logged in, and its message is in the queue or has left it in that tick (`EventInv`): hence the mail log found is the right one (`TargetIsOwn`) |
| `SmtpEventsProofs!OutcomesAdvance` | `Spec => OutcomesMoveForward` | `OrderInv`: while the forwarder waits, no event handled or being handled is of a later line, and every other request is one it has given up |
| `AccountsProofs!TypeCorrect` | `Spec => []TypeOK` | `IInv` (below) with `Referring`: rows name passwords and secrets given so far, organisations are closed upwards |
| `AccountsProofs!OldPasswordsEnd` | `Spec => []OldPasswordEnds` | `StaleIsSwept`: whoever makes a session stale has its sweep as the *very next* statement; `Alive`: a session that authenticates has its account, so that an account inserted later finds none |
| `AccountsProofs!EnrolmentIsProved`, `OwnersAreKept` | `Spec => []EnrolledIsProved`, `Spec => []OwnerIsKept` | `AsOwner`: a request goes on as the owner of the session it was authenticated by, even when that session loses its mark; `StartsPlain`: past its check, a request to help comes from a plain session. A session whose marked owner was deleted is excepted by the statement itself |
| `AccountsProofs!ChangesAreEntitled` | `Spec => ChangesAreOwn` | `Entitled`: a request that is past its check is its owner's or that of an administrator above the account, and gives a role it may give. It was found so in the organisations there were at the check; it stays so because what is above what never changes (`TreeIsBelow`: whatever `Tree` finds below an organisation has that one in its `Chain`) |

**Only model-checked.** Liveness (`HoldSettles`, `CleanMailArrives`,
`LinesAreHandled`), because it rests on fairness. Every safety
property of a passing run is a theorem. The recursive query over the organisations is
written as the least set that is closed under it, not by recursion: TLC enumerates it and
the prover reasons about it without induction.

## 5. What is not modelled

* The parsing of headers and bodies, from which the facts are taken that the decision
  pipeline looks at; the texts and thresholds of the detectors.
* Text: headers, fingerprints, scores, addresses. Where a model needs to tell
  things apart it uses small sets.
* DNS, threat feeds, RDAP, PhishTank: answers of third parties; and the cache of feed
  answers in Redis, whose staleness `Disposition` covers by taking any answer.
* Passwords and codes as such, the expiry of sessions and challenges by time, the
  rename and the status of organisations, sign-in by an e-mail link.
* The resolution of policies and the storing of settings, domains, gateways, billing and
  audit rows: single statements on which nothing waits.
* Screens that only read, single-statement administration, the web interface,
  migrations and deployment scripts. Constraints of the schema the code relies on
  are modelled where they matter (the unique index on campaign representatives, the
  foreign key of the sent mail log).
* The text and the recipients of notices, the weekly cadence (daily with another
  constant) and the limits of 50 and 25 messages that a notice lists: a digest
  counts what it leaves out.
* PostgreSQL runs at READ COMMITTED; each statement is atomic in the models, and
  ingest has no transaction around its statements, which is why each is a step.

## 6. Plan

1. The threat feeds' cache, with its two times to live and its refresh timers.
2. The review screens of phishing reports and the abuse reports of the quarantine.
