# Verification of Webprobe

TLA+ models of Webprobe's scans, audits, mails, rights and data, wherever
processes, a database, a queue or the network can get out of step, with TLC runs
on small instances and TLAPS proofs, for every size, of its core. Source paths
below are relative to the repository; `worker/` stands for `apps/worker/src/` and
`web/` for `apps/web/src/lib/`.

## 1. The system

A user's site is scanned on demand, every week, or by a public audit. A scan is
a row of Postgres; BullMQ (Redis) carries the job that executes it. No
transaction spans both, so every hand-over between them can be half done. What
a scan observes becomes findings, alerts, matches with known vulnerabilities
and reports, each written by transactions of its own.

| Component | State | Operations | Interacts through |
|---|---|---|---|
| Scan creation (`web/manual-scan.ts`, `public-audit.ts`, `report-share.ts`) | scans, dispatches, quotas | create a scan, share a report | rows, advisory locks |
| Sites and schedules (`web/site-*.ts`, `scan-schedule.ts`, `worker/scan-scheduler.ts`) | sites, schedules and their cursors | import, create, delete, schedule, create due scans | rows, locks |
| Ownership and grants (`web/site-verification.ts`, `deep-audit-grants.ts`) | challenges, proofs, grants | issue, verify, refresh, revoke | rows, DNS |
| Dispatch coordinator (`worker/scan-dispatch.ts`, every 2 s) | `scan_dispatches` (status, attemptCount, lease) | claim, enqueue, mark, retry, restore | rows, BullMQ `add` |
| Reconcilers (`worker/scan-scheduler.ts`, every 30 s) | `scans` | cancel invalid ones, repair orphans | rows, BullMQ job states |
| V2 worker (`worker/index.ts`, `scan-retry.ts`, `scan-processor.ts`, `scan-persistence.ts`) | `scan_attempts`, scan status and results | begin, start, collect, persist, fail | BullMQ retries and stalls |
| V2 network (`worker/browser-scan.ts`, `http-probe.ts`, `scanner-v2/`) | one crawl, its captures and requests | read robots.txt, navigate, capture, fetch | the site |
| Deep worker (`worker/internal-deep-worker.ts`, `worker/scan-engine/`) | leased attempts, ledger, `scan_check_runs` | prepare, claim, authorize, collect, persist, release | leases in Postgres, DNS, the site |
| Deliveries (`worker/notification-delivery.ts`, `report-delivery.ts`) | delivery rows with leases, incidents | claim, send, mark, retry | SMTP |
| Follow-ups (`web/finding-followup.ts`, `worker/finding-followup-state.ts`) | `finding_remediations` and their history | decide, observe | rows |
| Screenshots (`worker/scan-artifacts.ts`, `artifact-cleanup.ts`) | files, intents, `scan_artifacts` | reserve, write, clean up | file system |
| Vulnerability data (`worker/vulnerability-sync*.ts`, `vulnerability-correlation.ts`, `web/vulnerability-review.ts`) | runs, cursors, advisories, matches, reviews | fetch a window, import, reconcile, review | HTTP feeds, rows |
| Third parties (`web/third-party-service.ts`, `stacklegal.ts`) | decisions, snapshots, a cache | confirm, ignore, reset | HTTP, rows |
| Comparisons (`packages/contracts/src/scan-completeness.ts`, `web/`) | none | compare two scans | rows |

`PROJECT.json` lists every component, the unmodelled ones with the reason, and
every hazard at its line with the properties that watch it.

What makes these hard: several dispatchers and workers may hold the same scan;
BullMQ hands a job out again while its first execution still runs (a "zombie");
reconcilers decide with an answer of the queue that is old when they write; a
process dies between any two statements; a statement's effect and its answer are
apart; a lookup, a fetch or a send happens outside the transactions before and
after it; transactions read rows they do not lock; budgets are reserved by
several transports at once; "complete" is claimed of data that came in the
background.

What makes each part correct:

* **Creation, dispatch, reconcilers**: one active scan per site; a queued scan is
  never stranded; an old claim's mark never vouches for a newer claim; scans and
  dispatches reach a final status; no quota is exceeded by requests that count
  at the same time; locks never close a circle.
* **V2 executions**: a completed or cancelled scan never changes again; attempt
  rows of concurrent executions stay ordered.
* **Deep leases**: one holder at a time; only the holder writes results; nobody
  closes a scan that is held; transports are closed before the lease ends.
* **Network**: an audit stays within its profile on the wire; no document is
  requested against robots.txt; no connection is made to an unchecked address;
  what is called complete, full or observed is whole.
* **Deliveries**: an alert is mailed once unless a failure pays for more; nothing
  open remains of a revoked share; incidents follow the order of mails; all
  deliveries settle.
* **Ownership and grants**: the proof written is the one that was looked up;
  nothing is stored under a grant revoked meanwhile.
* **Data**: an advisory behind the cursor is in the catalogue; matches catch up
  with observations and advisories; a review hides only what was reviewed; the
  history of a follow-up explains it; readers of two scans agree.
* **Screenshots**: what is shown has its file; a file nobody shows is led to by a
  task, and leaves; nothing of a deleted scan is shown.

## 2. Modules

| Module | What it is |
|---|---|
| `ScanContract` | what readers of scan statuses may rely on |
| `ScanLifecycle` | V2 scans of one site: creation, dispatch, reconcilers, worker, BullMQ, site |
| `DeepContract` | fencing: holders one after the other, each under a newer epoch |
| `DeepLease` | one Deep scan: workers, leases with time, monitors, reconciler, DNS |
| `ArtifactContract` | what those who show screenshots may rely on |
| `Artifacts` | files, rows and cleanup journal of a site's screenshots |
| `Notifications` | alerts of a recipient on a site, their mails and incidents |
| `ReportShares` | shared reports, their mails, revocation and retention |
| `Correlation` | observations, matches and reviews of one advisory |
| `Quotas` | transactions that count before they insert, and their locks |
| `OwnershipProof` | challenges and the proof of a site |
| `DeepGrants` | grants of Deep audits, revoked while attempts run |
| `FindingFollowup` | the status of one finding between people and scans |
| `ScanComparison` | what four readers tell of two scans |
| `SiteCreation` | onboarding, creation and import of sites |
| `WeeklySchedule` | the cursor of a schedule in wall time, and its claims |
| `ThirdPartyDecisions` | confirmations with snapshots fetched through a cache |
| `AuditNetwork` | probe, browser and proxy of a Deep audit against its ledger |
| `ObservedPerformance` | what a Deep audit tells of the loading of its page |
| `VulnerabilitySync` | windows, cursors and imports of the advisory feeds |
| `VersionMatching` | versions against rules of advisories (pure) |
| `RobotsPolicy` | parsing and matching of robots.txt |
| `Crawl` | the browser crawl of a V2 scan |
| `ResponseCapture` | the metadata read behind a crawl, and the final wait |
| `BoundedFetch` | requests of the worker beside the browser |
| `MCScanLifecycle`, `MCDeepLease`, `MCArtifacts` | instances, regions, symmetry |
| `Mail` | `Notifications`, `ReportShares`, `Correlation` with their fairness |
| `Components` | the other modules, each a part of one specification |
| `MCMail`, `MCComponents` | the values of their constants for TLC |
| `ScanLifecycleProofs`, `DeepLeaseProofs`, `ArtifactsProofs` | theorems of these modules |
| `MailProofs` | theorems of `Mail`: alerts and reports |
| `PartsProofs` | theorems of `ObservedPerformance`, `RobotsPolicy` and `WeeklySchedule` |
| `NetworkProofs` | theorems of `Components`: what is asked of the network |
| `VulnerabilitySyncProofs` | theorem of `VulnerabilitySync` |
| `RecordsProofs` | theorems of `Components`: what the web application and the synchronization record |

`ScanLifecycle` implements `ScanContract`, `DeepLease` implements `DeepContract`
and `Artifacts` implements `ArtifactContract`; the runs check it and the proofs
show it. `ScanLifecycle` composes creation, dispatch, reconcilers, worker, queue
and site, since these write the same rows. The modules that `Mail` and
`Components` instantiate share no variables with each other: where one depends
on another's component (`Crawl` on what robots.txt says, `DeepGrants` on the
proof of the site, `Notifications` on the outcome of scans), the other's answer
is chosen freely among those it can give, and the name of the module that
computes it is in a comment.

Definitions whose comment says "Mutant" or "Mutated" are not part of a model:
each is the definition after it with a plausible mistake, and shows that a
property notices it.

### ScanLifecycle

One database transaction is one action, and so is one call of BullMQ, except a
claim that cancels. Its select locks the dispatch rows only
(`scan-dispatch.ts:176`), and a worker may start the scan between that read and
the cancellation, whose update of the scan then matches nothing while the
dispatch is cancelled all the same: `ClaimReadsInvalid`, then `ClaimCancelled`.
Such a scan runs on with a cancelled dispatch, and is still retried, recovered
and settled. Reads before a transaction are actions of their own too: the
answers of the queue (`Inspect...`) and the number of attempts (`CountAttempts`).

Each variable is a table or a process:

* `scan`, `dispatch`, `attempts`: rows of `scans`, `scan_dispatches`,
  `scan_attempts`. `NoActiveScan` and the guard of `StartScan` are the partial
  unique index `scans_site_active_unique`.
* `job`: BullMQ's job whose id is the scan's. `Add` does nothing when the queue
  still has a job of that id, even a finished one.
* `claims`: what a dispatcher holds between the claim's commit and its mark. The
  fence of both marks, `HoldsDispatch`, is `attemptCount`.
* `cancelling`: the dispatch rows such a claim holds locked; other claims skip
  them and other writers wait (`Unlocked`).
* `probes`: an answer of the queue that a reconciler has not acted upon yet.
* `exec`: the handler of `index.ts` in a slot, by the next thing it does. `Raise`
  and `WillRetry` are its catch: which errors close the attempt, which also fail
  the scan, which reach BullMQ for a retry.
* `site`, `schedule`: the eligibility the guards read. A manual scan checks the
  proof before its transaction, so `CreateManual` asks less than the check does.
* `accepted` is history: the queue took the job since the last claim.

Due times, leases of dispatches and the fifteen minutes of a stale scan can end
at any moment. A `"dispatching"` row is claimable at once when no claim of it is
in flight, and for one fault when its dispatcher is just slow. Everything the
environment does wrong (statement errors, lost answers, crashes, stalls of live
executions, lost jobs) costs one of `MaxFaults`.

### DeepLease

The same conventions, one scan, and time. `Tick` decreases what is left of each
lease in the database (`attempts[n].left`) and of each local watch
(`monitor[w].watch`), and is the only action that takes time. A claim or a
renewal takes effect first (`Claim`, `Renew`) and its answer comes up to
`AnswerDelay` later (`ClaimAnswered`, `RenewAnswered`); the watch starts from the
answer, as `armDeadline` does. `worker[w].pc` follows `runInternalDeepWorkerJob`
and `runDeepAuditCandidate`:

    prepare -> claim -> claimed -> held -> lookup -> confirm -> decided
            -> collect -> persist -> persisted -> release -> record -> settle

* `Current` is what `assertDeepLease` reads, `MayPersist` what the last
  transaction of `persistDeepCheckRuns` reads again.
* `Look` / `ProofFound` / `ProofMissing` / `ProofUnavailable` / `Confirm` are
  `deep-proof.ts` around `ensureSiteOwnershipProof`: a read, a DNS lookup outside
  any transaction, a refresh, a second transaction. A proof has a `generation`
  and the attempt that refreshed it last (`by`, the revalidation time).
* `Check` then `Contact`: `beforeNetwork` reads the lease and only then a socket
  is opened; both can be far apart.
* `Abandon`, `CheckFails`, `PersistRefused` and `StatementFails` differ in how
  the error is classified: a `DeepLeaseError` is retryable, an aborted transport
  or lookup is not, unless the process is shutting down.
* `Inspect` / `Reconcile` are the Deep branch of `recoverOrphanedRunningScans`
  and `reconcileStaleDeepScan`, on a job state read earlier.

Simplifications, each a superset of the code's behaviour unless said otherwise:
a renewal may start at any time instead of every five seconds; the reconciler
acts at any age of the scan; BullMQ's delayed and waiting jobs are both
"waiting"; one reconciler answer is in flight at a time. Narrower than the code:
timers fire on time (a blocked event loop is not modelled); running attempts
without a lease, which only an older version left behind, do not occur; a proof
does not expire during a run (its life is at least a day); the grant of
`deep-audit-grants.ts` is left to `DeepGrants`.

### Artifacts

A screenshot is a file, a row of `scan_artifacts` that shows it, and a row of
`artifact_cleanup_tasks` that leads to it while it is not shown. The variables
are these three (`final` and `temp`, `artifact`, `task`), the rows they depend on
(`site`, `scan`), and two kinds of processes:

* `writer[s]` is `persistPrimaryScreenshot` of scan `s`, called once, because
  `persistScanCompletion` lets one execution complete a scan:

      idle -> reserve -> reserved -> open -> written -> renamed -> over

  `Reserve` is the first transaction. `Begin` opens the second, whose row locks
  `Holds` keeps until `Publish` commits it; the disk is written in between.
* `cleaner[c]` is one batch of `purgePendingArtifacts`: the tasks it has locked,
  those it has not looked at, those whose file it removed. Two cleaners run at
  once when several workers tick or retention purges too.
* `Retain`, `DeleteSite` and `Stage` are one transaction each, and wait for the
  locks they need (`SiteFree`, `TaskFree`).
* `WriterFails`, `UnlinkFails`, `AbortBatch` are errors and crashes; what was done
  to the disk stays done, what was done to rows is rolled back. `Detach` is a
  connection that ends while the process waits for the disk: `lost` is set, the
  locks are free, and the process writes on until the next statement throws.

Grace periods, backoffs and retention periods can end at any moment, with one
exception: if `PromptWrites`, a writer that lost its transaction is done before
the ten minutes of its intent are over (and so before retention, which takes
days, or staging, which asks for a file a day old). Delete tasks have no grace
and are due at once, as in the code. Not modelled: report shares, which only
make `Retain` happen less; invalid keys and symbolic links, which are refused.

### Notifications and ReportShares

Both deliveries follow one pattern, of which each statement is an action: claim a
batch under a lease, send, mark as sent or retry, by `attemptCount`. `worker[w]`
is a process with what it claimed; `Dispatch(w)` is its next step and `Fail(w)`
(`Abandon(w)`) its crash or a lost answer. `LeaseEnds` and `BackoffEnds` can
happen at any moment: a slow process and an ended lease are the same thing here.

* `Notifications`: `PersistReads` / `PersistCommits` are the part of
  `persistCompletedScan` that compares a scan with the last one and reads the
  incidents, then writes the alerts; marks commit in between. An incident opens
  or closes in the transaction that marks the mail. `mails` is history. A scan's
  outcome for one finding is a severity, the coverage of its analyzer and the
  version of its metrics, and the module compares by the code's own rules.
* `ReportShares`: `Ask` is the eligibility that `report-share.ts` reads before
  its transaction, `CreateShare` and `RevokeShare` the transactions. The
  deliveries read the share at the claim, not at the send: a share revoked
  between the two is mailed all the same, and the link is dead. The module
  promises what the code does: nothing of a revoked share stays open.
  `ListCandidate` / `Purge` are the two steps of retention.

### Correlation and VersionMatching

An observation is a version seen by a scan, a match what an advisory says of it.
`worker[w].todo` lists the reconciliations a scan, an import or a cycle still
has to make; `Read` is the query of the rules, outside the transaction, `Write`
the transaction, so that two of them may overtake each other. `Begin` is the
cycle that reconciles every current observation. `Decide` / `Settle` are the two
halves of `setSiteVulnerabilityReview`. What a rule says of a version is
`VersionMatching`'s: triples of numbers, bounds that include or exclude, trust in
the observation, and the choice among several rules, against the intervals the
rule describes.

### Quotas

The transactions that insert are alike: take locks in an order, count rows in
windows, insert. `Lock`, `Count` and `Write` are these steps,
`LockOrder` the order of each. `Requests` have a kind, a user and a site; the
windows count `arrived`, which is noted before the locks are waited for, as in
the code. The locks of the scheduler, site deletion and retention are there for
`SomeoneGoesOn`: no circle of waits. Of report mails the property states the
windows of the organization and of the recipient; the hourly ones of the site and
of the sender have the same limit of 30 as the organization's day
(`report-share-service.ts:21-23`), which implies them.

### OwnershipProof and DeepGrants

A call reads a challenge or a proof, looks up the TXT record, and then runs the
transaction that confirms, refreshes or invalidates what it read. Tokens are
numbers in the order of issue. The record is edited at any time and an answer
may be an outage. `DeepGrants` adds the challenge of a grant, its revocation and
rotation (which end the leases of running attempts) and the attempts, which
store their results only if proof and grant are those they were allowed with.
`outlived` is history.

### FindingFollowup, ScanComparison

`ScanReads` and `ScanWrites` are the unlocked select and the writes of the
transaction that completes a scan; `UserUpdates` is `updateFindingFollowup`. The
pure decision between them is `finding-followup-state.ts`. `history` lists the
events as they were committed, which is what people and scans really did; the
database keeps `created_at`, the beginning of each transaction (`began`), and
`getFindingFollowups` sorts by it (`finding-followup.ts:80`). A scan that begins
before a person's update and commits after it is therefore read before it, and
the history as read need not end at the row's status. `HistoryExplains` says when
it does: unless two transactions overlapped. `ScanComparison` chooses
one finding and two scans and compares what the page, the mails, the overview
and the follow-ups say of them.

### SiteCreation, WeeklySchedule, ThirdPartyDecisions

* `SiteCreation`: the import takes a lock of the organization, checks its file
  against the sites it reads and inserts; `CreateSite` and `DeleteSite` do not
  take the lock, so an import can fail as a whole on the unique index.
* `WeeklySchedule`: a moment and the time on the wall are different; clocks are
  put forward at `Spring` and back at `Fall` by `Shift`, and `Wall` and its
  inverse read skipped and repeated time as Postgres does. Each worker ticks by
  its own clock, within `Skew` of the database's.
* `ThirdPartyDecisions`: `Ask`, the fetch through the cache (`Answered`,
  `NotAnswered`) and the two statements of the transaction (`ReadPrevious`,
  `Decide`), which locks nothing.

### AuditNetwork

The ledger reserves before each request, lookup, handshake and page, and adds
bytes as they come; the first refusal for bytes or time ends everything. The
probe is a sequence (`ProbeRequest` ... `ProbeAnswer`), each resource of the page
a process: `Route` (Playwright's handler) or `Unrouted`, `Target` and `Resolved`
(the proxy's lookup), `Tunnel` with its `Chunk`s for https or `PlainRequest` ...
for http. `proxy` holds the proxy's own counters, `traffic`, `refused` and `cut`
are history. `Analyze` computes the coverage that is stored.

`traffic` counts what is seen outside: lookups, the connections of the probe and
of the proxy, whether the request behind them was routed or not, and bytes. On
http a connection is a request sent. The ledger counts the requests of the route
handler, the proxy its connections, each up to the same limit
(`safe-browser-proxy.ts:582`), and the probe has its own; nobody adds them up. So
`TrafficWithinProfile` bounds the connections by the lookups and, on https, by the
handshakes of the profile, and by the limits of requests only the probe's and
the proxy's each: probe and proxy together may exceed these. What is sent inside
a tunnel without passing the route handler is counted by nobody.

### VulnerabilitySync

`Step(w)` is one step of a cycle: start a run (the running row is the lock, taken
over when it is stale), fetch a window, import its advisories one by one, finish
or fail. `nvd` is what the feed publishes, each advisory with the time of its last
change, `stored` the catalogue. Windows share their ends, which are inclusive;
the splitting of windows, the request budget, the retries within it and the
observed products are as in the code; the clock is coarse. A run overtaken by
`StaleAfter` goes on as the code's does. A window that had no cursor begins a day
back; `origins` are the starts of such windows that completed, so what the
catalogue must hold begins at all of them.

### RobotsPolicy, Crawl, ResponseCapture, BoundedFetch

* `RobotsPolicy` reads a file into groups, chooses ours, and matches a pattern
  with the loop of `ruleMatches`, one iteration per `Step`, under the budget of
  all rules. The property compares it with a definition by sequences.
* `Crawl` is `runBrowserScan` with the tracker: `Take` a page, `Request` it,
  perhaps `Redirected`, `Arrive` on the page or another one, or `Collapse`;
  `Extract` links and look at each `Candidate`. Documents of the page and of its
  frames pass the route handler (`Document`); redirects do not, since Playwright
  calls the handler for the first request of a chain only, and lead anywhere.
  `requestPolicy`'s branch for `redirectedFromUrl` (`browser-scan.ts:576-588`) is
  then never reached and not modelled. What the site answers is chosen when it is
  asked, the rules of an origin when they are read.
* `ResponseCapture`: slots reserved by responses, errors that take slots, reads
  that end at any time, the wait of `browser-scan.ts` and its timeout.
* `BoundedFetch`: `Check` the URL, resolve, `Connect` to a resolved address,
  `Redirect`, `Receive`. DNS may answer something else each time.

### ObservedPerformance

The handlers of `request`, `response`, `requestfinished` and `requestfailed`, the
two reads behind them (`HeadersRead`, `SizesRead`), the one `Wait`, the snapshot of
the page's Resource Timing and the analysis, which brings both together by URL
without its query. The browser files a redirected resource under its first URL,
so redirects between resources are not modelled; reasons such as a hidden page
only make the answer more careful.

## 3. Runs

All bounds are constants of the cfg or of the MC module. `CHECK_DEADLOCK FALSE`
is set where the system really stops: scans, audits and calls are over, or their
bound is used up. `Mail` never stops, and deadlock is checked.

| Run | Instance | Shows |
|---|---|---|
| `ScanSafety` | 3 scans, 2 slots, 2 faults, 2 recoveries, 2 claims in flight, in three regions | a queued scan keeps an open dispatch; a "dispatched" one was accepted since its last claim; attempts of a zombie and its successor; competition for the active place; the contract |
| `ScanSettling` | 1 scheduled scan, fairness, 1 fault | scans and dispatches settle |
| `DeepFencing` | 2 workers, lease 4, margin 2, answers up to 1 late, 3 attempts, 1 fault | attempts, results, fencing contract, no transport without a lease |
| `DeepSettling` | lease 2, margin 1, no delay, fairness, 1 fault | a running scan is closed |
| `Screenshots` | 2 scans, 2 cleaners, 2 faults, fairness | shown files exist, hidden ones are journaled, the contract; tasks and the files of deleted scans leave |
| `Mail` | alerts: 2 processes, 1 finding, 4 scans, 1 fault; reports: 2 processes, 1 share, 3 attempts, 1 fault; matches: 2 workers, 1 site, 2 scans, 2 imports, 1 fault | no unpaid mail, ordered recoveries, nothing open of a revoked share; alerts and reports settle, matches catch up |
| `Components` | seventeen components, see below | quotas, proofs, grants, histories, network, crawl, feeds, matching, reviews, schedules |
| `DeepSlowAnswers` | answers later than the margin | **violation** |
| `DeepOutage` | one DNS outage | **violation** |
| `LateFiles` | 1 scan, 1 cleaner, 1 fault | **violation** |
| `FollowupRace` | one finding, 2 versions, 4 events | **violation** |
| `SilentCut` | 2 resources, 3 bytes | **violation** |

`ScanSafety` explores, by its constraint `InRegion`, three regions of one model:
one scan with two dispatchers and one slot, one scan with two slots, and two scans
of one site in all its states. Beyond them the model has more states than a run
can visit, and the proofs do not need the regions.

`Mail` and `Components` choose a `part` in the initial state and run its
module alone; each property of theirs speaks of the part it is about. Their
bounds, in the MC modules, are chosen so that every limit is met by more actors
than it admits:

* quotas: ten requests of three sites, two of which have one host, at most three
  at a time, every limit one or two; those that count nothing (schedule, delete,
  retain) come before time passes;
* ownership: two calls and two challenges; grants: two attempts, one
  administrator, two grants, three proofs;
* creation: three calls, four files (new, several, duplicates, a bad line);
* schedule: weeks of two days of three hours, with both changes of the clocks, one
  slot in the skipped hour and one in the repeated one, two workers; who disables
  the schedule does so before its first run;
* services: one provider (an answer may still be about another), two calls, a
  cache of two, three calls in all, one scan;
* network: three resources, limits of 3 requests, 2 per host, 1 page, 5 bytes, 4
  lookups and 4 handshakes, 1 redirect, chunks of 2 and 4; two resources at most
  where the site is not secure or the time runs out;
* synchronization: two workers, one of which is taken over at once, for two cycles
  with one change and one failure; then one worker for three cycles and a longer
  time with two changes, of which those of the advisory that KEV lists may lose
  the rules;
* matching: three versions, of which 1.10 comes after 1.9, and every pair of rules;
* reviews: two sites, two scans, one import, two actions of readers;
* robots: all files of up to three lines, and those of four that begin with the
  agent or "*", over eight lines; all patterns of up to four signs, all paths of up
  to three;
* follow-up: one finding, two versions of the analyzers, three events; whether an
  analysis is complete only matters where it did not observe the finding;
* crawl: six pages of three origins, three of them within the budget, one
  redirect each, and the deadline passes only in crawls that are not public
  (what it adds to the others is the failure of a navigation, which may happen
  anyway); captures: three responses, three slots;
* performance: two requests of one or two URLs, kept both or only one;
* fetch: two proper URLs and one that is not, two public addresses and a local
  one, two redirects, two bytes.

`Canonical` leaves out orders of names that may be exchanged, `Focused` holds the
limits named here that are not constants. Why the other bounds reach the
interesting cases: a stale claim needs two claims of one scan; a zombie needs two
slots and one stall; a stall followed by a failure needs two faults; a
second lease needs two workers and enough ticks for the first one to end; the
races of screenshots need two cleaners or a cleaner and a writer, two writers for
the site's lock, and two faults for a crash in the course of a repair; an alert
that is mailed twice needs two processes and one fault; a recovery and a new
degradation need four scans; with `MaxRecovery = 2` and `MaxStalled = 1` every
limit is reached. `LeaseTime` 4, `RenewTime` 2 and `AnswerDelay` 1 keep the order
of the code's 30 s, 5 s and an answer under 5 s.

### Findings

* `DeepSlowAnswers`: the watch (25 s) starts with the answer, the lease (30 s)
  with the statement. If the answer takes longer than the 5 s between them, the
  transports of an execution outlive its lease, against
  `docs/operations/v3-deep-activation.md:61`. Results stay fenced
  (`DeepFencing`).
* `DeepOutage`: a resolver outage during revalidation is persisted as a refusal
  and the scan ends as failed; `docs/operations/v3-deep-activation.md:21` says it
  is postponed.
* `LateFiles`: `site-deletion-service.ts:163` says that deletion waits for the
  capture writer or fences it before any write. It does so by a row lock, which
  belongs to the writer's connection. When that connection ends during the write,
  the site is deleted, the delete task is carried out at once and dropped, and
  the file is created after that. Only the orphan inventory finds it. This is also
  the only way: `HiddenFilesAreJournaled` names it as its one exception.
* `FollowupRace`: `finding-followup-state.test.ts:24` says that accepted risks are
  kept. The pure function keeps them; the transaction around it reads the
  follow-ups without a lock (`scan-persistence.ts:414`) and writes by id
  (451-470), so a risk accepted in between is put back to be done.
* `SilentCut`: `docs/operations/v3-deep-activation.md:73` says that an exhausted
  budget leaves an explicit reason. The browser proxy tests its own total of
  bytes, equal to the profile's, before it asks the ledger
  (`safe-browser-proxy.ts:573`): it cuts the transfer and no reason is recorded.

Observed while modelling, and true of the models, though no run states them:

* A review may be stored for what the match says at the write, not for what the
  reader saw in the form (`setSiteVulnerabilityReview` recomputes the
  fingerprint; compare `vulnerability-intelligence.md:178`).
* A public audit requests whatever a redirect leads to without asking its
  robots.txt, as the route handler does not see it; `public-audit.md:34` says that
  forbidden URLs are not visited. Afterwards it explores no further where it has
  read no rules (`RobotsAreKept`).
* The dates of a follow-up's events follow the beginnings of their transactions,
  so that a scan's event may be shown before a person's it has overwritten.
* The requests of a Deep audit are counted in three places and added up in none
  (`AuditNetwork` above), while `docs/architecture/v3-scan-engine.md:22` lists HTTP
  requests as bounded.
* A scan that a worker starts while its dispatch is being cancelled runs on with
  a cancelled dispatch (`ScanLifecycle` above).
* The overview's count of new major findings asks less than the page that
  compares two scans, so it may count what the page calls unknown.
* Two confirmations of a third party at once may store the older snapshot, or
  none over one (compare `stacklegal-poc.md:7`); `fetchedAt` is the time of the
  decision even if the data is up to an hour old.
* A late answer that misses the token may invalidate a proof that another lookup
  has just refreshed: both are about the same proof.
* A gap of the advisories of more than four days uses up the 20 requests of
  each cycle; a failure of the KEV list ends the cycle before NVD. A run that
  outlives its two hours may write advisories it read before.
* In the crawl, the links of the page that uses up the budget are not read and
  the crawl may still be "complete"; a page is settled by a failed navigation,
  too; a redirect to a URL with a fragment lets its page be visited twice; a
  response that comes during the final wait is neither awaited nor counted.
* With one host, the limit of 300 requests per host is met before that of 600
  requests, so "requests" is never the reason. The limits of a tunnel (50 MiB),
  of a plain response (10 MiB) and a tunnel's lifetime are silent as well.
* A schedule saved in the repeated or skipped hour may leave out this week's
  slot.

### Fairness

`ScanSettling`, `DeepSettling` and `Screenshots` assume what the scheduling provides: the
coordinators repeat their ticks, also after one that threw; a worker process
goes on with its next statement; BullMQ serves waiting jobs, notices the locks
of dead workers and evicts finished jobs in the end; timers fire; DNS answers a
refresh some time. Failures are not fair and are bounded. Strong fairness is
used where a lock or a condition may be away and come back: a claim of a dispatch, since a proof may expire between the
refresh and the claim of one tick and each tick refreshes first; the fetch of a
job, since the slot may be busy each time but becomes free again; a writer that
waits for row locks, which Postgres queues; and the choice of a due task, since
batches are taken in the order of `nextAttemptAt`.
Evictions are part of the argument: a recovered scan whose job BullMQ retains as
finished runs again only once that job is evicted (up to a week).

`Mail` assumes weak fairness only: of each process's next step, whose timer
schedules the next tick also after an error; of the passing of leases, backoffs
and expiries; of each reconciliation's next step; and of the cycle that
reconciles all current observations, which its coordinator starts again in a
`finally`. What is assumed of a process is that it goes on, not that it succeeds:
failures are bounded by `MaxFaults`. Reports settle even if no mail is ever
accepted, because the code's attempts end.

## 4. Proofs

TLAPS checks these for every value of the constants: any number of scans, slots,
workers, claims, requests, pages, faults and any limits, under the named
assumptions of the modules. These say no more than that bounds and limits are
numbers, that what the program counts is finite (requests of one moment, the
resources of a page, the responses of a scan, the processes), that a crawl
starts at a page, that a file and a page list what they hold one after the other,
that null values differ from others, that releases are triples of digits
below a radix, that a scan may observe at least one page, and that a site has a
proof at first. Two say a little more. `ScheduleAssumption`: slots are days and
times of the week, and the clock of a worker is ahead of the database's by at most
the distance of two neighbouring slots, and with the change of the clocks by at
most a week; with a larger skew a worker may create the scan of a slot before a
person saves an earlier one, and the scans are out of order.
`RobotsAssumption`: a line of robots.txt names an agent or has a pattern. The two
regions of `VulnerabilitySync` and the two sizes of `ObservedPerformance` are
chosen in `Components`; the theorems of these modules are about all constants
that are `Sane` ("gone" is no worker, numbers, a KEV list of known advisories).

`ScanLifecycleProofs`

* `TypeCorrect` proves `TypeOK` with `ExecutesScans` (a busy slot works on a
  scan), without which a step of a slot has no row to write.
* `AttemptsCorrect`: at most the newest attempt reads "running". Beyond types it
  needs only that an attempt row is appended by `BeginAttempt`, which closes the
  newest, and that nobody sets a row back to "running".
* `QueuedScansAreDispatched`, `DispatchesAreAccepted`: one inductive invariant,
  `DispatchInv`. Its heart is `ClaimsFenced`: a claim
  in flight never counts higher than its row, and one in step "mark" with the
  row's count was accepted since. That is why comparing `attemptCount` suffices.
* `LifecycleImplementsContract`: each step of `Next` is a step of `ScanContract`
  or leaves `scan` alone, given types and the unique index.

`DeepLeaseProofs`

* `TypeCorrect` proves `TypeOK` with `Pointer(w)`: an execution past its claim
  names an attempt that exists.
* `AttemptsCorrect` and `ResultsCorrect` are proved together as `Fenced`: that
  only a running scan has a running attempt keeps results final, and that
  results are final keeps a closed scan from being claimed.
* `LeasesImplementContract`: the holder of the contract is the newest attempt
  while its lease lives, the epoch is the number of attempts. A renewal is a
  stutter: the lease it prolongs was alive.
* `TransportsCorrect`, for `AnswerDelay < RenewTime`: `AllTimed` says that two
  executions never name the same attempt, that the lease of an execution whose
  monitor guards it has more left than its watch, and, while an answer is
  awaited, that what is left of the lease and what has been waited make up
  `LeaseTime`. `DeepSlowAnswers` shows the condition cannot be dropped.

`ArtifactsProofs`

* `TypeCorrect` proves `TypeOK` with `BatchesAreLocked`: a batch works on rows it
  has locked.
* `ShownFilesCorrect` and `HiddenFilesCorrect` rest on one inductive invariant,
  `IInv`. Its heart: locked rows are exclusive and stay in the journal
  (`LocksAreExclusive`), so no cleaner has what is shown or what a writer with
  its transaction writes (`WritersAreAlone`); a batch's list of removed files is
  true until it commits (`RemovedIsGone`), except for a writer that lost its
  transaction, whose intent only a deletion can take away
  (`StraysAreJournaled`). Both hold with and without `PromptWrites`; without it
  the exception of `HiddenFilesAreJournaled` is wider.
* `ArtifactsImplementContract`: renames, publications, unlinks and deletions are
  the contract's four steps, everything else stutters.

`MailProofs`

* `RevocationsCancel` (and `MailRevocationsCancel`, of the composed
  specification) proves `RevokedIsCancelled`. The invariant it needs is
  `LockedIsNotRevoked`: between the select of a claim and its updates, the row
  lock keeps the revocation out; every later mark finds the row cancelled.
* `AlertsArePaid` and `RecoveriesFollow` rest on `AlertInv`. Its heart is
  `Unfinished(d)`, what may make one more mail of `d` although nothing failed: the
  row is pending, or it is being sent and nobody who goes on with it carries its
  newest attempt (`Carries`). A mail costs the row that state, and only a failure
  brings it back. It needs that claims name rows and never count higher than
  them (`ClaimsNameRows`), that no two processes hold the same claim
  (`OneClaimEach`: they may hold the same row, with different counts), and that
  what is about to be marked was mailed (`MarkedWereMailed`).
* For the order of recoveries the invariant says what an incident knows:
  whatever is open in `incident`, or was read as open by the persistence under
  way (`ReadsAnnounced`), names a mail that was sent (`Announced`). A mark that
  commits between the reads and the writes of a persistence can close an incident,
  never make one that was not announced. `RowsGoOn` is the step relation of
  all delivery steps: rows only lose their open state, and only keep their items.

* `MailTypesCorrect` proves `MailTypeOK`. For reports, that attempts stay within
  their bound needs `LocksAreExclusive` and `ReadsWithinBound`: a claim counts up
  a row it read before, so nobody else may have counted it up since. For
  matches, `HangOnObservations` needs `FutureIsEmpty` (a new scan's observation
  has no old match) and that a reconciliation writes a match only where the
  observation still exists; `ReviewsCounted` relates reviews and the decision
  under way to the actions of readers.

`PartsProofs`

* `RecordsAreObserved`: `NotesInv` (every request that was sent is kept or the
  record says that it is truncated), `ReadsInv` (a read that is lost, or awaited
  and still open when the wait ends, truncates it) and the analysis on top of
  them. The sums of bytes over all requests are compared term by term.
* Robots (`IInv`, for `RulesFollowed` below): what the property asks of a file, which
  agents a rule is for and what lengths of a path a pattern covers, is not computed
  as the program does. The parser goes through the lines once and keeps groups;
  `AgentsOf` looks back from each rule. The lemmas on the recursive functions say
  line by line that the groups hold the rules `AgentsOf` gives them, so that the
  chosen rules are `OurLines`. The matcher is a loop with one place to go back
  to; `Covered` is a table, for every beginning of the pattern, of the lengths it
  can cover. `Follows` relates the two: what the loop has left behind covers the
  path up to where it stands, and if anything covers the path, it does so from the
  place the loop may go back to or one it has still to try. So a loop that ends
  has the answer of the table. Over the rules, `winner` is the longest that matches
  so far, allowing before forbidding; running out of steps refuses.
* Schedule (`ScheduleInv`): `NextRun` takes this week's slot or the next week's;
  `First` is all slots after a moment. That its least member is the one
  `NextRun` finds is arithmetic of weeks and days (`Products` and the lemmas
  before it) with the two changes of the clocks (`MomentIsLater`: what is later
  on the wall is later than now also across them). With it the row's cursor is the
  first slot after `since`, no scan comes after the cursor (`RowInv`), and none
  after the clock of a worker (`RunsInOrder`): so a slot that was taken is not
  taken again by whoever saves, initializes or claims next.

`NetworkProofs`: one invariant for each part, together `NetInv`, with the types of
these parts.

* `FetchesAreChecked`: between the check and the connection the fetch holds an
  address that was checked, whatever DNS says next.
* `CrawlsKeepRobots`: `CrawlInv` for what was let through (rules are read for
  origins of the site's family only, and of an origin once; so what was allowed
  at a request stays allowed), and `QueueInv` for what is still queued: the home
  moves only while the first page is under way, when nothing else is queued, and
  links are queued only where rules of the home were read.
* `AuditsKeepTheirBudget`: `BudgetInv` relates the lookups, connections and bytes,
  and what is paid for but not begun yet (`Busy` resources, the probe's `Ahead`), to
  the ledger, and the ledger to the profile. Without what is paid ahead the
  invariant is not inductive: several resources wait for their lookups between
  their reservation and their connection. `ProxyInv`: the proxy counts each of its
  connections, whoever asked for it, before it makes it.
* `StoppedAuditsAreSilent`: whoever is stopped has nothing reserved that it may
  still begin.
* `CompleteThingsAreWhole`: for the coverage of an audit `HonestInv` (a refusal
  within the scope leaves a reason, and a reason forbids "full"); for the crawl
  `TrackerInv` (a link of the home's origin was taken, waits, is the page under
  way, or the crawl is limited: `LinksAreFollowed`, `QueueIsTracked`,
  `EntriesAreKept`); for captures `CaptureInv` (the wait is about every read that
  began before it); for the performance record the invariant of
  `PartsProofs`, by INSTANCE; for a text `TextInv`. (Stated in `RecordsProofs`.)

* `AnswersStand`: three parts, of which only the services change over time.
  Services: `ServiceInv`. The row that is stored shows the newest snapshot
  (`SnapshotsShown`), because a call that nobody overtook has read what is stored
  (`RowKept`, `CallOpen`, `CallWaits`), and what the cache holds was published
  less than the cache's time and an answer's time ago (`CacheFresh`,
  `StillFresh`). Matching: `Rank` makes a number of a release, `RankIsOrder` says
  that `Before`, which compares digit by digit, is the order of these numbers,
  `DecidableMeans` and `HoldsMeans` what a rule that can or cannot be decided says
  of them; so `MatchMeans` what a match claims is what the advisory's versions
  mean. Readers: `ReadersTellOneStory` goes through the cases of two scans, since
  each reader is a function of them.

`VulnerabilitySyncProofs`

* `CursorsLeaveNothingBehind`: as long as no live run was declared stale, whoever
  is live holds the lock of its source (`Alone`), so that one run at a time
  copies what NVD says. It began after the last cursor, and after the start of
  every window somebody is going to ask for (`Ordered`): whatever it read and
  NVD has modified since lies beyond these (`Pages`), and what it has not found
  is unknown or known from KEV only (`Unknown`). What it has seen is stored or
  it is going to fail (`Seen`), and what its window spans is stored, on its
  page, or still to be asked (`Spanned`): both halves of a window keep that
  (`HalvesCover`). So the end of a completed window is `Covered`, and so is
  what starts there. The moment the cursor is read matters: a window chosen
  before another run completes overlaps it, and never leaves a gap.

* `TypesInv` adds to that invariant that what is stored or read is no newer than
  the clock (`Recent`), without which a page that is written later could date a
  row into the future.

`RecordsProofs`: one invariant for each part, together `RecordsInv`; `OthersInv`
are the invariants of the parts that `VulnerabilitySyncProofs` and `PartsProofs`
are about, by INSTANCE.

* `CursorsAreComplete` is the theorem above, by INSTANCE, for the two regions.

* `QuotasAreNeverExceeded`: who counts holds all locks of its kind (`LockInv`), so
  among the requests a window is about at most one counts or inserts at a time
  (`Exclusive`), what it counted is still true when it writes, and a window is
  `WindowKept`. A request that arrived early and waited for its locks is counted
  at its arrival, which is why the windows are stated of `arrived`.
* `LocksNeverDeadlock`: every kind takes its locks in one global order, and a
  circle of waits would have to go down somewhere.
* `RecordsExplain`: for follow-ups the last commit led to the status and each
  person's event begins at the status before it; an event that is read last though
  another was committed later began after no event, so the transaction of that
  other one was open when it was committed. For
  imports `CallsInv` (who holds the lock is alone with it; what an import has
  not read was created by a call of its own).
* `ReviewsAreFaithful`: a review that is stored carries the fingerprint of the
  match it was made for, and a match that changes changes its fingerprint.
* `ProofsAreFollowed` needs that a challenge is the newest token, newer than the
  proof (`ProofsAreOrdered`), and that a verification holds a token: so a
  challenge that was replaced is never the one under the lock.
* `StopsStay`: an attempt that outlived a revocation has lost its lease
  (`OutlivedHaveNoLease`), since the fence ends the leases of all attempts under
  way in the transaction that revokes, also of those that have not yet read a
  grant; and a challenge is newer than the grant (`TokensInOrder`).
* `RulesFollowed` is what `PartsProofs` proves of robots and schedules, by INSTANCE.
* `TypesCorrect` proves `TypeOK` of all parts, from `NetInv`, `RecordsInv` and
  `OthersInv`. Few types keep themselves. A crawl stays within its pages because
  what is under way still has room for one (`CrawlBounds`), and forbids only pages
  whose rules it has loaded (`CrawlPlaces`). The slots for network metadata suffice
  because a record and an error have a slot each that was reserved for them
  (`CaptureTypes`). A fetch receives at most one byte over its limit before it
  ends (`FetchTypes`). No token an attempt has read is newer than the last one
  issued (`TokensInv`). An import counts no more sites than its file has lines
  (`LinesAreEnough`). Reviews are counted together with the decision under way
  (`DecidedTypes`), and who reconciles has read at most one status, of an
  observation it may meanwhile have lost (`ReconcileTypes`).

Model-checked only:

* liveness (`ScansSettle`, `DispatchesSettle`, `DeepScansSettle`, `TasksLeave`,
  `DeletedFilesLeave`, `MailsSettle`, `MatchesCatchUp`), which is beyond the
  prover;
* the five violations, which are statements that do not hold.

Every invariant and every action property a passing run checks is also a theorem.

## 5. Not modelled, and the plan

Not modelled by choice: what the analyzers conclude from a page (SEO, content,
technologies, third parties, headers, cookies, certificates) and the Deep checks'
conclusions; the markup and wording of pages, mails and reports; permissions of
members, which every action of the web application presumes; the schemas that
validate inputs; authentication and SMTP, which are libraries; backup and
deployment scripts. They are data or I/O; what they return is a nondeterministic
outcome of the actions that use it.

Left out of the modelled parts:

* `Crawl`: the 100 links of a page; frames' documents also set a flag that only
  the wording reads.
* `RobotsPolicy`: percent escapes of patterns; and the reasons for which the
  parser refuses a file or the evaluator a target whatever the rules say: a rule
  too long, with too many wildcards or invalid (`robots.ts:232-245`), a file or a
  target too long (187-195, 127-139, 268). They all forbid more.
* `AuditNetwork`: the lists of endpoints, forms and cookies; the silent limits
  above; a lookup is one query, where `cancellableDnsResolver` makes two.
* `VulnerabilitySync`: parsing; the KEV list has one version.
* `Correlation`: reads of an overview are several queries, here one; after
  retention deletes the newest scan the matches of the older one are as old as
  it, until the next cycle: `MatchesCatchUp` speaks of the end.
* `Artifacts`: invalid keys and symbolic links. `DeepLease`: see above.

What could come next: the checks of a Deep audit as operators on the pages they
read; the percent escapes of robots patterns; the two queries of a lookup; what
schedules promise when clocks are further apart than two slots.
