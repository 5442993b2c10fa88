----------------------------- MODULE Components -----------------------------
(***************************************************************************)
(* The components that keep their safety by themselves: the quotas, the    *)
(* ownership proof of a site, the grants of its Deep audits, the follow-up *)
(* of a finding, the comparison of two scans, the creation of sites and    *)
(* their weekly schedule, the decisions about third parties, the network   *)
(* of an audit, the synchronization of the advisories, their matching and  *)
(* the reviews, what a V2 scan asks the web for (the rules of robots.txt,  *)
(* the crawl, the metadata of responses, the requests beside the browser)  *)
(* and what a Deep audit tells of the loading of its page.  They share no  *)
(* state, so TLC explores one of them: "part" is chosen in the initial     *)
(* state.                                                                  *)
(*                                                                         *)
(* The constants are taken from here, but for the parts of which two sizes *)
(* are explored: those have the sizes of the run.                          *)
(***************************************************************************)
EXTENDS Integers, SequencesExt

CONSTANTS \* quotas
          QuotaRequests, RequestKind, User, Site, Org, Host, Recipient, Hour, Day, Cooldown,
          SiteHourly, OrgDaily, UserHourly, UserConcurrent, MailHourly, MailDaily,
          RecipientDaily, MailOpen, MaxTime, MaxRequests,
          \* ownership and grants
          ProofCalls, MaxChallenges, Attempts, Admins, MaxGrants, MaxProofs,
          \* followup and creation
          Metrics, MaxEvents, Urls, Files, BadLine, Calls,
          \* schedule
          Tickers, Days, DayLength, Spring, Fall, Shift, WeekSlots, Skew, MaxMoment, MaxSaves,
          \* services
          ThirdParties, DecisionCalls, CacheTime, AnswerTimeout, MaxHours, MaxAsks, MaxCompleted,
          \* matching
          Releases, Radix,
          \* network
          AuditDocument, Resources, AuditRequests, HostRequests, AuditPages, AuditBytes,
          MaxLookups, MaxHandshakes, AuditRedirects, TunnelBytes, BodyBytes, Sizes,
          \* reviews
          Sites, Workers, MaxScans, MaxImports, MaxFaults, MaxActs,
          \* robots and crawl
          RobotsFiles, RobotsPaths, Agent, MaxRules, MaxMatchSteps, Pages, FirstPage, Origin, Family, Hrefs, MaxPages,
          MaxRedirects,
          \* captures and fetch
          Responses, Slots,
          FetchUrls, Proper, Addresses, Public, FetchRedirects, FetchBytes

VARIABLES part,
          now, pc, arrived, held, row, gone,                        \* quotas
          issued, challenge, lapsed, site, proof, record, call,     \* ownership
          ownership, tokens, offered, late, grant, published,       \* grants
          admin, attempt,
          finding, history, scan,                                   \* followup
          reading,                                                  \* readers
          owner, sites, events, creation, maker,                    \* creation
          instant, schedule, since, tick, runs, saves,              \* schedule
          hour, observations, latest, cache, decisions, current,    \* services
          deciding, asks, completed,
          secure, ledger, over, stage, probe, request, exhausted,   \* network
          proxy, seen, report, traffic, refused, cut,
          clock, nvd, stored, known, lock, cursor, fresh, worker,   \* advisories
          origins, overtaken, cycles, changes, faults,
          comparison,                                               \* matching
          observation, match, declared, advisory, correlator,       \* reviews
          reviews, decision, approved, scans, imports, misses, acts,
          file, path, rules, at, winner, budget, verdict,           \* robots
          public, phase, home, loaded, forbidden, queue, taken,     \* crawl
          entry, alias, flags, target, url, via, hrefs, observed,
          analyzed, expired, requested, links,
          collection, capture, errors, dropped, failures, awaited, due,  \* captures
          measuring, address, outside, wire, item, headers, sizes,  \* performance
          reads, truncated, timings, analysis,
          kind, step, hop, pinned, redirects, length, received,     \* fetch
          overdue, connections

\* Every request is of a kind, and limits and lengths of time are numbers.
ASSUME RequestsAssumption ==
  /\ IsFiniteSet(QuotaRequests)
  /\ RequestKind \in [QuotaRequests -> {"manual", "public", "email", "schedule", "delete", "retain"}]
ASSUME QuotasAssumption ==
  {Hour, Day, Cooldown, SiteHourly, OrgDaily, UserHourly, UserConcurrent, MailHourly, MailDaily,
   RecipientDaily, MailOpen, MaxTime} \subseteq Nat
\* A site has a proof at first, and some may replace it.
ASSUME GrantsAssumption == MaxGrants \in Nat /\ MaxProofs \in Nat \ {0}
ASSUME HistoryAssumption == MaxEvents \in Nat
\* A Deep audit has one document, and asks for some resources beside it.
ASSUME NetworkAssumption == IsFiniteSet(Resources) /\ AuditDocument \notin Resources
ASSUME ProfileAssumption ==
  /\ {AuditRequests, HostRequests, AuditPages, AuditBytes, MaxLookups, MaxHandshakes} \subseteq Nat
  /\ Sizes \subseteq Nat
ASSUME ResponsesAssumption == IsFiniteSet(Responses)
ASSUME SlotsAssumption == Slots \in Nat
ASSUME ChallengesAssumption == MaxChallenges \in Nat
\* A file of sites has one line after the other.
ASSUME FilesAssumption == Files \subseteq Seq(Urls \cup {BadLine})
\* A week has days and a day its units; a slot is a day of the week and a unit
\* of it.  The clock of a worker is ahead by no more than slots are apart, and
\* by less than a week.
ASSUME ScheduleAssumption ==
  /\ Days \in Nat \ {0} /\ DayLength \in Nat \ {0}
  /\ {Spring, Fall, Shift, MaxMoment, MaxSaves} \subseteq Nat
  /\ WeekSlots \subseteq [day: 0..Days - 1, time: 0..DayLength - 1]
  /\ Skew \in {0, 1} /\ Skew + Shift <= Days * DayLength
\* A file of robots.txt has lines with an agent or with a pattern.
ASSUME RobotsAssumption ==
  /\ RobotsFiles \subseteq Seq([key: {"agent"}, value: STRING]
                              \cup [key: {"allow", "disallow"}, value: Seq(STRING)])
  /\ RobotsPaths \subseteq Seq(STRING) /\ MaxMatchSteps \in Nat
ASSUME BudgetAssumption == MaxPages \in Nat \ {0}
ASSUME PagesAssumption == FirstPage \in Pages /\ Hrefs \subseteq Seq(Pages)
ASSUME FetchAssumption == FetchBytes \in Nat /\ FetchRedirects \in Nat
\* The cache and a request last for some time.
ASSUME ServicesAssumption ==
  /\ {MaxHours, MaxAsks, MaxCompleted} \subseteq Nat
  /\ CacheTime \in Nat \ {0} /\ AnswerTimeout \in Nat \ {0}
ASSUME ReviewsAssumption == MaxScans \in Nat /\ MaxActs \in Nat
\* A version has three parts.
ASSUME ReleasesAssumption ==
  Radix \in Nat /\ Releases \subseteq (0..Radix - 1) \X (0..Radix - 1) \X (0..Radix - 1)

Q == INSTANCE Quotas WITH Requests <- QuotaRequests, Kind <- RequestKind
O == INSTANCE OwnershipProof WITH Calls <- ProofCalls
G == INSTANCE DeepGrants WITH
  site <- ownership, issued <- tokens, challenge <- offered, lapsed <- late, record <- published
F == INSTANCE FindingFollowup WITH Versions <- Metrics, row <- finding
K == INSTANCE ScanComparison WITH Versions <- Metrics
D == INSTANCE SiteCreation WITH Unreadable <- BadLine, call <- creation

W == INSTANCE WeeklySchedule WITH
  Workers <- Tickers, Day <- DayLength, Slots <- WeekSlots, MaxTime <- MaxMoment,
  now <- instant, row <- schedule
T == INSTANCE ThirdPartyDecisions WITH
  Providers <- ThirdParties, Calls <- DecisionCalls, Timeout <- AnswerTimeout,
  MaxTime <- MaxHours, MaxScans <- MaxCompleted

A == INSTANCE AuditNetwork WITH
  Document <- AuditDocument,
  MaxRequests <- AuditRequests, MaxHostRequests <- HostRequests, MaxPages <- AuditPages,
  MaxBytes <- AuditBytes, MaxRedirects <- AuditRedirects, late <- over

\* Two synchronizations at once and one that is overtaken by time, each with
\* one change of an advisory and one failure; then one worker, longer, with two
\* changes.
S == INSTANCE VulnerabilitySync WITH
  Workers <- {"v", "w"}, CVEs <- {"c", "d"}, KevCatalogs <- {{"c"}},
  Day <- 3, MaxSpan <- 5, MaxWindow <- 2, MinSplit <- 1, MaxRequests <- 3, Attempts <- 3,
  StaleAfter <- 0, Refresh <- 2, MaxClock <- 2, MaxCycles <- 2, MaxChanges <- 1, MaxFaults <- 1
L == INSTANCE VulnerabilitySync WITH
  Workers <- {"v"}, CVEs <- {"c", "d"}, KevCatalogs <- {{"c"}},
  Day <- 3, MaxSpan <- 5, MaxWindow <- 2, MinSplit <- 1, MaxRequests <- 3, Attempts <- 3,
  StaleAfter <- 1, Refresh <- 2, MaxClock <- 3, MaxCycles <- 3, MaxChanges <- 2, MaxFaults <- 0

V == INSTANCE VersionMatching WITH Versions <- Releases
R == INSTANCE Correlation WITH worker <- correlator, faults <- misses
P == INSTANCE RobotsPolicy WITH Files <- RobotsFiles, Paths <- RobotsPaths
C == INSTANCE Crawl WITH Start <- FirstPage, seen <- taken, late <- expired, published <- links
N == INSTANCE ResponseCapture WITH phase <- collection

\* Two requests, with one URL or two; all are kept, or only one is.
M == INSTANCE ObservedPerformance WITH
  Requests <- {"a", "b"}, Urls <- {"u", "v"}, Size <- [a |-> 1, b |-> 2], MaxItems <- 2,
  MaxEntries <- 3, phase <- measuring, url <- address, awaited <- reads
H == INSTANCE ObservedPerformance WITH
  Requests <- {"a", "b"}, Urls <- {"u", "v"}, Size <- [a |-> 1, b |-> 2], MaxItems <- 1,
  MaxEntries <- 2, phase <- measuring, url <- address, awaited <- reads

B == INSTANCE BoundedFetch WITH
  Urls <- FetchUrls, MaxRedirects <- FetchRedirects, MaxBytes <- FetchBytes, url <- hop, late <- overdue

quotaVars == <<now, pc, arrived, held, row, gone>>
proofVars == <<issued, challenge, lapsed, site, proof, record, call>>
grantVars == <<ownership, tokens, offered, late, grant, published, admin, attempt>>
followupVars == <<finding, history, scan>>
creationVars == <<owner, sites, events, creation, maker>>
scheduleVars == <<instant, schedule, since, tick, runs, saves>>
networkVars == <<secure, ledger, over, stage, probe, request, exhausted, proxy, seen, report,
                 traffic, refused, cut>>
syncVars == <<clock, nvd, stored, known, lock, cursor, fresh, worker, origins, overtaken,
              cycles, changes, faults>>
reviewVars == <<observation, match, declared, advisory, correlator, reviews, decision, approved,
                scans, imports, misses, acts>>
robotsVars == <<file, path, rules, at, winner, budget, verdict>>
crawlVars == <<public, phase, home, loaded, forbidden, queue, taken, entry, alias, flags, target,
               url, via, hrefs, observed, analyzed, expired, requested, links>>
captureVars == <<collection, capture, errors, dropped, failures, awaited, due>>
performanceVars == <<measuring, address, outside, wire, item, headers, sizes, reads, truncated,
                     timings, analysis>>
fetchVars == <<kind, step, hop, pinned, redirects, length, received, overdue, connections>>
serviceVars == <<hour, observations, latest, cache, decisions, current, deciding, asks, completed>>
siteVars == <<reading, creationVars, scheduleVars, serviceVars>>
requestVars == <<quotaVars, proofVars, grantVars, followupVars, siteVars>>
auditVars == <<networkVars, syncVars, comparison, reviewVars>>
webVars == <<robotsVars, crawlVars, captureVars, performanceVars, fetchVars>>
vars == <<part, requestVars, auditVars, webVars>>

Init == /\ part \in {"quotas", "ownership", "grants", "followup", "readers", "creation",
                     "schedule", "services", "network", "sync", "long sync", "matching",
                     "reviews", "robots", "crawl", "captures", "performance",
                     "full performance", "fetch"}
        /\ Q!Init /\ O!Init /\ G!Init /\ F!Init /\ K!Init /\ D!Init /\ W!Init /\ T!Init /\ A!Init
        /\ V!Init /\ R!Init /\ P!Init /\ C!Init /\ N!Init /\ M!Init /\ B!Init
        /\ IF part = "long sync" THEN L!Init ELSE S!Init
        /\ part # "followup" => finding.seen = CHOOSE v \in Metrics : TRUE
        /\ part # "schedule" => schedule.slot = CHOOSE slot \in WeekSlots : TRUE
        /\ part # "network" => secure
        /\ part # "crawl" => ~public
        /\ address["a"] = "u"
        /\ part \notin {"performance", "full performance"} => address["b"] = "u" /\ outside = {}
        /\ part # "fetch" => kind = "probe" /\ hop = CHOOSE u \in FetchUrls : TRUE

Next ==
  \/ /\ part = "quotas"
     /\ UNCHANGED <<part, proofVars, grantVars, followupVars, siteVars, auditVars, webVars>>
     /\ Q!Next
  \/ /\ part = "ownership"
     /\ UNCHANGED <<part, quotaVars, grantVars, followupVars, siteVars, auditVars, webVars>>
     /\ O!Next
  \/ /\ part = "grants"
     /\ UNCHANGED <<part, quotaVars, proofVars, followupVars, siteVars, auditVars, webVars>>
     /\ G!Next
  \/ /\ part = "followup"
     /\ UNCHANGED <<part, quotaVars, proofVars, grantVars, siteVars, auditVars, webVars>>
     /\ F!Next
  \/ /\ part = "readers"
     /\ UNCHANGED <<part, quotaVars, proofVars, grantVars, followupVars, creationVars,
                    scheduleVars, serviceVars, auditVars, webVars>>
     /\ K!Next
  \/ /\ part = "creation"
     /\ UNCHANGED <<part, quotaVars, proofVars, grantVars, followupVars, reading, scheduleVars,
                    serviceVars, auditVars, webVars>>
     /\ D!Next
  \/ /\ part = "schedule"
     /\ UNCHANGED <<part, quotaVars, proofVars, grantVars, followupVars, reading, creationVars,
                    serviceVars, auditVars, webVars>>
     /\ W!Next
  \/ /\ part = "services"
     /\ UNCHANGED <<part, quotaVars, proofVars, grantVars, followupVars, reading, creationVars,
                    scheduleVars, auditVars, webVars>>
     /\ T!Next
  \/ /\ part = "network"
     /\ UNCHANGED <<part, requestVars, syncVars, comparison, reviewVars, webVars>>
     /\ A!Next
  \/ /\ part = "sync"
     /\ UNCHANGED <<part, requestVars, networkVars, comparison, reviewVars, webVars>>
     /\ S!Next
  \/ /\ part = "long sync"
     /\ UNCHANGED <<part, requestVars, networkVars, comparison, reviewVars, webVars>>
     /\ L!Next
  \/ /\ part = "matching"
     /\ UNCHANGED <<part, requestVars, networkVars, syncVars, reviewVars, webVars>>
     /\ V!Next
  \/ /\ part = "reviews"
     /\ UNCHANGED <<part, requestVars, networkVars, syncVars, comparison, webVars>>
     /\ R!Next
  \/ /\ part = "robots"
     /\ UNCHANGED <<part, requestVars, auditVars, crawlVars, captureVars, performanceVars,
                    fetchVars>>
     /\ P!Next
  \/ /\ part = "crawl"
     /\ UNCHANGED <<part, requestVars, auditVars, robotsVars, captureVars, performanceVars,
                    fetchVars>>
     /\ C!Next
  \/ /\ part = "captures"
     /\ UNCHANGED <<part, requestVars, auditVars, robotsVars, crawlVars, performanceVars,
                    fetchVars>>
     /\ N!Next
  \/ /\ part = "performance"
     /\ UNCHANGED <<part, requestVars, auditVars, robotsVars, crawlVars, captureVars,
                    fetchVars>>
     /\ M!Next
  \/ /\ part = "full performance"
     /\ UNCHANGED <<part, requestVars, auditVars, robotsVars, crawlVars, captureVars,
                    fetchVars>>
     /\ H!Next
  \/ /\ part = "fetch"
     /\ UNCHANGED <<part, requestVars, auditVars, robotsVars, crawlVars, captureVars,
                    performanceVars>>
     /\ B!Next
Spec == Init /\ [][Next]_vars

\* The parts keep their types.
TypeOK ==
  CASE part = "quotas" -> Q!TypeOK
    [] part = "ownership" -> O!TypeOK
    [] part = "grants" -> G!TypeOK
    [] part = "followup" -> F!TypeOK
    [] part = "readers" -> K!TypeOK
    [] part = "creation" -> D!TypeOK
    [] part = "schedule" -> W!TypeOK
    [] part = "services" -> T!TypeOK
    [] part = "network" -> A!TypeOK
    [] part = "sync" -> S!TypeOK
    [] part = "long sync" -> L!TypeOK
    [] part = "matching" -> V!TypeOK
    [] part = "reviews" -> R!TypeOK
    [] part = "robots" -> P!TypeOK
    [] part = "crawl" -> C!TypeOK
    [] part = "captures" -> N!TypeOK
    [] part = "performance" -> M!TypeOK
    [] part = "full performance" -> H!TypeOK
    [] part = "fetch" -> B!TypeOK
\* The properties of the parts, stated in their modules.  Quotas: no window
\* holds more than its limit and active public audits exclude each other ...
QuotasHold == part = "quotas" => Q!WindowsBounded /\ Q!AuditsExclusive
\* ... and the orders of the locks never close a circle.
SomeoneGoesOn == part = "quotas" => Q!SomeoneGoesOn
\* Ownership: only the newest challenge becomes the proof, and only the answer
\* about a proof prolongs or loses it.
ProofsFollowDNS == O!ProofsFollowChallenges /\ O!ProofsFollowLookups
\* What is stopped stays so.  Grants: after a revocation no attempt that began
\* before stores results, and no verification under way brings the grant back.
\* Network: nothing begins after a stop.
StopsAreFinal == G!RevocationStopsResults /\ G!RevokedStaysRevoked /\ A!StopIsTerminal
\* Follow-up: the history explains the status.  Creation: the events of the
\* imports explain the sites, and the locks keep their calls apart.
HistoryExplains ==
  IF part = "followup" THEN F!HistoryExplains
  ELSE part = "creation" => D!ImportsAreRecorded /\ D!LocksHold
\* Network: what an audit sends stays within its profile.
TrafficWithinProfile == part = "network" => A!TrafficWithinProfile
\* What is called whole is: the coverage of a Deep audit, the crawl of a V2
\* scan, its network metadata, the loading of a page, a text that was fetched.
CompleteIsWhole ==
  CASE part = "network" -> A!FullCoverageIsFull
    [] part = "crawl" -> C!CompleteCrawlIsWhole
    [] part = "captures" -> N!CompleteNetworkIsWhole
    [] part = "performance" -> M!PerformanceIsObserved
    [] part = "full performance" -> H!PerformanceIsObserved
    [] part = "fetch" -> B!TextIsWhole
    [] OTHER -> TRUE
\* Synchronization: the catalogue holds what the cursor has passed.
CursorLeavesNothingBehind ==
  IF part = "long sync" THEN L!CursorLeavesNothingBehind
  ELSE part = "sync" => S!CursorLeavesNothingBehind
\* What is computed is what it stands for: the answer whether a version is
\* affected, what four readers tell of two scans, what the page shows of a
\* third party.
AnswersAreSound ==
  CASE part = "matching" -> V!MatchingIsSound
    [] part = "readers" -> K!ReadersAgree
    [] part = "services" -> T!ServicesShowTheirSnapshots
    [] OTHER -> TRUE
\* What others wrote is followed: the weekly schedule, of which each slot has
\* one scan, and the rules of a robots.txt.
RulesAreFollowed ==
  /\ part = "schedule" => W!SlotsRunOnce
  /\ part = "robots" => P!RobotsAsPublished
\* Reviews: a match is hidden only by a review of what it says now.
ReviewsCoverTheirEvidence == part = "reviews" => R!ReviewsCoverTheirEvidence
\* Crawl: what a public audit lets through or will navigate to is allowed by
\* rules it has read.
RobotsAreKept == part = "crawl" => C!PublicAuditsKeepRobots
\* Fetch: a connection is made only to an address that was checked.
ConnectionsAreChecked == part = "fetch" => B!ConnectionsAreChecked
=============================================================================
