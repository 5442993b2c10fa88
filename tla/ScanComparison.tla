--------------------------- MODULE ScanComparison ---------------------------
(***************************************************************************)
(* What two scans of a site say of one finding.  Four places read it, each *)
(* with conditions of its own: the pages and shared reports that compare   *)
(* scans, the mails about degradations, the count of new findings in the   *)
(* overview of an organization, and the rule by which follow-ups and       *)
(* incidents take an absence for a repair.  All of them compare findings   *)
(* one by one, by their fingerprints.  A pure algorithm: one finding and   *)
(* two scans are chosen, and the property holds of what is said of them.   *)
(***************************************************************************)
EXTENDS Naturals

CONSTANTS Versions    \* of the metrics of the performance analyzer

VARIABLE reading      \* what is compared, as a set of one

\* The analyzer that has to have worked for an absence to mean something: the
\* others of V2 are treated as "network", and "none" needs no analyzer.
Analyzers == {"performance", "network", "none"}
\* Of an analyzer in the summary of a scan: older scans have none.
Coverage == {"complete", "partial", "unavailable", "absent"}

Absent == 0
Medium == 3             \* severityRank.medium, one more than in the code
High == 4
Severities == 0..5

\* What a scan tells of the finding: its severity there, and of the analyzer.
Tellings == [severity: Severities, coverage: Coverage, version: Versions]

Init == reading = {}

-----------------------------------------------------------------------------
(* packages/contracts/src/scan-completeness.ts                             *)

Covers(a, t) == a # "none" => t.coverage = "complete"
SameMetrics(a, s, t) == a = "performance" => s.version = t.version

\* Does an absence from now resolve what an earlier scan reported?
CanResolve(a, now, then) == SameMetrics(a, now, then) /\ Covers(a, now)
\* Would the earlier scan have seen what is new?
CanCompareNew(a, then) == Covers(a, then)
\* May an absence from either be compared with the other?
CanCompareMissingAsResolved(a, now, then) == CanResolve(a, now, then)
CanCompareMissing(a, now, then) ==
  SameMetrics(a, now, then) /\ Covers(a, now) /\ Covers(a, then)

-----------------------------------------------------------------------------
(* The readers.                                                            *)

\* compareScanFindings: the class of the finding, if it has one.
Change(a, now, then) ==
  IF now.severity = Absent
    THEN IF CanCompareMissing(a, now, then) THEN "resolved" ELSE "unknown"
  ELSE IF ~SameMetrics(a, now, then) THEN "unknown"
  ELSE IF then.severity = Absent
    THEN IF CanCompareMissing(a, now, then) THEN "new" ELSE "unknown"
  ELSE CASE now.severity > then.severity -> "worsened"
         [] now.severity < then.severity -> "improved"
         [] OTHER -> "unchanged"

\* detectScanDegradations, then the filter of persistScanCompletion.
Detected(a, now, then) ==
  /\ now.severity >= Medium
  /\ IF then.severity = Absent THEN CanCompareNew(a, then) ELSE now.severity > then.severity
Mailed(a, now, then) ==
  /\ Detected(a, now, then) /\ SameMetrics(a, now, then)
  /\ then.severity # Absent \/ CanCompareMissing(a, now, then)

\* getOrganizationOverview: a new major finding is counted.
Counted(a, now, then) ==
  now.severity >= High /\ then.severity = Absent /\ CanCompareNew(a, then)

-----------------------------------------------------------------------------

\* Two completed scans of one mode are compared: a mail's and a report's with
\* the newest before it, a page's also with the one its reader chose.
Compare ==
  /\ reading = {}
  /\ \E a \in Analyzers, now, then \in Tellings :
       /\ now.severity # Absent \/ then.severity # Absent
       /\ reading' = {[analyzer |-> a, now |-> now, then |-> then]}

Next == Compare

TypeOK == \A r \in reading : r \in [analyzer: Analyzers, now: Tellings, then: Tellings]

\* The readers tell one story: read backwards, what is new is resolved and
\* what is worse is better, so that no order of two scans hides or invents a
\* change; a mail is sent of exactly what the page calls new or worse, from
\* the medium severity on; the overview misses nothing major the page calls
\* new; and what the page calls resolved, a follow-up or an incident may take
\* for resolved.
Backwards == [new |-> "resolved", resolved |-> "new", worsened |-> "improved",
              improved |-> "worsened", unchanged |-> "unchanged", unknown |-> "unknown"]
ReadersAgree ==
  \A r \in reading :
    LET a == r.analyzer  now == r.now  then == r.then
        change == Change(a, now, then)
    IN  /\ Change(a, then, now) = Backwards[change]
        /\ Mailed(a, now, then) <=> change \in {"new", "worsened"} /\ now.severity >= Medium
        /\ change = "new" /\ now.severity >= High => Counted(a, now, then)
        /\ change = "resolved" => CanResolve(a, now, then)
=============================================================================
