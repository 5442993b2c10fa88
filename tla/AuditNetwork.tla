---------------------------- MODULE AuditNetwork ----------------------------
(***************************************************************************)
(* The network of one deep audit: the budget ledger, the HTTP probe and    *)
(* the browser whose traffic passes a local proxy (budget-ledger.ts,       *)
(* guarded-http-transport.ts, http-probe.ts, guarded-browser-transport.ts, *)
(* browser-runtime.ts, safe-browser-proxy.ts of apps/worker), then the     *)
(* analysis and the coverage that is stored (deep-candidate.ts, engine.ts, *)
(* check-persistence.ts).                                                  *)
(*                                                                         *)
(* The scope is one origin, on http or https.  Every transport asks the    *)
(* monitor of the lease before it goes on (assertCurrent): a lost lease    *)
(* aborts the audit, which Abort stands for; what follows an answer runs   *)
(* without interruption, and is one action.                                *)
(***************************************************************************)
EXTENDS Naturals, FiniteSets

CONSTANTS Document,     \* the document the browser navigates to
          Resources,    \* what it asks for beside it
          MaxRequests, MaxHostRequests, MaxPages, MaxBytes, MaxLookups, MaxHandshakes,
          MaxRedirects,
          TunnelBytes, BodyBytes,   \* the proxy's own caps of a tunnel and of an answer
          Sizes         \* the sizes of a transfer or of a piece of one

VARIABLES secure,       \* the origin is https
          ledger, late, \* the budget, and whether its time is over
          stage, probe, request,
          exhausted,    \* no page is left: pageBudgetExhausted
          proxy,        \* the proxy's own counters
          seen,         \* the observations made
          report,       \* the coverage stored with the results
          traffic,      \* history: lookups begun, connections made by the
                        \* probe and by the proxy, bytes let through
          refused,      \* history: the ledger refused something in scope
          cut           \* history: a transfer was cut for the audit's bytes

vars == <<secure, ledger, late, stage, probe, request, exhausted, proxy, seen, report,
          traffic, refused, cut>>

Requests == Resources \cup {Document}

-----------------------------------------------------------------------------
(* The ledger.                                                             *)

Kinds == <<"requests", "pages", "bytes", "dns", "tls">>
Kind == {Kinds[i] : i \in DOMAIN Kinds}
Limit == [requests |-> MaxRequests, pages |-> MaxPages, bytes |-> MaxBytes,
          dns |-> MaxLookups, tls |-> MaxHandshakes]
Nothing == [k \in Kind |-> 0]
Tls == IF secure THEN 1 ELSE 0
Lookup == [Nothing EXCEPT !.dns = 1, !.tls = Tls]

FitsBefore(k, n) == ledger.used[k] < Limit[k] \/ n = 0
Fits(k, n) == ledger.used[k] + n <= Limit[k]

\* reserveMany: the first limit that does not hold is the reason, and then
\* nothing is taken.
Denials(cost) ==
  IF late THEN {"time"}
  ELSE IF cost.requests > 0 /\ ledger.host + cost.requests > MaxHostRequests THEN {"host"}
  ELSE {Kinds[i] : i \in {i \in DOMAIN Kinds : /\ ~Fits(Kinds[i], cost[Kinds[i]])
                                               /\ \A j \in 1..i-1 : Fits(Kinds[j], cost[Kinds[j]])}}
Grants(cost) == Denials(cost) = {}
Mark(reasons) == [ledger EXCEPT !.reasons = @ \cup reasons]
Reserve(cost) ==
  IF Grants(cost)
  THEN [ledger EXCEPT !.used = [k \in Kind |-> @[k] + cost[k]], !.host = @ + cost.requests]
  ELSE Mark(Denials(cost))

\* checkNetwork: a byte or time stop is terminal.  The first leaves its
\* reason in the ledger already, the second leaves it now.
Stopped == "bytes" \in ledger.reasons \/ late
StopReasons == IF "bytes" \notin ledger.reasons /\ late THEN {"time"} ELSE {}

-----------------------------------------------------------------------------

Init ==
  /\ secure \in BOOLEAN /\ late = FALSE
  /\ ledger = [used |-> Nothing, host |-> 0, reasons |-> {}]
  /\ stage = "probe" /\ probe = [pc |-> "request", hops |-> 0]
  /\ request = [r \in Requests |-> [pc |-> "none", inScope |-> FALSE, bytes |-> 0]]
  /\ exhausted = FALSE /\ proxy = [requests |-> 0, bytes |-> 0]
  /\ seen = {} /\ report = "none"
  /\ traffic = [dns |-> 0, probed |-> 0, proxied |-> 0, bytes |-> 0]
  /\ refused = FALSE /\ cut = FALSE

Browsing == <<request, exhausted, proxy>>
Refuses(cost) == refused' = (refused \/ ~Grants(cost))
Closing(open) == [r \in Requests |-> IF request[r].pc \in open THEN [request[r] EXCEPT !.pc = "closed"]
                                     ELSE request[r]]
Pcs == {"none", "target", "lookup", "resolved", "sent", "open", "closed"}

\* maxDurationMs has passed.  The proxy's lifetime ends with it: whatever is
\* open is destroyed.
TimeIsOver ==
  /\ ~late /\ stage \notin {"stored", "aborted"} /\ late' = TRUE
  /\ request' = Closing({"sent", "open"})
  /\ UNCHANGED <<secure, ledger, stage, probe, exhausted, proxy, seen, report, traffic, refused, cut>>

\* The lease or the authorization is lost, or the process stops: the signal
\* closes every transport and nothing is stored.
Abort ==
  /\ stage \notin {"stored", "aborted"} /\ stage' = "aborted"
  /\ request' = Closing(Pcs)
  /\ UNCHANGED <<secure, ledger, late, probe, exhausted, proxy, seen, report, traffic, refused, cut>>

-----------------------------------------------------------------------------
(* The HTTP probe.                                                         *)

Probing(pc) == stage = "probe" /\ probe.pc = pc
\* The probe failed: its reason is marked and there is no observation; the
\* browser is not started.
ProbeFails(l, reasons) ==
  /\ ledger' = [l EXCEPT !.reasons = @ \cup reasons]
  /\ stage' = "analysis" /\ UNCHANGED <<probe, seen>>
ProbeGoes(pc) == probe' = [probe EXCEPT !.pc = pc] /\ UNCHANGED <<stage, seen>>
NoBrowser == UNCHANGED <<secure, late, Browsing, report, cut>>

\* beforeRequest, then the lookup.
ProbeRequest ==
  LET cost == [Lookup EXCEPT !.requests = 1]
  IN  /\ Probing("request") /\ NoBrowser
      /\ IF Stopped THEN ProbeFails(ledger, StopReasons) /\ UNCHANGED <<traffic, refused>>
         ELSE IF Grants(cost)
         THEN /\ ProbeGoes("lookup") /\ ledger' = Reserve(cost)
              /\ traffic' = [traffic EXCEPT !.dns = @ + 1] /\ UNCHANGED refused
         ELSE /\ ProbeFails(Reserve(cost), {})
              /\ refused' = TRUE /\ UNCHANGED traffic

\* The name is resolved, is not, or not in time.
ProbeResolved ==
  /\ Probing("lookup") /\ NoBrowser /\ UNCHANGED <<traffic, refused>>
  /\ \/ ProbeGoes("connect") /\ UNCHANGED ledger
     \/ \E reason \in {"dns-failed", "time"} : ProbeFails(ledger, {reason})

\* beforeConnect, then the connection.
ProbeConnect ==
  /\ Probing("connect") /\ NoBrowser /\ UNCHANGED refused
  /\ IF Stopped THEN ProbeFails(ledger, StopReasons) /\ UNCHANGED traffic
     ELSE /\ ProbeGoes("transfer") /\ UNCHANGED ledger
          /\ traffic' = [traffic EXCEPT !.probed = @ + 1]

\* The request fails before anything is transferred.
ProbeUnanswered ==
  /\ Probing("transfer") /\ NoBrowser /\ UNCHANGED <<traffic, refused>>
  /\ ProbeFails(ledger, {"failed"})

\* What was transferred is reserved afterwards, also when the request fails.
\* The answer is a page, a redirection, one that is not followed, or a
\* failure; one of TLS is an observation too.
ProbeAnswer ==
  /\ Probing("transfer") /\ NoBrowser
  /\ \E n \in Sizes :
       LET cost == [Nothing EXCEPT !.bytes = n]
           l == Reserve(cost)
       IN  /\ Refuses(cost)
           /\ IF ~Grants(cost) THEN ProbeFails(l, {}) /\ UNCHANGED traffic
              ELSE /\ traffic' = [traffic EXCEPT !.bytes = @ + n]
                   /\ \/ stage' = "launch" /\ seen' = {"http"} /\ ledger' = l /\ UNCHANGED probe
                      \/ /\ probe.hops < MaxRedirects /\ ledger' = l /\ UNCHANGED <<stage, seen>>
                         /\ probe' = [pc |-> "request", hops |-> probe.hops + 1]
                      \/ \E reasons \in {{}, {"scope"}, {"failed"}} :
                           /\ stage' = "analysis" /\ seen' = {"http"} /\ UNCHANGED probe
                           /\ ledger' = [l EXCEPT !.reasons = @ \cup reasons]
                      \/ ProbeFails(l, {"failed"})

-----------------------------------------------------------------------------
(* The browser.                                                            *)

Outcome == <<secure, late, probe, report>>

OnePage == [Nothing EXCEPT !.pages = 1]

\* The browser is started if the budget is not spent.
Launch ==
  /\ stage = "launch" /\ UNCHANGED <<Outcome, Browsing, seen, traffic, refused, cut>>
  /\ IF Stopped THEN stage' = "analysis" /\ ledger' = Mark(StopReasons)
     ELSE stage' = "starting" /\ UNCHANGED ledger

\* It does not start, or its page is refused and closed, or it is there.
Start ==
  /\ stage = "starting" /\ UNCHANGED <<Outcome, request, proxy, seen, traffic, cut>>
  /\ \/ stage' = "analysis" /\ ledger' = Mark({"failed"}) /\ UNCHANGED <<exhausted, refused>>
     \/ /\ exhausted' = ~Grants(OnePage) /\ Refuses(OnePage)
        /\ IF Grants(OnePage)
           THEN stage' = "browsing" /\ ledger' = Reserve(OnePage)
           ELSE stage' = "analysis" /\ ledger' = Mark(Denials(OnePage) \cup {"failed"})

Running == stage = "browsing"
\* The page opens another one.
OpenPage ==
  /\ Running /\ ~exhausted /\ ledger' = Reserve(OnePage)
  /\ exhausted' = ~Grants(OnePage) /\ Refuses(OnePage)
  /\ UNCHANGED <<Outcome, stage, request, proxy, seen, traffic, cut>>

Request(r, pc) == request' = [request EXCEPT ![r].pc = pc]
At(r, pc) == Running /\ request[r].pc = pc
Page == <<Outcome, stage, exhausted, seen>>

\* A guard's refusal: what leaves the scope is refused without a mark, and so
\* is everything once no page is left (that left its own); a stop is marked.
TurnAway(r, inScope) ==
  /\ Request(r, "closed") /\ refused' = (refused \/ inScope)
  /\ ledger' = IF inScope /\ ~exhausted THEN Mark(StopReasons) ELSE ledger

\* allowRequest, for what the page asks for once it is there.
Route(r) ==
  LET cost == [Nothing EXCEPT !.requests = 1]
  IN  /\ At(r, "none") /\ UNCHANGED <<Page, proxy, traffic, cut>>
      /\ r # Document => request[Document].bytes > 0
      /\ \E inScope \in BOOLEAN :
           IF ~inScope \/ exhausted \/ Stopped
           THEN TurnAway(r, inScope)
           ELSE /\ ledger' = Reserve(cost) /\ Refuses(cost)
                /\ IF Grants(cost)
                   THEN request' = [request EXCEPT ![r].pc = "target", ![r].inScope = TRUE]
                   ELSE Request(r, "closed")

\* A redirection or an early connection reaches the proxy unrouted.
Unrouted(r) ==
  /\ At(r, "none") /\ r # Document /\ UNCHANGED <<Page, ledger, proxy, traffic, refused, cut>>
  /\ \E inScope \in BOOLEAN :
       request' = [request EXCEPT ![r].pc = "target", ![r].inScope = inScope]

\* allowProxyTarget, then the lookup.
Target(r) ==
  /\ At(r, "target") /\ UNCHANGED <<Page, proxy, cut>>
  /\ IF ~request[r].inScope \/ Stopped
     THEN /\ Request(r, "closed") /\ refused' = (refused \/ request[r].inScope) /\ UNCHANGED traffic
          /\ ledger' = IF request[r].inScope THEN Mark(StopReasons) ELSE ledger
     ELSE /\ ledger' = Reserve(Lookup) /\ Refuses(Lookup)
          /\ IF Grants(Lookup)
             THEN Request(r, "lookup") /\ traffic' = [traffic EXCEPT !.dns = @ + 1]
             ELSE Request(r, "closed") /\ UNCHANGED traffic

Resolved(r) ==
  /\ At(r, "lookup") /\ UNCHANGED <<Page, ledger, proxy, traffic, refused, cut>>
  /\ Request(r, "resolved") \/ Request(r, "closed")

\* allowProxyConnection asks again, as the lookup took its time.
StillInScope(r) == request[r].inScope
StillAllowed(r) == request[r].inScope /\ ~Stopped

\* consumeBytes: the proxy's own total is tested first, against the bytes of
\* the whole audit; only then the ledger is asked.  counted and sent are the
\* counters of the proxy and the traffic so far.
BytesOf(n) == [Nothing EXCEPT !.bytes = n]
OwnTotal(n) == proxy.bytes + n <= MaxBytes
Forward(r, then, n, counted, sent) ==
  IF OwnTotal(n) /\ Grants(BytesOf(n))
  THEN /\ request' = [request EXCEPT ![r] = then]
       /\ ledger' = Reserve(BytesOf(n)) /\ proxy' = [counted EXCEPT !.bytes = @ + n]
       /\ traffic' = [sent EXCEPT !.bytes = @ + n] /\ UNCHANGED <<refused, cut>>
  ELSE /\ Request(r, "closed") /\ proxy' = counted /\ UNCHANGED traffic
       /\ IF OwnTotal(n) THEN ledger' = Reserve(BytesOf(n)) /\ refused' = TRUE
          ELSE UNCHANGED <<ledger, refused>>
       /\ cut' = (cut \/ ~OwnTotal(n) \/ "bytes" \in Denials(BytesOf(n)))

\* consumeRequest: the proxy counts its requests, with limits of its own.
Counted == [proxy EXCEPT !.requests = @ + 1]
TooMany == Counted.requests > MaxRequests \/ Counted.requests > MaxHostRequests
Connecting == [traffic EXCEPT !.proxied = @ + 1]

\* No connection: a stop came meanwhile, or there are too many requests, of
\* which the answer 429 tells but no mark.
TurnedAway(r) ==
  /\ At(r, "resolved") /\ Request(r, "closed") /\ UNCHANGED <<Page, proxy, traffic, cut>>
  /\ IF StillAllowed(r) THEN TooMany /\ UNCHANGED <<ledger, refused>>
     ELSE ledger' = Mark(StopReasons) /\ refused' = TRUE
May(r) == At(r, "resolved") /\ StillAllowed(r) /\ ~TooMany /\ UNCHANGED Page

\* CONNECT, for https.
Tunnel(r) ==
  /\ secure /\ May(r) /\ Request(r, "open")
  /\ proxy' = Counted /\ traffic' = Connecting /\ UNCHANGED <<ledger, refused, cut>>
\* A piece in either direction: past the tunnel's own cap it is cut.
Chunk(r) ==
  /\ secure /\ At(r, "open") /\ UNCHANGED Page
  /\ \E n \in Sizes :
       IF request[r].bytes + n > TunnelBytes
       THEN Request(r, "closed") /\ UNCHANGED <<ledger, proxy, traffic, refused, cut>>
       ELSE Forward(r, [request[r] EXCEPT !.bytes = @ + n], n, proxy, traffic)

\* http: a method that is not allowed, an URL that is none ...
BadRequest(r) ==
  /\ ~secure /\ At(r, "target") /\ Request(r, "closed")
  /\ UNCHANGED <<Page, ledger, proxy, traffic, refused, cut>>
\* ... or the head is accounted and sent, ...
PlainRequest(r) ==
  /\ ~secure /\ May(r)
  /\ \E n \in Sizes : Forward(r, [request[r] EXCEPT !.pc = "sent"], n, Counted, Connecting)
\* ... as is the head of the answer ...
PlainAnswer(r) ==
  /\ At(r, "sent") /\ UNCHANGED Page
  /\ \E n \in Sizes : Forward(r, [request[r] EXCEPT !.pc = "open"], n, proxy, traffic)
\* ... and its body, which has a cap.
PlainChunk(r) ==
  /\ ~secure /\ At(r, "open") /\ UNCHANGED Page
  /\ \E n \in Sizes :
       IF request[r].bytes + n > BodyBytes
       THEN Request(r, "closed") /\ UNCHANGED <<ledger, proxy, traffic, refused, cut>>
       ELSE Forward(r, [request[r] EXCEPT !.bytes = @ + n], n, proxy, traffic)

\* The connection ends, fails or takes its time, or never came about.
Ends(r) == Request(r, "closed") /\ UNCHANGED <<Page, ledger, proxy, traffic, refused, cut>>
TunnelEnds(r) == secure /\ At(r, "open") /\ Ends(r)
PlainEnds(r) == ~secure /\ (At(r, "open") \/ At(r, "sent")) /\ Ends(r)

\* The document is there and the page is observed; or the navigation fails,
\* times out or has left the scope.  Either way the session is closed.
Observe ==
  /\ Running /\ stage' = "analysis"
  /\ request' = Closing(Pcs)
  /\ \/ request[Document].bytes > 0 /\ seen' = seen \cup {"browser"} /\ UNCHANGED ledger
     \/ \E reason \in {"failed", "scope"} : ledger' = Mark({reason}) /\ UNCHANGED seen
  /\ UNCHANGED <<Outcome, exhausted, proxy, traffic, refused, cut>>

-----------------------------------------------------------------------------
(* The analysis and what is stored.                                        *)

\* The checks of each observation: skipped without it or out of time;
\* completed, completed on limited evidence, or failed.
Outcomes(check) ==
  IF check \notin seen \/ late THEN {"skipped"} ELSE {"completed", "limited", "failed"}

\* persistDeepCheckRuns: the reasons of the ledger, of every check that did
\* not complete, and of limited evidence.
PartialByLedger(runs, reasons) == reasons # {}
Partial(runs, reasons) == reasons # {} \/ \E check \in DOMAIN runs : runs[check] # "completed"

\* The limits may be reached while the checks run, which is when they count.
Analyze ==
  /\ stage = "analysis" /\ stage' = "stored"
  /\ \E runs \in {f \in [{"http", "browser"} -> {"skipped", "completed", "limited", "failed"}] :
                    \A check \in DOMAIN f : f[check] \in Outcomes(check)} :
       report' = [runs |-> runs, partial |-> Partial(runs, ledger.reasons)]
  /\ ledger' = IF late /\ seen # {} THEN Mark({"time"}) ELSE ledger
  /\ UNCHANGED <<secure, late, probe, Browsing, seen, traffic, refused, cut>>

Next ==
  \/ TimeIsOver \/ Abort
  \/ ProbeRequest \/ ProbeResolved \/ ProbeConnect \/ ProbeUnanswered \/ ProbeAnswer
  \/ Launch \/ Start \/ OpenPage \/ Observe \/ Analyze
  \/ \E r \in Requests : \/ Route(r) \/ Unrouted(r) \/ Target(r) \/ Resolved(r)
                         \/ TurnedAway(r) \/ Tunnel(r) \/ Chunk(r) \/ TunnelEnds(r)
                         \/ BadRequest(r) \/ PlainRequest(r) \/ PlainAnswer(r) \/ PlainChunk(r)
                         \/ PlainEnds(r)

Spec == Init /\ [][Next]_vars

-----------------------------------------------------------------------------

Reasons == {"requests", "pages", "bytes", "dns", "tls", "time", "host", "scope", "dns-failed", "failed"}
TypeOK ==
  /\ ledger.used \in [Kind -> Nat] /\ ledger.reasons \subseteq Reasons
  /\ stage \in {"probe", "launch", "starting", "browsing", "analysis", "stored", "aborted"}
  /\ \A r \in Requests : request[r].pc \in Pcs
  /\ seen \subseteq {"http", "browser"}

\* Connections made.  On http each is one request sent; on https each is a
\* TLS connection, and the requests inside it nobody adds up.
Connections == traffic.probed + traffic.proxied

\* What went over the network stays within the profile, whatever the probe,
\* the pages and the connections did at the same time, and whether the page
\* asked for it through the route or a redirection led to the proxy past it:
\* the lookups, the bytes that were let through, and the connections, none of
\* which is made without a lookup of its own and, on https, a TLS connection
\* of the profile.  A limit of requests holds for the connections of the
\* probe and for those of the proxy, each by itself: the ledger counts what
\* is routed, the proxy what it connects, and no counter has both.
TrafficWithinProfile ==
  /\ traffic.dns <= MaxLookups /\ traffic.bytes <= MaxBytes
  /\ Connections <= traffic.dns
  /\ secure => Connections <= MaxHandshakes
  /\ \A sent \in {traffic.probed, traffic.proxied} : sent <= MaxRequests /\ sent <= MaxHostRequests

\* After a stop for bytes or time no lookup and no connection is begun, not
\* even by a request that was let through before and awaited its lookup.
StopIsTerminal ==
  [][Stopped => /\ traffic'.dns = traffic.dns
                /\ traffic'.probed = traffic.probed /\ traffic'.proxied = traffic.proxied]_vars

\* A report that does not call itself partial rests on both observations,
\* every check has completed on them, and the ledger refused nothing that
\* was in scope.
FullCoverageIsFull ==
  stage = "stored" /\ ~report.partial =>
    /\ seen = {"http", "browser"} /\ ~refused
    /\ \A check \in {"http", "browser"} : report.runs[check] = "completed"

\* A transfer cut because the bytes of the audit are spent leaves its reason
\* in the ledger.  (docs/operations/v3-deep-activation.md:73, under "Timeout
\* ou budget depasse": "Les transports marquent la couverture partielle avec
\* une raison explicite.")
CutsAreRecorded == cut => "bytes" \in ledger.reasons
=============================================================================
