---------------------------- MODULE NetworkProofs ----------------------------
(***************************************************************************)
(* Theorems of Components about what the scans and audits ask the network  *)
(* for, for any number of URLs, pages, responses and requests, whatever    *)
(* their answers are; and about what is concluded from it: the comparison  *)
(* of two scans, the decisions about third parties, the matching of        *)
(* versions.                                                               *)
(***************************************************************************)
EXTENDS Components, FiniteSetTheorems, TLAPS

---------------------------------------------------------------------------
(* The requests beside the browser (BoundedFetch).                         *)

\* What is connected to was checked.
FetchInv ==
  /\ step = "connect" => hop \in Proper /\ pinned \in Public
  /\ B!ConnectionsAreChecked

LEMMA FetchStarts == B!Init => FetchInv
BY DEF B!Init, FetchInv, B!ConnectionsAreChecked

LEMMA FetchSteps ==
  ASSUME FetchInv, [B!Next]_(B!vars)
  PROVE  FetchInv'
<1> USE DEF FetchInv, B!ConnectionsAreChecked, B!Ends, B!hop
<1>1. CASE B!Check
  BY <1>1 DEF B!Check, B!AllPublic
<1>2. CASE B!Connect
  BY <1>2 DEF B!Connect, B!ByPin
<1>3. CASE B!Broken
  BY <1>3 DEF B!Broken
<1>4. CASE B!Redirect
  BY <1>4 DEF B!Redirect
<1>5. CASE B!Settle
  BY <1>5 DEF B!Settle
<1>6. CASE B!Successful
  BY Zenon, <1>6 DEF B!Successful
<1>7. CASE B!Receive
  BY Zenon, <1>7 DEF B!Receive, B!Data
<1>8. CASE B!EndOfBody
  BY <1>8 DEF B!EndOfBody
<1>9. CASE B!DeadlinePasses
  BY <1>9 DEF B!DeadlinePasses
<1>10. CASE UNCHANGED B!vars
  BY <1>10 DEF B!vars
<1> QED
  BY <1>1, <1>2, <1>3, <1>4, <1>5, <1>6, <1>7, <1>8, <1>9, <1>10 DEF B!Next

\* What is read of a body stays below the limit.
TextInv ==
  /\ received \in Nat
  /\ step \in {"check", "connect", "answer"} => received = 0
  /\ step = "body" => received <= FetchBytes
  /\ B!TextIsWhole

LEMMA TextStarts == B!Init => TextInv
BY DEF B!Init, TextInv, B!TextIsWhole

LEMMA TextSteps ==
  ASSUME TextInv, [B!Next]_(B!vars)
  PROVE  TextInv'
<1>1. CASE B!Successful
  <2>1. received' = received /\ received = 0
    BY Zenon, <1>1 DEF B!Successful, B!Ends, B!hop, TextInv
  <2>2. step' \in {"too large", "body"}
    BY Zenon, <1>1 DEF B!Successful, B!Ends
  <2>3. received' \in Nat /\ received' <= FetchBytes
    BY <2>1, FetchAssumption
  <2> QED
    BY Zenon, <2>2, <2>3 DEF TextInv, B!TextIsWhole
<1>2. CASE B!Receive
  <2>1. received' = received + 1 /\ received \in Nat
    BY Zenon, <1>2 DEF B!Receive, B!Data, TextInv
  <2>2. step' \in {"too large", "body"} /\ (received' > FetchBytes => step' = "too large")
    BY Zenon, <1>2 DEF B!Receive, B!Data, B!Ends
  <2>3. received' \in Nat /\ (received' <= FetchBytes \/ received' > FetchBytes)
    BY <2>1, FetchAssumption
  <2> QED
    BY Zenon, <2>2, <2>3 DEF TextInv, B!TextIsWhole
<1>3. CASE B!EndOfBody
  BY <1>3 DEF B!EndOfBody, B!Ends, B!body, TextInv, B!TextIsWhole
<1>4. CASE \/ B!Check \/ B!Connect \/ B!Broken \/ B!Redirect \/ B!Settle \/ B!DeadlinePasses
           \/ UNCHANGED B!vars
  <2>1. /\ UNCHANGED <<received, length>>
        /\ \/ step' = step
           \/ step' \notin {"body", "text"} /\ step \in {"check", "connect", "answer"}
           \/ step' \notin {"check", "connect", "answer", "body", "text"}
    BY <1>4 DEF B!Check, B!Connect, B!Broken, B!Redirect, B!Settle, B!DeadlinePasses, B!vars,
       B!Ends,
                B!body
  <2> QED
    BY <2>1 DEF TextInv, B!TextIsWhole
<1> QED
  BY <1>1, <1>2, <1>3, <1>4 DEF B!Next

---------------------------------------------------------------------------
(* The crawl of a public audit (Crawl).                                    *)

\* Every origin whose rules were read is one of the site's, and what was let
\* through was allowed by rules that nobody adds to.
Allowed == public => C!LetThrough
CrawlInv ==
  /\ public \in BOOLEAN
  /\ phase = "robots" => loaded = {} /\ requested = {}
  /\ C!Same(Origin[FirstPage], home)
  /\ \A o \in loaded : C!Same(Origin[FirstPage], o)
  /\ Allowed

LEMMA SameOrigins ==
  /\ \A o : C!Same(o, o)
  /\ \A o, p, q : C!Same(o, p) /\ C!Same(p, q) => C!Same(o, q)
BY DEF C!Same

LEMMA CrawlStarts == C!Init => CrawlInv
BY SameOrigins DEF C!Init, CrawlInv, Allowed, C!LetThrough

\* The rules of an origin are read once.
LEMMA PoliciesAreRead ==
  ASSUME CrawlInv, NEW o, o \notin loaded, C!Same(Origin[FirstPage], o), C!Policy(o),
         requested' = requested, public' = public
  PROVE  /\ \A p \in loaded' : C!Same(Origin[FirstPage], p)
         /\ Allowed'
<1>1. PICK pages \in SUBSET {p \in Pages : Origin[p] = o} :
         loaded' = loaded \cup {o} /\ forbidden' = forbidden \cup pages
  BY DEF C!Policy
<1>2. \A p \in loaded' : C!Same(Origin[FirstPage], p)
  BY <1>1 DEF CrawlInv
<1>3. ASSUME public, NEW p \in requested
      PROVE  Origin[p] \in loaded' /\ p \notin forbidden' /\ C!Same(Origin[FirstPage], Origin[p])
  <2>1. Origin[p] \in loaded /\ p \notin forbidden /\ C!Same(Origin[FirstPage], Origin[p])
    BY <1>3 DEF CrawlInv, Allowed, C!LetThrough
  <2>2. p \notin pages
    BY <1>1, <2>1
  <2> QED
    BY <1>1, <2>1, <2>2
<1> QED
  BY <1>2, <1>3 DEF Allowed, C!LetThrough

LEMMA DocumentsAreAllowed ==
  ASSUME CrawlInv, NEW p, NEW sent \in BOOLEAN, C!Document(p, sent),
         public' = public, home' = home, phase # "robots", phase' # "robots"
  PROVE  CrawlInv'
<1> USE DEF CrawlInv, Allowed, C!LetThrough
<1>1. CASE ~public
  BY <1>1 DEF C!Document, C!Sent, C!policies
<1>2. CASE public /\ ~sent /\ UNCHANGED C!policies
  BY <1>2 DEF C!Document, C!Blocked, C!policies, Allowed, C!Sent
<1>3. CASE public /\ (sent \/ ~(UNCHANGED C!policies))
  <2>1. /\ C!Within(p)
        /\ \/ UNCHANGED C!policies
           \/ Origin[p] \notin loaded /\ C!Policy(Origin[p])
        /\ sent = C!Permitted(p, loaded', forbidden')
        /\ IF sent THEN C!Sent(p) ELSE UNCHANGED requested
    BY <1>3 DEF C!Document, C!Blocked, C!policies
  <2>2. C!Same(Origin[FirstPage], Origin[p])
    BY <2>1, SameOrigins DEF C!Within
  <2>3. /\ \A o \in loaded' : C!Same(Origin[FirstPage], o)
        /\ \A q \in requested : /\ Origin[q] \in loaded' /\ q \notin forbidden'
                                /\ C!Same(Origin[FirstPage], Origin[q])
    <3>1. CASE UNCHANGED C!policies
      BY <1>3, <3>1 DEF C!policies
    <3>2. CASE Origin[p] \notin loaded /\ C!Policy(Origin[p])
      <4>1. PICK pages \in SUBSET {q \in Pages : Origin[q] = Origin[p]} :
              loaded' = loaded \cup {Origin[p]} /\ forbidden' = forbidden \cup pages
        BY <3>2 DEF C!Policy
      <4>2. \A q \in requested : /\ Origin[q] \in loaded /\ q \notin forbidden
                                 /\ C!Same(Origin[FirstPage], Origin[q])
        BY <1>3 DEF Allowed
      <4>3. \A q \in requested : q \notin pages
        BY <3>2, <4>1, <4>2
      <4>4. \A o \in loaded' : C!Same(Origin[FirstPage], o)
        BY <2>2, <4>1
      <4> QED
        BY <4>1, <4>2, <4>3, <4>4
    <3> QED
      BY <2>1, <3>1, <3>2
  <2>4. requested' = requested \/ (requested' = requested \cup {p} /\ Origin[p] \in loaded' /\ p \notin forbidden')
    BY <2>1 DEF C!Permitted, C!Sent
  <2>5. Allowed'
    BY <2>2, <2>3, <2>4 DEF Allowed
  <2> QED
    BY <2>3, <2>5
<1> QED
  BY <1>1, <1>2, <1>3

LEMMA CrawlSteps ==
  ASSUME CrawlInv, [C!Next]_(C!vars)
  PROVE  CrawlInv'
<1> USE DEF CrawlInv, Allowed, C!LetThrough
<1>1. CASE C!ReadRobots
  BY <1>1 DEF C!ReadRobots, C!policies, C!Policy, C!history
<1>2. CASE C!Request
  <2>1. PICK sent \in BOOLEAN : C!Document(url, sent) /\ phase' = IF sent THEN "answer" ELSE "fails"
    BY <1>2 DEF C!Request
  <2>2. public' = public /\ home' = home /\ phase # "robots" /\ phase' # "robots"
    BY <1>2, <2>1 DEF C!Request
  <2> QED
    BY <2>1, <2>2, DocumentsAreAllowed
<1>3. CASE C!Frame
  <2>1. PICK p \in Pages \ {url}, sent \in BOOLEAN : C!Document(p, sent)
    BY <1>3 DEF C!Frame
  <2>2. public' = public /\ home' = home /\ phase # "robots" /\ phase' # "robots"
    BY <1>3 DEF C!Frame
  <2> QED
    BY <2>1, <2>2, DocumentsAreAllowed
<1>4. CASE C!Arrive
  <2>1. /\ C!Same(Origin[FirstPage], home') /\ UNCHANGED <<public, loaded, forbidden, requested>>
        /\ phase' # "robots"
    BY <1>4 DEF C!Arrive, C!NewHome, C!Moves, C!policies, C!history
  <2> QED
    BY <2>1 DEF Allowed
<1>5. CASE C!Take \/ C!Redirected \/ C!Unanswered \/ C!Fail \/ C!Collapse \/ C!Extract \/ C!Candidate
           \/ C!Finish \/ C!DeadlinePasses \/ UNCHANGED C!vars
  <2>1. UNCHANGED <<public, home, loaded, forbidden, requested>> /\ (phase' = "robots" => phase = "robots")
    BY <1>5 DEF C!Take, C!Redirected, C!Unanswered, C!Fail, C!Collapse, C!Extract, C!Candidate,
                C!Finish, C!DeadlinePasses, C!policies, C!history, C!vars
  <2> QED
    BY <2>1 DEF Allowed
<1> QED
  BY <1>1, <1>2, <1>3, <1>4, <1>5 DEF C!Next

---------------------------------------------------------------------------
(* What a crawl that is complete has settled.                              *)

Limited == flags \cap {"unread", "budget", "restricted", "unavailable", "exhausted"} # {}
\* The first navigation is not over.
Early == FirstPage \notin taken \/ (phase \in {"request", "answer", "fails"} /\ target = FirstPage)
Waits(p) == \E i \in DOMAIN queue : queue[i] = p
Comes(p) == phase = "candidates" /\ \E i \in DOMAIN hrefs : hrefs[i] = p

CrawlTypes ==
  /\ entry \in [Pages -> C!States] /\ alias \in [Pages -> Pages]
  /\ queue \in Seq(Pages) /\ hrefs \in Seq(Pages) /\ links \subseteq Pages
  /\ phase \in {"request", "answer", "fails"} => target \in Pages /\ url \in Pages

\* The home moves before there are links only.
FirstIsAlone ==
  /\ FirstPage \notin taken => taken = {}
  /\ phase = "robots" => taken = {}
  /\ phase \in {"request", "answer", "fails"} => target \in taken
  /\ Early => /\ links = {} /\ phase \notin {"links", "candidates"}
              /\ \A p \in Pages : alias[p] = p /\ (p # FirstPage => entry[p] = "none")
              /\ \A i \in DOMAIN queue : queue[i] = FirstPage
\* Every link of it is or was queued, unless the crawl is limited ...
LinksAreFollowed ==
  \A p \in links : Origin[p] = home => p \in taken \/ Waits(p) \/ Limited \/ Comes(p)
\* ... and what is queued is tracked, or was taken over by another page.
QueueIsTracked ==
  \A p \in Pages : Waits(p) =>
    p \in taken \/ alias[p] # p \/ entry[p] \in {"queued", "visited", "failed"} \/ Limited
EntriesAreKept ==
  \A p \in Pages : /\ alias[p] # p => entry[alias[p]] \in {"visited", "failed"}
                   /\ entry[p] \in {"over", "disallowed"} => Limited
                   /\ entry[p] = "queued" => p \in taken \/ Waits(p)
                   /\ entry[p] = "ignored" => Origin[p] # home
\* A public audit that cannot read the rules of its home is limited.
RulesLimit ==
  /\ public /\ home \notin loaded /\ phase # "robots" => "unavailable" \in flags
  /\ "stop" \in flags => "unavailable" \in flags

TrackerInv ==
  /\ CrawlTypes /\ FirstIsAlone /\ LinksAreFollowed /\ QueueIsTracked /\ EntriesAreKept
  /\ RulesLimit /\ C!CompleteCrawlIsWhole

LEMMA TrackerStarts == C!Init => TrackerInv
<1> SUFFICES ASSUME C!Init PROVE TrackerInv
  OBVIOUS
<1>1. /\ entry \in [Pages -> C!States] /\ alias \in [Pages -> Pages]
      /\ queue = <<FirstPage>> /\ hrefs = <<>> /\ flags = {} /\ links = {} /\ loaded = {}
      /\ phase \in {"robots", "next"} /\ (public => phase = "robots") /\ taken = {}
      /\ \A p \in Pages : alias[p] = p /\ entry[p] = (IF p = FirstPage THEN "queued" ELSE "none")
  BY DEF C!Init, C!States
<1>2. queue \in Seq(Pages) /\ hrefs \in Seq(Pages) /\ \A p : Waits(p) <=> p = FirstPage
  BY <1>1, PagesAssumption DEF Waits
<1>3. \A i \in DOMAIN queue : queue[i] = FirstPage
  BY <1>1
<1> QED
  BY <1>1, <1>2, <1>3 DEF TrackerInv, CrawlTypes, FirstIsAlone, LinksAreFollowed, QueueIsTracked,
                         EntriesAreKept, RulesLimit, Early, C!CompleteCrawlIsWhole

---------------------------------------------------------------------------
\* A crawl that goes on leaves the tracker alone.
LEMMA CrawlGoesOn ==
  ASSUME TrackerInv, UNCHANGED <<public, home, queue, taken, entry, alias, links, target>>,
         phase' \in {"request", "answer", "fails"} => url' \in Pages,
         loaded \subseteq loaded', flags \subseteq flags',
         "stop" \in flags' => "unavailable" \in flags', hrefs' \in Seq(Pages),
         phase' # "complete",
         phase' = "robots" <=> phase = "robots",
         Early' => Early /\ phase' \notin {"links", "candidates"},
         phase = "candidates" => phase' = "candidates" /\ hrefs' = hrefs,
         phase' \in {"request", "answer", "fails"} => phase \in {"request", "answer", "fails"}
  PROVE  TrackerInv'
<1>1. Limited => Limited'
  BY DEF Limited
<1>2. \A p : (Waits(p)' <=> Waits(p)) /\ (Comes(p) => Comes(p)')
  BY DEF Waits, Comes
<1>3. CrawlTypes'
  BY DEF CrawlTypes, TrackerInv
<1>4. C!CompleteCrawlIsWhole'
  BY DEF C!CompleteCrawlIsWhole
<1>5. FirstIsAlone'
  BY DEF TrackerInv, FirstIsAlone
<1>6. LinksAreFollowed'
  BY <1>1, <1>2 DEF TrackerInv, LinksAreFollowed
<1>7. QueueIsTracked'
  BY <1>1, <1>2 DEF TrackerInv, QueueIsTracked
<1>8. EntriesAreKept'
  BY <1>1, <1>2 DEF TrackerInv, EntriesAreKept
<1>9. RulesLimit'
  BY DEF TrackerInv, RulesLimit
<1> QED
  BY <1>3, <1>4, <1>5, <1>6, <1>7, <1>8, <1>9 DEF TrackerInv

---------------------------------------------------------------------------
\* While there is no link to follow and the pages of the crawl have no entry,
\* a refusal or an error ends it.
LEMMA RobotsTracked ==
  ASSUME TrackerInv, C!ReadRobots
  PROVE  TrackerInv'
<1>1. /\ UNCHANGED <<public, home, queue, alias, links, taken, hrefs, target, url>>
      /\ phase' \in {"refused", "next"} /\ phase = "robots" /\ flags \subseteq flags'
      /\ \/ entry' = entry
         \/ entry' = [entry EXCEPT ![FirstPage] = "disallowed"] /\ "restricted" \in flags'
      /\ "stop" \in flags' => "stop" \in flags
      /\ home \in loaded' \/ "unavailable" \in flags'
  BY DEF C!ReadRobots, C!Policy, C!policies, C!navigation, C!history
<1>2. /\ Limited => Limited'
      /\ \A p : Waits(p)' <=> Waits(p)
      /\ entry' = entry \/ (entry' = [entry EXCEPT ![FirstPage] = "disallowed"] /\ Limited')
  BY <1>1 DEF Limited, Waits
<1>3. CrawlTypes' /\ RulesLimit' /\ C!CompleteCrawlIsWhole'
  BY <1>1 DEF TrackerInv, CrawlTypes, RulesLimit, C!CompleteCrawlIsWhole, C!States
<1>4. FirstIsAlone' /\ LinksAreFollowed'
  BY <1>1, <1>2 DEF TrackerInv, CrawlTypes, FirstIsAlone, LinksAreFollowed, Early, Comes
<1>5. QueueIsTracked'
  BY <1>1, <1>2 DEF TrackerInv, CrawlTypes, QueueIsTracked
<1>6. ASSUME NEW p \in Pages
      PROVE  /\ alias'[p] # p => entry'[alias'[p]] \in {"visited", "failed"}
             /\ entry'[p] \in {"over", "disallowed"} => Limited'
             /\ entry'[p] = "queued" => p \in taken' \/ Waits(p)'
             /\ entry'[p] = "ignored" => Origin[p] # home'
  <2>1. \A q \in Pages : alias[q] = q
    BY <1>1 DEF TrackerInv, FirstIsAlone, Early
  <2>2. CASE entry' = entry
    BY <1>1, <1>2, <1>6, <2>2 DEF TrackerInv, EntriesAreKept
  <2>3. CASE entry' = [entry EXCEPT ![FirstPage] = "disallowed"] /\ Limited'
    BY <1>1, <1>2, <1>6, <2>1, <2>3 DEF TrackerInv, CrawlTypes, EntriesAreKept
  <2> QED
    BY <1>2, <2>2, <2>3
<1> QED
  BY <1>3, <1>4, <1>5, <1>6 DEF TrackerInv, EntriesAreKept

---------------------------------------------------------------------------
LEMMA NavigationTracked ==
  ASSUME TrackerInv, C!Request \/ C!Frame \/ C!Redirected \/ C!Unanswered \/ C!Collapse \/ C!DeadlinePasses
  PROVE  TrackerInv'
<1>1. /\ UNCHANGED <<public, home, queue, entry, alias, links, target, hrefs, taken>>
      /\ \/ url' = url
         \/ C!Redirected /\ url' \in Pages
  BY DEF C!Request, C!Frame, C!Redirected, C!Unanswered, C!Collapse, C!DeadlinePasses,
         C!navigation, C!tracker, C!history
<1>2. \/ C!Over /\ FALSE
      \/ phase' = phase
      \/ phase \in {"request", "answer"} /\ phase' \in {"request", "answer", "fails", "error"}
  BY DEF C!Request, C!Frame, C!Redirected, C!Unanswered, C!Collapse, C!DeadlinePasses
<1>3. phase \notin {"complete"} 
  BY DEF C!Request, C!Frame, C!Redirected, C!Unanswered, C!Collapse, C!DeadlinePasses, C!Over
<1>4. loaded \subseteq loaded' /\ flags \subseteq flags'
      /\ ("stop" \in flags' => "stop" \in flags \/ "unavailable" \in flags')
  <2>1. CASE C!Redirected \/ C!Unanswered \/ C!Collapse \/ C!DeadlinePasses
    BY <2>1 DEF C!Redirected, C!Unanswered, C!Collapse, C!DeadlinePasses, C!policies
  <2>2. ASSUME NEW p, NEW sent, C!Document(p, sent)
        PROVE  loaded \subseteq loaded' /\ flags \subseteq flags'
               /\ ("stop" \in flags' => "stop" \in flags \/ "unavailable" \in flags')
    BY <2>2 DEF C!Document, C!Sent, C!Blocked, C!Policy, C!policies
  <2> QED
    BY <2>1, <2>2 DEF C!Request, C!Frame
<1>5. Early' => Early /\ phase' \notin {"links", "candidates"}
  BY <1>1, <1>2 DEF Early, TrackerInv, FirstIsAlone
<1>6. phase' \in {"request", "answer", "fails"} => url' \in Pages /\ phase \in {"request", "answer", "fails"}
  BY <1>1, <1>2 DEF TrackerInv, CrawlTypes
<1>7. /\ phase' # "complete"
      /\ phase' = "robots" <=> phase = "robots"
      /\ phase = "candidates" => phase' = "candidates" /\ hrefs' = hrefs
      /\ hrefs' \in Seq(Pages)
      /\ "stop" \in flags' => "unavailable" \in flags'
  BY <1>1, <1>2, <1>3, <1>4 DEF TrackerInv, CrawlTypes, RulesLimit
<1> QED
  BY <1>1, <1>4, <1>5, <1>6, <1>7, CrawlGoesOn

LEMMA TakeTracked ==
  ASSUME TrackerInv, C!Take
  PROVE  TrackerInv'
<1>1. /\ UNCHANGED <<public, home, loaded, entry, alias, links, flags, hrefs>>
      /\ phase = "next" /\ queue # <<>> /\ queue' = Tail(queue)
      /\ taken' = taken \cup {Head(queue)}
      /\ \/ phase' = "next" /\ Head(queue) \in taken /\ UNCHANGED <<target, url>>
         \/ phase' = "request" /\ Head(queue) \notin taken /\ target' = Head(queue) /\ url' = Head(queue)
  BY DEF C!Take, C!policies, C!tracker, C!navigation, C!history
<1>2. queue \in Seq(Pages) /\ Head(queue) \in Pages /\ queue' \in Seq(Pages)
      /\ \A i \in DOMAIN queue' : i + 1 \in DOMAIN queue /\ queue'[i] = queue[i + 1]
      /\ 1 \in DOMAIN queue /\ queue[1] = Head(queue)
  BY <1>1 DEF TrackerInv, CrawlTypes
<1>3. ASSUME NEW p, Waits(p) PROVE p = Head(queue) \/ Waits(p)'
  <2>1. PICK i \in DOMAIN queue : queue[i] = p
    BY <1>3 DEF Waits
  <2>2. CASE i = 1
    BY <1>2, <2>1, <2>2
  <2>3. CASE i # 1
    <3>1. i - 1 \in DOMAIN queue' /\ queue'[i - 1] = p
      BY <1>1, <1>2, <2>1, <2>3
    <3> QED
      BY <3>1 DEF Waits
  <2> QED
    BY <2>2, <2>3
<1>4. \A p : Waits(p)' => Waits(p)
  BY <1>2 DEF Waits
<1>5. CrawlTypes' /\ RulesLimit' /\ C!CompleteCrawlIsWhole'
  BY <1>1, <1>2 DEF TrackerInv, CrawlTypes, RulesLimit, C!CompleteCrawlIsWhole
<1>6. FirstIsAlone'
  <2>1. Early' => Early
    BY <1>1 DEF Early
  <2>2. FirstPage \notin taken => Head(queue) = FirstPage
    BY <1>1, <1>2 DEF Early, TrackerInv, FirstIsAlone
  <2> QED
    BY <1>1, <1>2, <2>1, <2>2 DEF TrackerInv, FirstIsAlone
<1>7. Limited' <=> Limited
  BY <1>1 DEF Limited
<1>8. LinksAreFollowed'
  BY <1>1, <1>3, <1>7 DEF TrackerInv, LinksAreFollowed, Comes
<1>9. QueueIsTracked'
  BY <1>1, <1>4, <1>7 DEF TrackerInv, QueueIsTracked
<1>10. EntriesAreKept'
  BY <1>1, <1>3, <1>7 DEF TrackerInv, EntriesAreKept
<1> QED
  BY <1>5, <1>6, <1>8, <1>9, <1>10 DEF TrackerInv

LEMMA FailTracked ==
  ASSUME TrackerInv, C!Fail
  PROVE  TrackerInv'
<1>1. /\ UNCHANGED <<public, home, loaded, queue, alias, links, flags, hrefs, taken, target, url>>
      /\ phase = "fails" /\ target \in Pages
  BY DEF C!Fail, C!policies, C!navigation, C!history, TrackerInv, CrawlTypes
<1>2. CASE target = FirstPage
  <2>1. entry' = entry /\ phase' \in {"refused", "error"}
    BY <1>2 DEF C!Fail
  <2>2. Early' => Early
    BY <1>1, <2>1 DEF Early
  <2> QED
    BY <1>1, <2>1, <2>2, CrawlGoesOn DEF TrackerInv, CrawlTypes, RulesLimit
<1>3. CASE target # FirstPage
  <2>1. /\ phase' = "next"
        /\ entry' = [entry EXCEPT ![target] = IF entry[target] = "none" THEN "none" ELSE "failed"]
    BY <1>3 DEF C!Fail
  <2>2. (Limited' <=> Limited) /\ (\A p : Waits(p)' <=> Waits(p)) /\ (Early' => Early)
    BY <1>1, <2>1 DEF Limited, Waits, Early
  <2>3. CrawlTypes' /\ RulesLimit' /\ C!CompleteCrawlIsWhole'
    BY <1>1, <2>1 DEF TrackerInv, CrawlTypes, RulesLimit, C!CompleteCrawlIsWhole, C!States
  <2>4. FirstIsAlone'
    <3>1. \A p \in Pages : entry[p] = "none" => entry'[p] = "none"
      BY <2>1 DEF TrackerInv, CrawlTypes
    <3> QED
      BY <1>1, <2>1, <2>2, <3>1 DEF TrackerInv, FirstIsAlone
  <2>5. LinksAreFollowed'
    BY <1>1, <2>1, <2>2 DEF TrackerInv, LinksAreFollowed, Comes
  <2>6. \A p \in Pages : entry'[p] = entry[p] \/ (entry[p] # "none" /\ entry'[p] = "failed")
    BY <1>1, <2>1 DEF TrackerInv, CrawlTypes
  <2>7. QueueIsTracked'
    BY <1>1, <2>2, <2>6 DEF TrackerInv, QueueIsTracked
  <2>8. EntriesAreKept'
    <3>1. \A p \in Pages : alias[p] \in Pages
      BY DEF TrackerInv, CrawlTypes
    <3> QED
      BY <1>1, <2>2, <2>6, <3>1 DEF TrackerInv, EntriesAreKept
  <2> QED
    BY <2>3, <2>4, <2>5, <2>7, <2>8 DEF TrackerInv
<1> QED
  BY <1>2, <1>3

LEMMA FinishTracked ==
  ASSUME TrackerInv, C!Finish
  PROVE  TrackerInv'
<1>1. /\ UNCHANGED <<public, home, loaded, queue, alias, links, hrefs, taken, target, url>>
      /\ phase = "next" /\ phase' \in {"unavailable", "partial", "complete"} /\ flags \subseteq flags'
      /\ phase' = "complete" => ~Limited'
      /\ "stop" \in flags' => "stop" \in flags
      /\ \/ queue = <<>> /\ UNCHANGED <<entry, flags>>
         \/ /\ entry' = [p \in Pages |-> IF p \in C!Left THEN "over" ELSE entry[p]]
            /\ C!Left = {} \/ Limited'
  BY DEF C!Finish, C!policies, C!navigation, C!history, Limited
<1>2. (Limited => Limited') /\ \A p : Waits(p)' <=> Waits(p)
  BY <1>1 DEF Limited, Waits
<1>3. /\ CrawlTypes
      /\ \A p \in Pages : entry'[p] = entry[p] \/ (entry[p] = "queued" /\ entry'[p] = "over" /\ Limited')
      /\ queue # <<>> => Limited' \/ \A p \in Pages : entry[p] # "queued"
  BY <1>1 DEF C!Left, TrackerInv, CrawlTypes
<1>4. CrawlTypes'
  BY <1>1, <1>3 DEF CrawlTypes, C!States, C!Left
<1>5. RulesLimit' /\ FirstIsAlone'
  BY <1>1, <1>3 DEF TrackerInv, RulesLimit, FirstIsAlone, Early
<1>6. LinksAreFollowed' /\ QueueIsTracked'
  BY <1>1, <1>2, <1>3 DEF TrackerInv, LinksAreFollowed, QueueIsTracked, Comes
<1>7. \A p \in Pages : alias[p] \in Pages
  BY <1>3 DEF CrawlTypes
<1>8. EntriesAreKept'
  BY <1>1, <1>2, <1>3, <1>7 DEF TrackerInv, EntriesAreKept
<1>9. queue = <<>> => \A p : ~Waits(p)
  BY DEF Waits
<1>10. ASSUME phase' = "complete" PROVE C!CompleteCrawlIsWhole'
  <2>1. ~Limited' /\ ~Limited /\ entry' = entry
    BY <1>1, <1>2, <1>3, <1>4, <1>10 DEF CrawlTypes
  <2>2. ASSUME NEW p \in links', Origin[p] = home' PROVE C!Settled(p)'
    <3>1. p \in Pages /\ (p \in taken \/ Waits(p))
      BY <1>1, <2>1, <2>2 DEF TrackerInv, CrawlTypes, LinksAreFollowed, Comes
    <3>2. p \in taken \/ alias[p] # p \/ entry[p] \in {"visited", "failed"}
      BY <1>3, <1>9, <2>1, <3>1 DEF TrackerInv, QueueIsTracked
    <3> QED
      BY <1>1, <2>1, <3>1, <3>2 DEF TrackerInv, EntriesAreKept, C!Settled
  <2>3. ASSUME NEW p \in Pages
        PROVE  entry'[p] \notin {"over", "disallowed"} /\ (entry'[p] = "queued" => p \in taken')
    BY <1>1, <1>3, <1>9, <2>1 DEF TrackerInv, EntriesAreKept
  <2> QED
    BY <2>2, <2>3 DEF C!CompleteCrawlIsWhole
<1>11. phase' # "complete" => C!CompleteCrawlIsWhole'
  BY DEF C!CompleteCrawlIsWhole
<1> QED
  BY <1>4, <1>5, <1>6, <1>8, <1>10, <1>11 DEF TrackerInv

---------------------------------------------------------------------------
\* A public audit that strayed ends.
LEMMA StrayTracked ==
  ASSUME TrackerInv, C!Arrive, C!Strays
  PROVE  TrackerInv'
<1>1. /\ UNCHANGED <<public, home, loaded, queue, links, target, url, entry, alias, flags, hrefs>>
      /\ taken \subseteq taken' /\ phase = "answer" /\ phase' = "refused" /\ target = FirstPage
  BY DEF C!Arrive, C!Strays, C!Shifts, C!policies, C!tracker, C!navigation, C!history
<1>2. (Limited' <=> Limited) /\ (\A p : Waits(p)' <=> Waits(p)) /\ (\A p : ~Comes(p)) /\ ~Early'
  <2>1. FirstPage \in taken
    BY <1>1 DEF TrackerInv, FirstIsAlone
  <2> QED
    BY <1>1, <2>1 DEF Limited, Waits, Comes, Early
<1>3. CrawlTypes' /\ RulesLimit' /\ C!CompleteCrawlIsWhole'
  BY <1>1 DEF TrackerInv, CrawlTypes, RulesLimit, C!CompleteCrawlIsWhole
<1>4. FirstIsAlone'
  BY <1>1, <1>2 DEF TrackerInv, FirstIsAlone, Early
<1>5. LinksAreFollowed'
  BY <1>1, <1>2 DEF TrackerInv, LinksAreFollowed
<1>6. QueueIsTracked' /\ EntriesAreKept'
  BY <1>1, <1>2 DEF TrackerInv, QueueIsTracked, EntriesAreKept
<1> QED
  BY <1>3, <1>4, <1>5, <1>6 DEF TrackerInv

LEMMA ArriveTracked ==
  ASSUME TrackerInv, C!Arrive, ~C!Strays
  PROVE  TrackerInv'
<1>1. /\ UNCHANGED <<public, loaded, queue, links, target, url>> /\ taken \subseteq taken'
      /\ phase = "answer" /\ phase' \in {"links", "next"} /\ flags \subseteq flags'
      /\ hrefs' \in Hrefs \/ hrefs' = hrefs
      /\ home' = home \/ target = FirstPage
      /\ public /\ home' \notin loaded /\ home' # home => "unavailable" \in flags'
      /\ "stop" \in flags' => "stop" \in flags \/ "unavailable" \in flags'
      /\ C!Visit
  BY DEF C!Arrive, C!NewHome, C!Moves, C!Shifts, C!policies, C!navigation, C!history
<1>2. target \in Pages /\ url \in Pages /\ target \in taken /\ FirstPage \in taken
  BY <1>1 DEF TrackerInv, CrawlTypes, FirstIsAlone
<1>3. \/ UNCHANGED <<entry, alias>> /\ entry[target] = "none"
      \/ /\ entry[target] # "none"
         /\ entry' = [entry EXCEPT ![target] = "visited",
                                   ![url] = IF url # target /\ @ = "queued" THEN "none"
                                            ELSE IF url = target THEN "visited" ELSE @]
         /\ alias' = IF url # target /\ entry[url] \in {"none", "queued"}
                     THEN [alias EXCEPT ![url] = target] ELSE alias
  BY <1>1 DEF C!Visit, C!tracker
<1>4. /\ entry' \in [Pages -> C!States] /\ alias' \in [Pages -> Pages]
      /\ \A p \in Pages :
           \/ entry'[p] = entry[p] /\ (p = target => entry[p] \in {"none", "visited"})
           \/ p = target /\ entry'[p] = "visited"
           \/ p = url /\ entry[p] = "queued" /\ entry'[p] = "none" /\ alias'[p] # p
      /\ \A p \in Pages :
           \/ alias'[p] = alias[p]
           \/ alias'[p] = target /\ alias'[p] # p /\ entry'[target] = "visited"
  BY <1>2, <1>3 DEF TrackerInv, CrawlTypes, C!States
<1>5. (Limited => Limited') /\ (\A p : Waits(p)' <=> Waits(p)) /\ ~Early' /\ ~Comes(FirstPage)
      /\ \A p : ~Comes(p)
  BY <1>1, <1>2 DEF Limited, Waits, Early, Comes
<1>6. home' # home => Early
  BY <1>1 DEF Early
<1>7. CrawlTypes' /\ C!CompleteCrawlIsWhole'
  BY <1>1, <1>4, PagesAssumption DEF TrackerInv, CrawlTypes, C!CompleteCrawlIsWhole
<1>8. FirstIsAlone' /\ RulesLimit'
  BY <1>1, <1>2, <1>5 DEF FirstIsAlone, TrackerInv, RulesLimit
<1>9. LinksAreFollowed'
  BY <1>1, <1>5, <1>6 DEF TrackerInv, LinksAreFollowed, FirstIsAlone
<1>10. QueueIsTracked'
  <2>1. SUFFICES ASSUME NEW p \in Pages, Waits(p), p \notin taken', ~Limited'
                 PROVE  alias'[p] # p \/ entry'[p] \in {"queued", "visited", "failed"}
    BY <1>5 DEF QueueIsTracked
  <2>2. alias[p] # p \/ entry[p] \in {"queued", "visited", "failed"}
    BY <1>1, <1>5, <2>1 DEF TrackerInv, QueueIsTracked
  <2> QED
    BY <1>4, <2>1, <2>2
<1>11. EntriesAreKept'
  <2>1. SUFFICES ASSUME NEW p \in Pages
        PROVE  /\ alias'[p] # p => entry'[alias'[p]] \in {"visited", "failed"}
               /\ entry'[p] \in {"over", "disallowed"} => Limited'
               /\ entry'[p] = "queued" => p \in taken' \/ Waits(p)'
               /\ entry'[p] = "ignored" => Origin[p] # home'
    BY DEF EntriesAreKept
  <2>2. alias[p] \in Pages /\ (alias[p] # p => entry[alias[p]] \in {"visited", "failed"})
    BY DEF TrackerInv, CrawlTypes, EntriesAreKept
  <2>3. alias'[p] # p => entry'[alias'[p]] \in {"visited", "failed"}
    BY <1>4, <2>2
  <2>4. /\ entry'[p] \in {"over", "disallowed"} => Limited'
        /\ entry'[p] = "queued" => p \in taken' \/ Waits(p)'
    BY <1>1, <1>4, <1>5 DEF TrackerInv, EntriesAreKept
  <2>5. entry'[p] = "ignored" => Origin[p] # home'
    BY <1>1, <1>4, <1>6 DEF TrackerInv, EntriesAreKept, FirstIsAlone
  <2> QED
    BY <2>3, <2>4, <2>5
<1> QED
  BY <1>7, <1>8, <1>9, <1>10, <1>11 DEF TrackerInv

LEMMA ExtractTracked ==
  ASSUME TrackerInv, C!Extract
  PROVE  TrackerInv'
<1>1. UNCHANGED <<public, home, loaded, queue, taken, entry, alias, target, url>> /\ phase = "links"
  BY DEF C!Extract, C!policies, C!tracker, C!navigation
<1>2. ~Early /\ \A p : ~Comes(p)
  BY <1>1 DEF TrackerInv, FirstIsAlone, Comes
<1>3. CASE flags' = flags \cup {"unread"} /\ phase' = "next" /\ hrefs' = <<>> /\ UNCHANGED links
  <2>1. ~Early' /\ hrefs' \in Seq(Pages) /\ ("stop" \in flags' => "unavailable" \in flags')
    BY <1>1, <1>2, <1>3 DEF Early, TrackerInv, RulesLimit
  <2> QED
    BY <1>1, <1>3, <2>1, CrawlGoesOn
<1>4. CASE phase' = "candidates" /\ links' = links \cup {hrefs[i] : i \in DOMAIN hrefs}
           /\ UNCHANGED <<flags, hrefs>>
  <2>1. (Limited' <=> Limited) /\ (\A p : Waits(p)' <=> Waits(p)) /\ ~Early'
    BY <1>1, <1>2, <1>4 DEF Limited, Waits, Early
  <2>2. \A p \in links' : p \in links \/ Comes(p)'
    BY <1>4 DEF Comes
  <2>3. CrawlTypes' /\ RulesLimit' /\ C!CompleteCrawlIsWhole'
    BY <1>1, <1>4 DEF TrackerInv, CrawlTypes, RulesLimit, C!CompleteCrawlIsWhole
  <2>4. FirstIsAlone'
    BY <1>1, <1>4, <2>1 DEF TrackerInv, FirstIsAlone
  <2>5. LinksAreFollowed'
    BY <1>1, <1>2, <2>1, <2>2 DEF TrackerInv, LinksAreFollowed
  <2>6. QueueIsTracked' /\ EntriesAreKept'
    BY <1>1, <2>1 DEF TrackerInv, QueueIsTracked, EntriesAreKept
  <2> QED
    BY <2>3, <2>4, <2>5, <2>6 DEF TrackerInv
<1> QED
  BY <1>3, <1>4 DEF C!Extract

---------------------------------------------------------------------------
\* A link of another site is only noted, one of the site is limited, known or
\* appended.
LEMMA CandidateTracked ==
  ASSUME TrackerInv, C!Candidate
  PROVE  TrackerInv'
<1>1. /\ UNCHANGED <<public, home, loaded, taken, alias, links, target, url>> /\ phase = "candidates"
      /\ hrefs \in Seq(Pages) /\ phase' \in {"next", "candidates"}
  BY DEF C!Candidate, C!policies, C!navigation, C!history, TrackerInv, CrawlTypes
<1>2. ~Early /\ ~Early'
  BY <1>1 DEF TrackerInv, FirstIsAlone, Early
<1>3. CASE hrefs = <<>>
  <2>1. UNCHANGED <<hrefs, entry, flags, queue>> /\ phase' = "next" /\ \A p : ~Comes(p)
    BY <1>3 DEF C!Candidate, Comes
  <2>2. (Limited' <=> Limited) /\ \A p : Waits(p)' <=> Waits(p)
    BY <2>1 DEF Limited, Waits
  <2>3. CrawlTypes' /\ RulesLimit' /\ C!CompleteCrawlIsWhole' /\ FirstIsAlone'
    BY <1>1, <1>2, <2>1 DEF TrackerInv, CrawlTypes, RulesLimit, C!CompleteCrawlIsWhole, FirstIsAlone
  <2>4. LinksAreFollowed' /\ QueueIsTracked' /\ EntriesAreKept'
    BY <1>1, <2>1, <2>2 DEF TrackerInv, LinksAreFollowed, QueueIsTracked, EntriesAreKept
  <2> QED
    BY <2>3, <2>4 DEF TrackerInv
<1>4. CASE hrefs # <<>>
  <2>0. PICK p \in Pages : p = Head(hrefs)
    BY <1>1, <1>4
  <2>1. p = hrefs[1] /\ hrefs' = Tail(hrefs) /\ phase' = "candidates"
    BY <1>1, <1>4, <2>0 DEF C!Candidate
  <2>2. \A q : Comes(q) => q = p \/ Comes(q)'
    <3>1. SUFFICES ASSUME NEW q, Comes(q), q # p PROVE Comes(q)'
      OBVIOUS
    <3>2. PICK i \in DOMAIN hrefs : hrefs[i] = q
      BY <3>1 DEF Comes
    <3>3. i - 1 \in DOMAIN hrefs' /\ hrefs'[i - 1] = q
      BY <1>1, <1>4, <2>1, <3>1, <3>2
    <3> QED
      BY <2>1, <3>3 DEF Comes
  <2>3. \/ /\ Origin[p] # home /\ UNCHANGED <<flags, queue>>
           /\ entry' = [entry EXCEPT ![p] = IF @ = "none" THEN "ignored" ELSE @]
        \/ /\ Origin[p] = home /\ public /\ ("stop" \in flags \/ home \notin loaded)
           /\ UNCHANGED <<entry, flags, queue>>
        \/ Origin[p] = home /\ C!LeftOut(p)
        \/ Origin[p] = home /\ C!Known(p) /\ C!Discovered(p, "queued") /\ UNCHANGED <<flags, queue>>
        \/ Origin[p] = home /\ C!Refused(p)
        \/ /\ Origin[p] = home /\ C!Discovered(p, "queued") /\ queue' = Append(queue, p)
           /\ UNCHANGED flags
    BY <1>4, <2>0 DEF C!Candidate, C!Stopped
  <2>4. \/ \* the entry of p
           /\ Origin[p] # home /\ UNCHANGED <<flags, queue>>
           /\ entry' = [entry EXCEPT ![p] = IF @ = "none" THEN "ignored" ELSE @]
        \/ Origin[p] = home /\ Limited /\ UNCHANGED <<entry, flags, queue>>
        \/ /\ Origin[p] = home /\ Limited' /\ flags \subseteq flags' /\ UNCHANGED queue
           /\ "stop" \in flags' => "stop" \in flags
           /\ \E s \in {"over", "disallowed"} :
                entry' = [entry EXCEPT ![p] = IF alias[p] = p /\ @ = "none" THEN s ELSE @]
        \/ /\ Origin[p] = home /\ UNCHANGED flags
           /\ entry' = [entry EXCEPT ![p] = IF alias[p] = p /\ @ = "none" THEN "queued" ELSE @]
           /\ \/ C!Known(p) /\ UNCHANGED queue
              \/ queue' = Append(queue, p)
    BY <1>1, <2>3 DEF C!LeftOut, C!Refused, C!Discovered, Limited, TrackerInv, RulesLimit
  <2>5. /\ entry' \in [Pages -> C!States] /\ flags \subseteq flags'
        /\ "stop" \in flags' => "stop" \in flags
        /\ \A q \in Pages :
             \/ entry'[q] = entry[q]
             \/ /\ q = p /\ entry[q] = "none"
                /\ \/ Origin[p] # home /\ entry'[p] = "ignored"
                   \/ Origin[p] = home /\ Limited' /\ entry'[p] \in {"over", "disallowed"}
                   \/ Origin[p] = home /\ entry'[p] = "queued"
    BY <2>1, <2>4 DEF TrackerInv, CrawlTypes, C!States
  <2>6. queue \in Seq(Pages) /\ (queue' = queue \/ queue' = Append(queue, p))
    BY <2>4 DEF TrackerInv, CrawlTypes
  <2>7. \A q : Waits(q) => Waits(q)'
    <3>1. SUFFICES ASSUME NEW q, NEW i \in DOMAIN queue, queue[i] = q PROVE Waits(q)'
      BY DEF Waits
    <3>2. i \in DOMAIN queue' /\ queue'[i] = q
      BY <2>1, <2>6, <3>1
    <3> QED
      BY <3>2 DEF Waits
  <2>8. queue' = Append(queue, p) => Waits(p)'
    <3>1. SUFFICES ASSUME queue' = Append(queue, p) PROVE Waits(p)'
      OBVIOUS
    <3>2. Len(queue) + 1 \in DOMAIN queue' /\ queue'[Len(queue) + 1] = p
      BY <2>1, <2>6, <3>1
    <3> QED
      BY <3>2 DEF Waits
  <2>9. \A q : Waits(q)' => Waits(q) \/ (q = p /\ queue' = Append(queue, p))
    <3>1. SUFFICES ASSUME NEW q, NEW i \in DOMAIN queue', queue'[i] = q, queue' = Append(queue, p)
                   PROVE  Waits(q) \/ q = p
      BY <2>6 DEF Waits
    <3>2. i = Len(queue) + 1 \/ (i \in DOMAIN queue /\ queue[i] = q)
      BY <2>1, <2>6, <3>1
    <3>3. i = Len(queue) + 1 => q = p
      BY <2>1, <2>6, <3>1
    <3> QED
      BY <3>2, <3>3 DEF Waits
  <2>10. Limited => Limited'
    BY <2>5 DEF Limited
  <2>11. C!Known(p) => p \in taken \/ Waits(p)
    BY DEF C!Known, Waits
  <2>12. Origin[p] = home => p \in taken' \/ Waits(p)' \/ Limited'
    BY <1>1, <2>4, <2>7, <2>8, <2>10, <2>11
  <2>13. CrawlTypes'
    BY <1>1, <1>4, <2>1, <2>5, <2>6 DEF TrackerInv, CrawlTypes
  <2>14. FirstIsAlone' /\ RulesLimit' /\ C!CompleteCrawlIsWhole'
    BY <1>1, <1>2, <2>1, <2>5 DEF TrackerInv, FirstIsAlone, RulesLimit, C!CompleteCrawlIsWhole
  <2>15. LinksAreFollowed'
    BY <1>1, <2>2, <2>7, <2>10, <2>12 DEF TrackerInv, LinksAreFollowed
  <2>16. QueueIsTracked'
    <3>1. SUFFICES ASSUME NEW q \in Pages, Waits(q)', q \notin taken', alias[q] = q, ~Limited'
                   PROVE  entry'[q] \in {"queued", "visited", "failed"}
      BY <1>1 DEF QueueIsTracked
    <3>2. CASE Waits(q)
      BY <1>1, <2>5, <2>10, <3>1, <3>2 DEF TrackerInv, QueueIsTracked
    <3>3. CASE q = p /\ queue' = Append(queue, p)
      <4>1. queue' # queue
        BY <2>1, <2>6, <3>3
      <4>2. Origin[p] = home
            /\ entry' = [entry EXCEPT ![p] = IF alias[p] = p /\ @ = "none" THEN "queued" ELSE @]
        BY <2>4, <3>3, <4>1
      <4>3. entry[p] \in C!States /\ (entry[p] \in {"over", "disallowed"} => Limited)
            /\ entry[p] # "ignored"
        BY <2>1, <4>2 DEF TrackerInv, CrawlTypes, EntriesAreKept
      <4>4. entry'[p] = IF entry[p] = "none" THEN "queued" ELSE entry[p]
        BY <2>1, <3>1, <3>3, <4>2 DEF TrackerInv, CrawlTypes
      <4> QED
        BY <2>10, <3>1, <3>3, <4>3, <4>4 DEF C!States
    <3> QED
      BY <2>9, <3>1, <3>2, <3>3
  <2>17. EntriesAreKept'
    <3>1. SUFFICES ASSUME NEW q \in Pages
          PROVE  /\ alias[q] # q => entry'[alias[q]] \in {"visited", "failed"}
                 /\ entry'[q] \in {"over", "disallowed"} => Limited'
                 /\ entry'[q] = "queued" => q \in taken' \/ Waits(q)'
                 /\ entry'[q] = "ignored" => Origin[q] # home
      BY <1>1 DEF EntriesAreKept
    <3>2. alias[q] \in Pages /\ (alias[q] # q => entry[alias[q]] \in {"visited", "failed"})
      BY DEF TrackerInv, CrawlTypes, EntriesAreKept
    <3>3. alias[q] # q => entry'[alias[q]] \in {"visited", "failed"}
      BY <2>5, <3>2
    <3>4. entry'[q] \in {"over", "disallowed"} => Limited'
      BY <2>5, <2>10 DEF TrackerInv, EntriesAreKept
    <3>5. entry'[q] = "ignored" => Origin[q] # home
      BY <2>5 DEF TrackerInv, EntriesAreKept
    <3>6. entry'[q] = "queued" => q \in taken' \/ Waits(q)'
      <4>1. CASE entry'[q] = entry[q]
        BY <1>1, <2>7, <4>1 DEF TrackerInv, EntriesAreKept
      <4>2. CASE entry'[q] # entry[q] /\ entry'[q] = "queued"
        <5>1. q = p /\ Origin[p] = home
          BY <2>5, <4>2
        <5>2. ~Limited' => p \in taken' \/ Waits(p)'
          BY <2>12, <5>1
        <5>3. C!Known(p) \/ queue' = Append(queue, p)
          BY <2>1, <2>4, <4>2, <5>1 DEF TrackerInv, CrawlTypes
        <5> QED
          BY <1>1, <2>7, <2>8, <2>11, <5>1, <5>3
      <4> QED
        BY <4>1, <4>2
    <3> QED
      BY <3>3, <3>4, <3>5, <3>6
  <2> QED
    BY <2>13, <2>14, <2>15, <2>16, <2>17 DEF TrackerInv
<1> QED
  BY <1>3, <1>4

LEMMA TrackerSteps ==
  ASSUME TrackerInv, [C!Next]_(C!vars)
  PROVE  TrackerInv'
<1>1. CASE UNCHANGED C!vars
  <2>1. C!CompleteCrawlIsWhole'
    BY <1>1 DEF C!vars, TrackerInv, C!CompleteCrawlIsWhole, C!Settled
  <2>2. (Limited' <=> Limited) /\ (\A p : Waits(p)' <=> Waits(p)) /\ (\A p : Comes(p)' <=> Comes(p))
        /\ (Early' <=> Early)
    BY <1>1 DEF C!vars, Limited, Waits, Comes, Early
  <2> QED
    BY <1>1, <2>1, <2>2 DEF C!vars, TrackerInv, CrawlTypes, FirstIsAlone, LinksAreFollowed,
       QueueIsTracked,
                            EntriesAreKept, RulesLimit
<1> QED
  BY <1>1, RobotsTracked, NavigationTracked, TakeTracked, FailTracked, FinishTracked, StrayTracked,
     ArriveTracked, ExtractTracked, CandidateTracked DEF C!Next

---------------------------------------------------------------------------
(* What a public audit will still navigate to.                             *)

\* Before the first navigation is over nothing else is queued; then what is
\* queued was allowed by the rules of the home, which nobody adds to.
QueueInv ==
  /\ FirstPage \notin taken => queue = <<FirstPage>> /\ home = Origin[FirstPage]
  /\ phase \in {"request", "answer", "fails"} /\ target = FirstPage => queue = <<>>
  /\ public => C!Ahead

LEMMA QueueStarts == C!Init => QueueInv
BY DEF C!Init, QueueInv, C!Ahead

\* A step that leaves the queue and the home alone, and adds no rules to those
\* that were read.
LEMMA QueueStays ==
  ASSUME QueueInv, UNCHANGED <<public, home, queue, taken, target>>,
         phase \in {"robots", "refused"} => phase' \in {"robots", "refused"},
         phase' \in {"request", "answer", "fails"} => phase \in {"request", "answer", "fails"},
         loaded \subseteq loaded',
         \A p : Origin[p] \in loaded /\ p \notin forbidden => p \notin forbidden'
  PROVE  QueueInv'
<1>1. public /\ phase' \notin {"robots", "refused"} =>
        \A i \in DOMAIN queue : Origin[queue[i]] = home /\ home \in loaded' /\ queue[i] \notin forbidden'
  BY DEF QueueInv, C!Ahead
<1> QED
  BY <1>1 DEF QueueInv, C!Ahead

LEMMA QueueSteps ==
  ASSUME TrackerInv, QueueInv, [C!Next]_(C!vars)
  PROVE  QueueInv'
<1>1. CASE C!ReadRobots
  <2>1. /\ UNCHANGED <<public, home, queue, taken, target>> /\ phase = "robots"
        /\ \/ phase' = "refused"
           \/ phase' = "next" /\ home \in loaded' /\ FirstPage \notin forbidden'
    BY <1>1 DEF C!ReadRobots, C!Policy, C!navigation
  <2>2. queue = <<FirstPage>> /\ home = Origin[FirstPage]
    BY <2>1 DEF QueueInv, TrackerInv, FirstIsAlone
  <2>3. \A i \in DOMAIN queue : queue[i] = FirstPage
    BY <2>2
  <2> QED
    BY <2>1, <2>2, <2>3 DEF QueueInv, C!Ahead
<1>2. CASE C!Request \/ C!Frame
  <2>1. /\ UNCHANGED <<public, home, queue, taken, target>>
        /\ phase \in {"request", "answer"} /\ phase' \in {"answer", "fails"}
    BY <1>2 DEF C!Request, C!Frame, C!navigation
  <2>2. \E p \in Pages : \E sent : C!Document(p, sent)
    BY <1>2 DEF C!Request, C!Frame, TrackerInv, CrawlTypes
  <2>3. PICK p \in Pages : UNCHANGED <<loaded, forbidden>> \/ (Origin[p] \notin loaded /\ C!Policy(Origin[p]))
    BY <2>2 DEF C!Document, C!policies
  <2>4. /\ loaded \subseteq loaded'
        /\ \A q : Origin[q] \in loaded /\ q \notin forbidden => q \notin forbidden'
    BY <2>3 DEF C!Policy
  <2> QED
    BY <2>1, <2>4, QueueStays
<1>3. CASE C!Take
  <2>1. /\ UNCHANGED <<public, home, loaded, forbidden>> /\ phase = "next" /\ queue # <<>>
        /\ queue' = Tail(queue) /\ taken' = taken \cup {Head(queue)}
        /\ \/ phase' = "next" /\ Head(queue) \in taken
           \/ phase' = "request" /\ Head(queue) \notin taken /\ target' = Head(queue)
    BY <1>3 DEF C!Take, C!policies
  <2>2. queue \in Seq(Pages) /\ \A i \in DOMAIN queue' : i + 1 \in DOMAIN queue /\ queue'[i] = queue[i + 1]
    BY <2>1 DEF TrackerInv, CrawlTypes
  <2>3. FirstPage \in taken'
    <3>1. CASE FirstPage \notin taken
      <4>1. Head(queue) = FirstPage
        BY <3>1 DEF QueueInv
      <4> QED
        BY <2>1, <4>1
    <3> QED
      BY <2>1, <3>1
  <2>4. phase' = "request" /\ target' = FirstPage => queue' = <<>>
    <3>1. SUFFICES ASSUME phase' = "request", target' = FirstPage PROVE queue' = <<>>
      OBVIOUS
    <3>2. FirstPage \notin taken
      BY <2>1, <3>1
    <3>3. queue = <<FirstPage>>
      BY <3>2 DEF QueueInv
    <3> QED
      BY <2>1, <3>3
  <2>5. public' => C!Ahead'
    BY <2>1, <2>2 DEF QueueInv, C!Ahead
  <2> QED
    BY <2>1, <2>3, <2>4, <2>5 DEF QueueInv
<1>4. CASE C!Arrive
  <2>1. /\ UNCHANGED <<public, loaded, forbidden, queue, target>> /\ taken \subseteq taken'
        /\ phase = "answer" /\ phase' \in {"links", "next", "refused"}
        /\ home' = home \/ target = FirstPage
    BY <1>4 DEF C!Arrive, C!NewHome, C!Moves, C!Shifts, C!policies, C!navigation
  <2>2. FirstPage \in taken'
    BY <2>1 DEF TrackerInv, FirstIsAlone
  <2>3. target = FirstPage => queue = <<>>
    BY <2>1 DEF QueueInv
  <2>4. public' => C!Ahead'
    BY <2>1, <2>3 DEF QueueInv, C!Ahead
  <2> QED
    BY <2>1, <2>2, <2>4 DEF QueueInv
<1>5. CASE C!Candidate
  <2>1. /\ UNCHANGED <<public, home, loaded, forbidden, taken, target>>
        /\ phase = "candidates" /\ phase' \in {"candidates", "next"}
    BY <1>5 DEF C!Candidate, C!policies, C!navigation
  <2>2. FirstPage \in taken
    BY <2>1 DEF TrackerInv, FirstIsAlone, Early
  <2>3. queue \in Seq(Pages)
    BY DEF TrackerInv, CrawlTypes
  <2>4. \/ queue' = queue
        \/ \E p \in Pages : /\ queue' = Append(queue, p) /\ Origin[p] = home
                            /\ public => home \in loaded /\ p \notin forbidden
    <3>1. CASE hrefs = <<>>
      BY <1>5, <3>1 DEF C!Candidate
    <3>2. CASE hrefs # <<>>
      <4>1. PICK p \in Pages : p = Head(hrefs)
        BY <3>2 DEF TrackerInv, CrawlTypes
      <4>2. \/ queue' = queue
            \/ /\ queue' = Append(queue, p) /\ Origin[p] = home
               /\ ~(public /\ C!Stopped) /\ ~(public /\ ~C!Stopped /\ p \in forbidden)
        BY <1>5, <3>2, <4>1 DEF C!Candidate, C!LeftOut, C!Refused
      <4> QED
        BY <4>2 DEF C!Stopped
    <3> QED
      BY <3>1, <3>2
  <2>5. public' => C!Ahead'
    <3>1. SUFFICES ASSUME public, NEW i \in DOMAIN queue'
                   PROVE  Origin[queue'[i]] = home /\ home \in loaded /\ queue'[i] \notin forbidden
      BY <2>1 DEF C!Ahead
    <3>2. CASE i \in DOMAIN queue /\ queue'[i] = queue[i]
      BY <2>1, <3>1, <3>2 DEF QueueInv, C!Ahead
    <3>3. CASE ~(i \in DOMAIN queue /\ queue'[i] = queue[i])
      <4>1. PICK p \in Pages : /\ queue' = Append(queue, p) /\ Origin[p] = home
                               /\ public => home \in loaded /\ p \notin forbidden
        BY <2>4, <3>3
      <4>2. DOMAIN queue = 1..Len(queue) /\ DOMAIN queue' = 1..(Len(queue) + 1)
        BY <2>3, <4>1
      <4>3. \A j \in 1..Len(queue) : queue'[j] = queue[j]
        BY <2>3, <4>1
      <4>4. Len(queue) \in Nat /\ queue'[Len(queue) + 1] = p
        BY <2>3, <4>1
      <4>5. i = Len(queue) + 1
        BY <3>1, <3>3, <4>2, <4>3, <4>4
      <4>6. queue'[i] = p
        BY Zenon, <4>4, <4>5
      <4> QED
        BY Zenon, <3>1, <4>1, <4>6
    <3> QED
      BY <3>2, <3>3
  <2> QED
    BY <2>1, <2>2, <2>5 DEF QueueInv
<1>6. CASE \/ C!Redirected \/ C!Unanswered \/ C!Fail \/ C!Collapse \/ C!Extract \/ C!Finish
           \/ C!DeadlinePasses \/ UNCHANGED C!vars
  <2>1. /\ UNCHANGED <<public, home, queue, taken, target, loaded, forbidden>>
        /\ phase \in {"robots", "refused"} => phase' \in {"robots", "refused"}
        /\ phase' \in {"request", "answer", "fails"} => phase \in {"request", "answer", "fails"}
    BY <1>6 DEF C!Redirected, C!Unanswered, C!Fail, C!Collapse, C!Extract, C!Finish,
                C!DeadlinePasses, C!policies, C!navigation, C!vars
  <2> QED
    BY <2>1, QueueStays
<1> QED
  BY <1>1, <1>2, <1>3, <1>4, <1>5, <1>6 DEF C!Next

---------------------------------------------------------------------------
(* The metadata of the responses (ResponseCapture).                        *)

\* Failures and responses without a slot leave their trace, and the wait is
\* about every read under way that began before it.
CaptureInv ==
  /\ capture \in [Responses -> {"none", "pending", "recorded", "failed", "dropped"}]
  /\ failures \in Nat /\ due \subseteq Responses
  /\ \A r \in Responses : capture[r] = "failed" => failures > 0
  /\ \A r \in Responses : capture[r] = "dropped" => dropped
  /\ \A r \in due : capture[r] # "none"
  /\ collection = "waiting" => due \cap N!Pending \subseteq awaited
  /\ N!CompleteNetworkIsWhole

\* An instance has the library's operators under names of its own.
LEMMA CardinalityOfCaptures == \A set : N!Cardinality(set) = Cardinality(set)
BY DEF Cardinality, N!Cardinality

LEMMA CapturesStart == N!Init => CaptureInv
BY DEF N!Init, CaptureInv, N!CompleteNetworkIsWhole

\* The status is "complete" only when nothing failed, was dropped or is still
\* being read.
LEMMA StatusIsEarned ==
  ASSUME CaptureInv, NEW count \in Nat, N!Status(count), failures' = count, failures <= count,
         UNCHANGED <<capture, dropped, due>>, count = 0 => due \cap N!Pending = {}
  PROVE  CaptureInv'
<1>1. collection' # "waiting"
  BY DEF N!Status
<1>2. collection' = "complete" => count = 0 /\ ~dropped
  BY DEF N!Status
<1>3. ASSUME collection' = "complete", NEW r \in due
      PROVE  capture[r] = "recorded"
  <2>1. count = 0 /\ ~dropped /\ failures = 0
    BY <1>2, <1>3 DEF CaptureInv
  <2>2. r \in Responses /\ capture[r] \notin {"none", "failed", "dropped"}
    BY <1>3, <2>1 DEF CaptureInv
  <2>3. capture[r] # "pending"
    BY <1>3, <2>1, <2>2 DEF N!Pending, N!In
  <2> QED
    BY <2>2, <2>3 DEF CaptureInv
<1>4. N!CompleteNetworkIsWhole'
  BY <1>3 DEF N!CompleteNetworkIsWhole, N!In, CaptureInv
<1> QED
  BY <1>1, <1>4 DEF CaptureInv

LEMMA CaptureSteps ==
  ASSUME CaptureInv, [N!Next]_(N!vars)
  PROVE  CaptureInv'
<1> USE DEF N!CompleteNetworkIsWhole, N!In, N!Pending
<1>1. ASSUME NEW r \in Responses, N!Respond(r)
      PROVE  CaptureInv'
  <2>1. /\ N!Open /\ capture[r] = "none"
        /\ \/ capture' = [capture EXCEPT ![r] = "pending"] /\ UNCHANGED dropped
           \/ capture' = [capture EXCEPT ![r] = "dropped"] /\ dropped' = TRUE
        /\ due' = (IF collection = "crawl" THEN due \cup {r} ELSE due)
        /\ UNCHANGED <<collection, failures, awaited>>
    BY <1>1 DEF N!Respond
  <2>2. capture' \in [Responses -> {"none", "pending", "recorded", "failed", "dropped"}]
    BY <2>1 DEF CaptureInv
  <2>3. collection = "waiting" => r \notin due
    BY <2>1 DEF CaptureInv
  <2> QED
    BY <2>1, <2>2, <2>3 DEF CaptureInv, N!Open
<1>2. CASE N!ErrorSeen
  BY <1>2 DEF N!ErrorSeen, CaptureInv
<1>3. ASSUME NEW r \in Responses, N!Record(r) \/ N!CaptureFails(r)
      PROVE  CaptureInv'
  <2>1. PICK state \in {"recorded", "failed"} :
          /\ N!Open /\ capture[r] = "pending" /\ capture' = [capture EXCEPT ![r] = state]
          /\ failures' = IF state = "failed" THEN failures + 1 ELSE failures
          /\ UNCHANGED <<collection, dropped, awaited, due>>
    BY <1>3 DEF N!Record, N!CaptureFails
  <2>2. failures' \in Nat /\ failures <= failures' /\ (state = "failed" => failures' > 0)
    BY <2>1 DEF CaptureInv
  <2>3. capture' \in [Responses -> {"none", "pending", "recorded", "failed", "dropped"}]
    BY <2>1 DEF CaptureInv
  <2> QED
    BY <2>1, <2>2, <2>3 DEF CaptureInv, N!Open
<1>4. CASE N!CrawlEnds
  <2>1. CASE N!Pending = {} /\ N!Status(failures)
    BY <1>4, <2>1, StatusIsEarned DEF N!CrawlEnds, CaptureInv
  <2>2. CASE collection' \in {"waiting", "error"} /\ (collection' = "waiting" => awaited' = N!Pending)
    BY <1>4, <2>2 DEF N!CrawlEnds, CaptureInv
  <2> QED
    BY <1>4, <2>1, <2>2 DEF N!CrawlEnds
<1>5. CASE N!WaitEnds
  BY <1>5, StatusIsEarned DEF N!WaitEnds, CaptureInv
<1>6. CASE N!WaitTimesOut
  <2>1. IsFiniteSet(N!Pending)
    BY ResponsesAssumption, FS_Subset
  <2>2. /\ Cardinality(N!Pending) \in Nat
        /\ Cardinality(N!Pending) = 0 => N!Pending = {}
    BY <2>1, FS_CardinalityType, FS_EmptySet
  <2>3. PICK count : count = failures + Cardinality(N!Pending)
    OBVIOUS
  <2>4. count \in Nat /\ failures <= count /\ (count = 0 => Cardinality(N!Pending) = 0)
    BY <2>2, <2>3 DEF CaptureInv
  <2>5. N!Status(count) /\ failures' = count /\ UNCHANGED <<capture, dropped, due>>
    <3> HIDE DEF N!Pending, N!In
    <3>1. failures' = count /\ UNCHANGED <<capture, dropped, due>> /\ N!Status(failures')
      BY <1>6, <2>3, CardinalityOfCaptures DEF N!WaitTimesOut
    <3> QED
      BY <3>1 DEF N!Status
  <2> QED
    BY <2>2, <2>4, <2>5, StatusIsEarned
<1>7. CASE UNCHANGED N!vars
  BY <1>7 DEF N!vars, CaptureInv
<1> QED
  BY <1>1, <1>2, <1>3, <1>4, <1>5, <1>6, <1>7 DEF N!Next

---------------------------------------------------------------------------
(* The network of a Deep audit (AuditNetwork): its budget.                 *)

Ledger == [used : [A!Kind -> Nat], host : Nat, reasons : SUBSET A!Reasons]

LEMMA FiveKinds ==
  /\ A!Kind = {"requests", "pages", "bytes", "dns", "tls"}
  /\ DOMAIN A!Kinds = 1..5
  /\ A!Kinds[1] = "requests" /\ A!Kinds[2] = "pages" /\ A!Kinds[3] = "bytes"
  /\ A!Kinds[4] = "dns" /\ A!Kinds[5] = "tls"
BY DEF A!Kind, A!Kinds

LEMMA Limits ==
  /\ A!Limit["requests"] = AuditRequests /\ A!Limit["pages"] = AuditPages
  /\ A!Limit["bytes"] = AuditBytes /\ A!Limit["dns"] = MaxLookups /\ A!Limit["tls"] = MaxHandshakes
BY DEF A!Limit

LEMMA Costs ==
  /\ A!Nothing \in [A!Kind -> Nat] /\ \A k \in A!Kind : A!Nothing[k] = 0
  /\ A!Lookup \in [A!Kind -> Nat]
  /\ A!Lookup["dns"] = 1 /\ A!Lookup["tls"] = (IF secure THEN 1 ELSE 0)
  /\ A!Lookup["requests"] = 0 /\ A!Lookup["bytes"] = 0 /\ A!Lookup["pages"] = 0
<1>1. A!Nothing \in [A!Kind -> Nat] /\ \A k \in A!Kind : A!Nothing[k] = 0
  BY DEF A!Nothing
<1>2. A!Lookup = [k \in A!Kind |-> IF k = "dns" THEN 1 ELSE IF k = "tls" THEN A!Tls ELSE 0]
  BY <1>1, FiveKinds DEF A!Lookup, A!Nothing
<1>3. A!Tls \in Nat /\ A!Tls = (IF secure THEN 1 ELSE 0)
  BY DEF A!Tls
<1> QED
  BY <1>1, <1>2, <1>3, FiveKinds

\* A cost of one kind.
LEMMA CostOfOneKind ==
  ASSUME NEW k \in A!Kind, NEW n \in Nat
  PROVE  /\ [A!Nothing EXCEPT ![k] = n] \in [A!Kind -> Nat]
         /\ [A!Nothing EXCEPT ![k] = n][k] = n
         /\ \A other \in A!Kind \ {k} : [A!Nothing EXCEPT ![k] = n][other] = 0
BY Costs

\* A reservation that is granted takes its cost and stays below the limits;
\* one that is not takes nothing and leaves a reason.
LEMMA Reservations ==
  ASSUME ledger \in Ledger, NEW cost \in [A!Kind -> Nat], NEW l, l = A!Reserve(cost)
  PROVE  /\ l \in Ledger
         /\ A!Grants(cost) =>
              /\ \A k \in A!Kind : l.used[k] = ledger.used[k] + cost[k]
              /\ \A k \in A!Kind : l.used[k] <= A!Limit[k]
              /\ l.host = ledger.host + cost["requests"]
              /\ cost["requests"] > 0 => l.host <= HostRequests
              /\ l.reasons = ledger.reasons
         /\ ~A!Grants(cost) => l.used = ledger.used /\ l.host = ledger.host /\ l.reasons # {}
                               /\ l.reasons = ledger.reasons \cup A!Denials(cost)
<1>0. /\ ledger.used \in [A!Kind -> Nat] /\ ledger.host \in Nat /\ ledger.reasons \in SUBSET A!Reasons
      /\ \A k \in A!Kind : ledger.used[k] \in Nat /\ cost[k] \in Nat
      /\ cost["requests"] \in Nat
  BY FiveKinds DEF Ledger
<1>1. A!Denials(cost) \subseteq A!Reasons
  BY FiveKinds DEF A!Denials, A!Reasons
<1>2. CASE ~A!Grants(cost)
  <2>1. l = [ledger EXCEPT !.reasons = ledger.reasons \cup A!Denials(cost)]
    BY <1>2 DEF A!Reserve, A!Mark
  <2>2. A!Denials(cost) # {}
    BY <1>2 DEF A!Grants
  <2> QED
    BY <1>0, <1>1, <1>2, <2>1, <2>2 DEF Ledger
<1>3. CASE A!Grants(cost)
  <2> DEFINE used == [k \in A!Kind |-> ledger.used[k] + cost[k]]
  <2>1. l = [[ledger EXCEPT !.used = used] EXCEPT !.host = ledger.host + cost["requests"]]
    BY <1>0, <1>3 DEF A!Reserve, Ledger
  <2>2. used \in [A!Kind -> Nat]
    BY <1>0
  <2>10. \A k \in A!Kind : used[k] = ledger.used[k] + cost[k]
    OBVIOUS
  <2> HIDE DEF used
  <2>3. PICK m \in Ledger : m = [ledger EXCEPT !.used = used]
    BY <2>2 DEF Ledger
  <2>a. m.used = used /\ m.host = ledger.host /\ m.reasons = ledger.reasons
    BY <2>3 DEF Ledger
  <2>4. l \in Ledger /\ l.used = used /\ l.host = ledger.host + cost["requests"] /\ l.reasons = ledger.reasons
    <3>1. ledger.host + cost["requests"] \in Nat
      BY <1>0
    <3>2. l = [m EXCEPT !.host = ledger.host + cost["requests"]]
      BY <2>1, <2>3
    <3> QED
      BY <2>a, <3>1, <3>2 DEF Ledger
  <2>5. ~over /\ (cost["requests"] > 0 => ledger.host + cost["requests"] <= HostRequests)
    <3>1. A!Denials(cost) = {}
      BY <1>3 DEF A!Grants
    <3>2. ~over
      BY <3>1 DEF A!Denials
    <3>3. ~(cost["requests"] > 0 /\ ledger.host + cost["requests"] > HostRequests)
      BY <3>1, <3>2 DEF A!Denials
    <3>4. HostRequests \in Nat /\ ledger.host + cost["requests"] \in Nat
      BY <1>0, ProfileAssumption
    <3> QED
      BY <3>2, <3>3, <3>4
  <2>6. {A!Kinds[i] : i \in {i \in DOMAIN A!Kinds :
            /\ ~A!Fits(A!Kinds[i], cost[A!Kinds[i]])
            /\ \A j \in 1..i-1 : A!Fits(A!Kinds[j], cost[A!Kinds[j]])}} = {}
    BY <1>3, <2>5, <1>0, ProfileAssumption DEF A!Grants, A!Denials
  <2>7. \A i \in DOMAIN A!Kinds : (\A j \in 1..i-1 : A!Fits(A!Kinds[j], cost[A!Kinds[j]]))
                                  => A!Fits(A!Kinds[i], cost[A!Kinds[i]])
    BY <2>6
  <2>8. \A i \in 1..5 : A!Fits(A!Kinds[i], cost[A!Kinds[i]])
    <3>1. A!Fits(A!Kinds[1], cost[A!Kinds[1]])
      BY <2>7, FiveKinds
    <3>2. A!Fits(A!Kinds[2], cost[A!Kinds[2]])
      BY <2>7, <3>1, FiveKinds
    <3>3. A!Fits(A!Kinds[3], cost[A!Kinds[3]])
      BY <2>7, <3>1, <3>2, FiveKinds
    <3>4. A!Fits(A!Kinds[4], cost[A!Kinds[4]])
      BY <2>7, <3>1, <3>2, <3>3, FiveKinds
    <3>5. A!Fits(A!Kinds[5], cost[A!Kinds[5]])
      BY <2>7, <3>1, <3>2, <3>3, <3>4, FiveKinds
    <3> QED
      BY <3>1, <3>2, <3>3, <3>4, <3>5
  <2>9. \A k \in A!Kind : used[k] <= A!Limit[k]
    BY <2>8, <2>10, FiveKinds DEF A!Fits
  <2> QED
    BY <1>3, <2>4, <2>5, <2>9, <2>10
<1> QED
  BY <1>2, <1>3

LEMMA Marks ==
  ASSUME ledger \in Ledger, NEW reasons \in SUBSET A!Reasons, NEW l, l = A!Mark(reasons)
  PROVE  /\ l \in Ledger /\ l.used = ledger.used /\ l.host = ledger.host
         /\ l.reasons = ledger.reasons \cup reasons
BY DEF Ledger, A!Mark

---------------------------------------------------------------------------

RequestState == [pc : A!Pcs, inScope : BOOLEAN, bytes : Nat]
Traffic == [dns : Nat, probed : Nat, proxied : Nat, bytes : Nat]

\* Connections that are paid for and not yet made: those of the requests that
\* wait for their lookup, and that of the probe.
Busy == {r \in A!Requests : request[r].pc \in {"lookup", "resolved"}}
Ahead == IF stage = "probe" /\ probe.pc \in {"lookup", "connect"} THEN 1 ELSE 0

LedgerInv ==
  /\ ledger \in Ledger
  /\ \A k \in A!Kind : ledger.used[k] <= A!Limit[k]
  /\ ledger.host = ledger.used["requests"] /\ ledger.host <= HostRequests

AuditTypes ==
  /\ traffic \in Traffic /\ request \in [A!Requests -> RequestState]
  /\ probe \in [pc : {"request", "lookup", "connect", "transfer"}, hops : Nat]

\* What went over the network is in the ledger, and every connection, made or
\* paid for, has a lookup of its own.
BudgetInv ==
  /\ LedgerInv /\ AuditTypes
  /\ traffic.dns <= ledger.used["dns"]
  /\ secure => traffic.dns <= ledger.used["tls"]
  /\ traffic.probed + traffic.proxied + Cardinality(Busy) + Ahead <= traffic.dns
  /\ traffic.probed + Ahead <= ledger.used["requests"]
  /\ traffic.bytes <= ledger.used["bytes"]

\* The proxy counts its connections itself.
ProxyState == [requests : Nat, bytes : Nat]
ProxyInv ==
  /\ proxy \in ProxyState /\ traffic.proxied <= proxy.requests
  /\ proxy.requests <= AuditRequests /\ proxy.requests <= HostRequests

LEMMA BudgetKept == BudgetInv /\ ProxyInv => A!TrafficWithinProfile
<1> SUFFICES ASSUME BudgetInv, ProxyInv PROVE A!TrafficWithinProfile
  OBVIOUS
<1>1. IsFiniteSet(Busy)
  BY NetworkAssumption, FS_Subset, FS_AddElement, FS_Singleton, FS_Union DEF Busy, A!Requests
<1>2. Cardinality(Busy) \in Nat
  BY <1>1, FS_CardinalityType
<1>3. Ahead \in Nat
  BY DEF Ahead
<1>4. /\ ledger.used["dns"] \in Nat /\ ledger.used["dns"] <= MaxLookups
      /\ ledger.used["tls"] \in Nat /\ ledger.used["tls"] <= MaxHandshakes
      /\ ledger.used["requests"] \in Nat /\ ledger.used["requests"] <= AuditRequests
      /\ ledger.used["requests"] <= HostRequests
      /\ ledger.used["bytes"] \in Nat /\ ledger.used["bytes"] <= AuditBytes
  BY FiveKinds, Limits DEF BudgetInv, LedgerInv, Ledger
<1>5. traffic.dns \in Nat /\ traffic.probed \in Nat /\ traffic.proxied \in Nat /\ traffic.bytes \in Nat
  BY DEF BudgetInv, AuditTypes, Traffic
<1>6. MaxLookups \in Nat /\ MaxHandshakes \in Nat /\ AuditRequests \in Nat /\ HostRequests \in Nat /\ AuditBytes \in Nat
  BY ProfileAssumption
<1>7. traffic.dns <= MaxLookups /\ traffic.bytes <= AuditBytes
  BY <1>4, <1>5, <1>6 DEF BudgetInv
<1>8. traffic.probed <= AuditRequests /\ traffic.probed <= HostRequests
  BY <1>3, <1>4, <1>5, <1>6 DEF BudgetInv
<1>9. traffic.proxied <= AuditRequests /\ traffic.proxied <= HostRequests
  BY <1>5, <1>6 DEF ProxyInv, ProxyState
<1>10. A!Connections \in Nat /\ A!Connections <= traffic.dns
  BY <1>2, <1>3, <1>5 DEF BudgetInv, A!Connections
<1>11. ASSUME secure PROVE A!Connections <= MaxHandshakes
  BY <1>4, <1>5, <1>6, <1>10, <1>11 DEF BudgetInv
<1> QED
  BY <1>7, <1>8, <1>9, <1>10, <1>11 DEF A!TrafficWithinProfile

LEMMA BudgetStarts == A!Init => BudgetInv
<1> SUFFICES ASSUME A!Init PROVE BudgetInv
  OBVIOUS
<1>1. ledger \in Ledger /\ ledger.used = A!Nothing /\ ledger.host = 0
  BY Costs DEF A!Init, Ledger
<1>2. LedgerInv
  BY <1>1, Costs, FiveKinds, Limits, ProfileAssumption DEF LedgerInv
<1>3. traffic \in Traffic /\ traffic.dns = 0 /\ traffic.probed = 0 /\ traffic.proxied = 0 /\ traffic.bytes = 0
  BY DEF A!Init, Traffic
<1>4. request \in [A!Requests -> RequestState] /\ Busy = {}
  BY DEF A!Init, RequestState, A!Pcs, Busy
<1>5. probe \in [pc : {"request", "lookup", "connect", "transfer"}, hops : Nat] /\ Ahead = 0
  BY DEF A!Init, Ahead
<1> QED
  BY <1>1, <1>2, <1>3, <1>4, <1>5, Costs, FiveKinds, FS_EmptySet DEF BudgetInv, AuditTypes

---------------------------------------------------------------------------

\* Marks in any state of the ledger.
LEMMA MarksOf ==
  ASSUME NEW l \in Ledger, NEW reasons \in SUBSET A!Reasons,
         NEW m, m = [l EXCEPT !.reasons = @ \cup reasons]
  PROVE  m \in Ledger /\ m.used = l.used /\ m.host = l.host /\ m.reasons = l.reasons \cup reasons
BY DEF Ledger

\* The ledger only grows.
Grown == /\ LedgerInv'
         /\ \A k \in A!Kind : ledger'.used[k] >= ledger.used[k]
         /\ ledger.reasons \subseteq ledger'.reasons

LEMMA LedgerReserves ==
  ASSUME LedgerInv, NEW cost \in [A!Kind -> Nat], NEW reasons \in SUBSET A!Reasons,
         \/ ledger' = A!Reserve(cost)
         \/ ledger' = [A!Reserve(cost) EXCEPT !.reasons = @ \cup reasons]
  PROVE  /\ Grown
         /\ A!Grants(cost) => \A k \in A!Kind : ledger'.used[k] = ledger.used[k] + cost[k]
         /\ ~A!Grants(cost) => ledger'.reasons # {}
<1>1. PICK l : l = A!Reserve(cost)
  OBVIOUS
<1>2. ledger \in Ledger
  BY DEF LedgerInv
<1>3. /\ l \in Ledger
      /\ A!Grants(cost) =>
           /\ \A k \in A!Kind : l.used[k] = ledger.used[k] + cost[k]
           /\ \A k \in A!Kind : l.used[k] <= A!Limit[k]
           /\ l.host = ledger.host + cost["requests"]
           /\ cost["requests"] > 0 => l.host <= HostRequests
           /\ l.reasons = ledger.reasons
      /\ ~A!Grants(cost) => l.used = ledger.used /\ l.host = ledger.host /\ l.reasons # {}
                            /\ l.reasons = ledger.reasons \cup A!Denials(cost)
  BY <1>1, <1>2, Reservations
<1>4. /\ ledger' \in Ledger /\ ledger'.used = l.used /\ ledger'.host = l.host
      /\ l.reasons \subseteq ledger'.reasons
  <2>1. CASE ledger' = l
    BY <1>3, <2>1
  <2>2. CASE ledger' = [l EXCEPT !.reasons = @ \cup reasons]
    BY <1>3, <2>2, MarksOf
  <2> QED
    BY <1>1, <2>1, <2>2
<1>5. \A k \in A!Kind : ledger.used[k] \in Nat /\ cost[k] \in Nat
  BY <1>2 DEF Ledger
<1>6. CASE A!Grants(cost)
  <2>1. \A k \in A!Kind : ledger'.used[k] = ledger.used[k] + cost[k] /\ ledger'.used[k] <= A!Limit[k]
    BY <1>3, <1>4, <1>6
  <2>2. \A k \in A!Kind : ledger'.used[k] >= ledger.used[k]
    BY <2>1, <1>5
  <2>3. ledger'.host = ledger'.used["requests"] /\ ledger'.host <= HostRequests
    BY <1>3, <1>4, <1>5, <1>6, <2>1, FiveKinds, ProfileAssumption DEF LedgerInv
  <2> QED
    BY <1>3, <1>4, <1>6, <2>1, <2>2, <2>3 DEF Grown, LedgerInv
<1>7. CASE ~A!Grants(cost)
  <2>1. \A k \in A!Kind : ledger'.used[k] = ledger.used[k]
    BY <1>3, <1>4, <1>7
  <2>2. \A k \in A!Kind : ledger'.used[k] >= ledger.used[k]
    BY <2>1, <1>5
  <2> QED
    BY <1>3, <1>4, <1>7, <2>1, <2>2, FiveKinds DEF Grown, LedgerInv
<1> QED
  BY <1>6, <1>7

LEMMA LedgerMarks ==
  ASSUME LedgerInv, NEW reasons \in SUBSET A!Reasons,
         \/ ledger' = ledger
         \/ ledger' = A!Mark(reasons)
  PROVE  /\ Grown /\ ledger'.used = ledger.used
         /\ ledger' = A!Mark(reasons) => reasons \subseteq ledger'.reasons
<1>1. ledger \in Ledger
  BY DEF LedgerInv
<1>2. ledger' \in Ledger /\ ledger'.used = ledger.used /\ ledger'.host = ledger.host
      /\ ledger.reasons \subseteq ledger'.reasons
      /\ (ledger' = A!Mark(reasons) => reasons \subseteq ledger'.reasons)
  <2>1. CASE ledger' = ledger /\ ledger' # A!Mark(reasons)
    BY <1>1, <2>1
  <2>2. CASE ledger' = A!Mark(reasons)
    BY <1>1, <2>2, MarksOf DEF A!Mark
  <2> QED
    BY <2>1, <2>2
<1>3. \A k \in A!Kind : ledger.used[k] \in Nat
  BY <1>1 DEF Ledger
<1>4. \A k \in A!Kind : ledger'.used[k] >= ledger.used[k]
  BY <1>2, <1>3
<1> QED
  BY <1>2, <1>4 DEF Grown, LedgerInv

LEMMA StopReasonsAreReasons ==
  /\ A!StopReasons \in SUBSET A!Reasons
  /\ A!Stopped /\ A!StopReasons = {} => ledger.reasons # {}
BY DEF A!StopReasons, A!Stopped, A!Reasons

LEMMA TrafficCounts ==
  ASSUME NEW t \in Traffic, NEW n \in Nat
  PROVE  /\ [t EXCEPT !.dns = @ + n] \in Traffic
         /\ [t EXCEPT !.probed = @ + n] \in Traffic
         /\ [t EXCEPT !.proxied = @ + n] \in Traffic
         /\ [t EXCEPT !.bytes = @ + n] \in Traffic
BY DEF Traffic

---------------------------------------------------------------------------
LEMMA RequestsAreFinite ==
  /\ IsFiniteSet(A!Requests)
  /\ IsFiniteSet(Busy) /\ IsFiniteSet(Busy')
  /\ Cardinality(Busy) \in Nat /\ Cardinality(Busy') \in Nat
  /\ Busy' \subseteq Busy => Cardinality(Busy') <= Cardinality(Busy)
<1>1. IsFiniteSet(A!Requests)
  BY NetworkAssumption, FS_Singleton, FS_Union DEF A!Requests
<1>2. IsFiniteSet(Busy) /\ IsFiniteSet(Busy')
  BY <1>1, FS_Subset DEF Busy
<1> QED
  BY <1>1, <1>2, FS_CardinalityType, FS_Subset

LEMMA RequestMoves ==
  ASSUME request \in [A!Requests -> RequestState], NEW r \in A!Requests, NEW x \in RequestState,
         request' = [request EXCEPT ![r] = x]
  PROVE  /\ request' \in [A!Requests -> RequestState]
         /\ x.pc \notin {"lookup", "resolved"} => Busy' = Busy \ {r}
         /\ x.pc \in {"lookup", "resolved"} => Busy' = Busy \cup {r}
BY DEF Busy

LEMMA RequestStates ==
  ASSUME NEW x \in RequestState
  PROVE  /\ \A place \in A!Pcs :
              [x EXCEPT !.pc = place] \in RequestState /\ [x EXCEPT !.pc = place].pc = place
         /\ \A b \in BOOLEAN : [x EXCEPT !.inScope = b] \in RequestState /\ [x EXCEPT !.inScope = b].pc = x.pc
         /\ \A n \in Nat : [x EXCEPT !.bytes = @ + n] \in RequestState /\ [x EXCEPT !.bytes = @ + n].pc = x.pc
BY DEF RequestState, A!Pcs

LEMMA RequestGoes ==
  ASSUME request \in [A!Requests -> RequestState], NEW r \in A!Requests, NEW place \in A!Pcs,
         A!Request(r, place)
  PROVE  /\ request' \in [A!Requests -> RequestState]
         /\ place \notin {"lookup", "resolved"} => Busy' = Busy \ {r}
         /\ place \in {"lookup", "resolved"} => Busy' = Busy \cup {r}
<1>1. PICK x : x = [request[r] EXCEPT !.pc = place]
  OBVIOUS
<1>2. x \in RequestState /\ x.pc = place
  BY <1>1, RequestStates
<1>3. request' = [request EXCEPT ![r] = x]
  BY <1>1 DEF A!Request
<1> QED
  BY <1>2, <1>3, RequestMoves

LEMMA RequestsClose ==
  ASSUME request \in [A!Requests -> RequestState], NEW open, request' = A!Closing(open)
  PROVE  request' \in [A!Requests -> RequestState] /\ Busy' \subseteq Busy
<1>1. \A r \in A!Requests : request'[r] \in RequestState
                            /\ (request'[r].pc = request[r].pc \/ request'[r].pc = "closed")
  BY RequestStates DEF A!Closing, A!Pcs
<1>2. request' \in [A!Requests -> RequestState]
  BY <1>1 DEF A!Closing
<1> QED
  BY <1>1, <1>2 DEF Busy

---------------------------------------------------------------------------

\* A step that sends no more than it reserves.
LEMMA BudgetMoves ==
  ASSUME BudgetInv, Grown, AuditTypes', UNCHANGED secure,
         NEW d \in Nat, NEW p \in Nat, NEW x \in Nat, NEW b \in Nat,
         traffic'.dns = traffic.dns + d, traffic'.probed = traffic.probed + p,
         traffic'.proxied = traffic.proxied + x, traffic'.bytes = traffic.bytes + b,
         ledger.used["dns"] + d <= ledger'.used["dns"],
         secure => ledger.used["tls"] + d <= ledger'.used["tls"],
         p + x + Cardinality(Busy') + Ahead' <= d + Cardinality(Busy) + Ahead,
         ledger.used["requests"] + p + Ahead' <= ledger'.used["requests"] + Ahead,
         ledger.used["bytes"] + b <= ledger'.used["bytes"]
  PROVE  BudgetInv'
<1>1. /\ ledger.used["dns"] \in Nat /\ ledger.used["tls"] \in Nat
      /\ ledger.used["requests"] \in Nat /\ ledger.used["bytes"] \in Nat
      /\ ledger'.used["dns"] \in Nat /\ ledger'.used["tls"] \in Nat
      /\ ledger'.used["requests"] \in Nat /\ ledger'.used["bytes"] \in Nat
  BY FiveKinds DEF BudgetInv, Grown, LedgerInv, Ledger
<1>2. traffic.dns \in Nat /\ traffic.probed \in Nat /\ traffic.proxied \in Nat /\ traffic.bytes \in Nat
  BY DEF BudgetInv, AuditTypes, Traffic
<1>3. Cardinality(Busy) \in Nat /\ Cardinality(Busy') \in Nat /\ Ahead \in Nat /\ Ahead' \in Nat
  BY RequestsAreFinite DEF Ahead
<1>4. traffic'.dns <= ledger'.used["dns"] /\ traffic'.bytes <= ledger'.used["bytes"]
  BY <1>1, <1>2 DEF BudgetInv
<1>5. traffic'.probed + Ahead' <= ledger'.used["requests"]
  BY <1>1, <1>2, <1>3 DEF BudgetInv
<1>6. traffic'.probed + traffic'.proxied + Cardinality(Busy') + Ahead' <= traffic'.dns
  BY <1>2, <1>3 DEF BudgetInv
<1>7. ASSUME secure
      PROVE  traffic'.dns <= ledger'.used["tls"]
  BY <1>1, <1>2, <1>7 DEF BudgetInv
<1> QED
  BY <1>4, <1>5, <1>6, <1>7 DEF BudgetInv, Grown

\* A step that sends nothing.
LEMMA QuietSteps ==
  ASSUME BudgetInv, Grown, request' \in [A!Requests -> RequestState], Busy' \subseteq Busy,
         UNCHANGED <<secure, traffic, probe>>, Ahead' <= Ahead
  PROVE  BudgetInv'
<1>1. AuditTypes'
  BY DEF BudgetInv, AuditTypes
<1>2. traffic'.dns = traffic.dns + 0 /\ traffic'.probed = traffic.probed + 0
      /\ traffic'.proxied = traffic.proxied + 0 /\ traffic'.bytes = traffic.bytes + 0
  BY DEF BudgetInv, AuditTypes, Traffic
<1>3. /\ Cardinality(Busy') <= Cardinality(Busy)
      /\ Cardinality(Busy) \in Nat /\ Cardinality(Busy') \in Nat /\ Ahead \in Nat /\ Ahead' \in Nat
  BY RequestsAreFinite DEF Ahead
<1>4. /\ ledger.used["dns"] <= ledger'.used["dns"] /\ ledger.used["tls"] <= ledger'.used["tls"]
      /\ ledger.used["requests"] <= ledger'.used["requests"] /\ ledger.used["bytes"] <= ledger'.used["bytes"]
      /\ ledger.used["dns"] \in Nat /\ ledger.used["tls"] \in Nat
      /\ ledger.used["requests"] \in Nat /\ ledger.used["bytes"] \in Nat
      /\ ledger'.used["dns"] \in Nat /\ ledger'.used["tls"] \in Nat
      /\ ledger'.used["requests"] \in Nat /\ ledger'.used["bytes"] \in Nat
  BY FiveKinds DEF BudgetInv, Grown, LedgerInv, Ledger
<1>5. ledger.used["requests"] + 0 + Ahead' <= ledger'.used["requests"] + Ahead
  BY <1>3, <1>4
<1>6. 0 + 0 + Cardinality(Busy') + Ahead' <= 0 + Cardinality(Busy) + Ahead
  BY <1>3
<1>7. /\ ledger.used["dns"] + 0 <= ledger'.used["dns"] /\ ledger.used["tls"] + 0 <= ledger'.used["tls"]
      /\ ledger.used["bytes"] + 0 <= ledger'.used["bytes"]
  BY <1>4
<1>8. 0 \in Nat
  OBVIOUS
<1>9. UNCHANGED secure
  OBVIOUS
<1> QED
  BY <1>1, <1>2, <1>5, <1>6, <1>7, <1>8, <1>9, BudgetMoves

\* A step that sends n bytes, which were reserved, and begins no lookup.
LEMMA ByteSteps ==
  ASSUME BudgetInv, NEW n \in Nat, NEW reasons \in SUBSET A!Reasons, A!Grants(A!BytesOf(n)),
         \/ ledger' = A!Reserve(A!BytesOf(n))
         \/ ledger' = [A!Reserve(A!BytesOf(n)) EXCEPT !.reasons = @ \cup reasons],
         traffic' = [traffic EXCEPT !.bytes = @ + n],
         request' \in [A!Requests -> RequestState], Busy' \subseteq Busy, UNCHANGED secure,
         probe' \in [pc : {"request", "lookup", "connect", "transfer"}, hops : Nat], Ahead' <= Ahead
  PROVE  BudgetInv'
<1>1. /\ A!BytesOf(n) \in [A!Kind -> Nat] /\ A!BytesOf(n)["bytes"] = n
      /\ A!BytesOf(n)["dns"] = 0 /\ A!BytesOf(n)["tls"] = 0 /\ A!BytesOf(n)["requests"] = 0
  BY CostOfOneKind, FiveKinds DEF A!BytesOf
<1>2. Grown /\ \A k \in A!Kind : ledger'.used[k] = ledger.used[k] + A!BytesOf(n)[k]
  BY <1>1, LedgerReserves DEF BudgetInv
<1>3. AuditTypes'
  BY TrafficCounts DEF BudgetInv, AuditTypes
<1>4. traffic'.dns = traffic.dns + 0 /\ traffic'.probed = traffic.probed + 0
      /\ traffic'.proxied = traffic.proxied + 0 /\ traffic'.bytes = traffic.bytes + n
  BY DEF BudgetInv, AuditTypes, Traffic
<1>5. /\ Cardinality(Busy') <= Cardinality(Busy)
      /\ Cardinality(Busy) \in Nat /\ Cardinality(Busy') \in Nat /\ Ahead \in Nat /\ Ahead' \in Nat
  BY RequestsAreFinite DEF Ahead
<1>6. /\ ledger'.used["dns"] = ledger.used["dns"] /\ ledger'.used["tls"] = ledger.used["tls"]
      /\ ledger'.used["requests"] = ledger.used["requests"]
      /\ ledger'.used["bytes"] = ledger.used["bytes"] + n
      /\ ledger.used["dns"] \in Nat /\ ledger.used["tls"] \in Nat
      /\ ledger.used["requests"] \in Nat /\ ledger.used["bytes"] \in Nat
  BY <1>1, <1>2, FiveKinds DEF BudgetInv, LedgerInv, Ledger
<1>7. ledger.used["requests"] + 0 + Ahead' <= ledger'.used["requests"] + Ahead
  BY <1>5, <1>6
<1>8. 0 + 0 + Cardinality(Busy') + Ahead' <= 0 + Cardinality(Busy) + Ahead
  BY <1>5
<1>9. /\ ledger.used["dns"] + 0 <= ledger'.used["dns"] /\ ledger.used["tls"] + 0 <= ledger'.used["tls"]
      /\ ledger.used["bytes"] + n <= ledger'.used["bytes"]
  BY <1>6
<1>10. 0 \in Nat
  OBVIOUS
<1> QED
  BY <1>2, <1>3, <1>4, <1>7, <1>8, <1>9, <1>10, BudgetMoves

---------------------------------------------------------------------------
LEMMA ProbeSteps ==
  ASSUME BudgetInv,
         \/ A!ProbeRequest \/ A!ProbeResolved \/ A!ProbeConnect \/ A!ProbeUnanswered \/ A!ProbeAnswer
  PROVE  BudgetInv'
<1>0. /\ UNCHANGED <<secure, request>> /\ Busy' = Busy /\ stage = "probe"
      /\ LedgerInv /\ request' \in [A!Requests -> RequestState]
  BY DEF A!ProbeRequest, A!ProbeResolved, A!ProbeConnect, A!ProbeUnanswered, A!ProbeAnswer,
         A!NoBrowser, A!Browsing, A!Probing, Busy, BudgetInv, AuditTypes
\* A failed probe starts nothing.
<1>1. ASSUME NEW l, NEW reasons \in SUBSET A!Reasons, A!ProbeFails(l, reasons), UNCHANGED traffic,
             l = ledger \/ \E cost \in [A!Kind -> Nat] : l = A!Reserve(cost)
      PROVE  BudgetInv'
  <2>1. Grown
    <3>1. CASE l = ledger
      BY <1>0, <1>1, <3>1, LedgerMarks DEF A!ProbeFails, A!Mark
    <3>2. ASSUME NEW cost \in [A!Kind -> Nat], l = A!Reserve(cost)
          PROVE  Grown
      BY <1>0, <1>1, <3>2, LedgerReserves DEF A!ProbeFails
    <3> QED
      BY <1>1, <3>1, <3>2
  <2>2. UNCHANGED probe /\ Ahead' <= Ahead
    BY <1>1 DEF A!ProbeFails, Ahead
  <2> QED
    BY <1>0, <1>1, <2>1, <2>2, QuietSteps
<1>2. /\ A!StopReasons \in SUBSET A!Reasons /\ {} \in SUBSET A!Reasons
      /\ \A reason \in {"dns-failed", "time", "failed", "scope"} : {reason} \in SUBSET A!Reasons
  BY StopReasonsAreReasons DEF A!Reasons
<1>3. probe \in [pc : {"request", "lookup", "connect", "transfer"}, hops : Nat]
  BY DEF BudgetInv, AuditTypes
<1>4. \A place \in {"request", "lookup", "connect", "transfer"} :
        /\ [probe EXCEPT !.pc = place] \in [pc : {"request", "lookup", "connect", "transfer"}, hops : Nat]
        /\ [probe EXCEPT !.pc = place].pc = place
  BY <1>3
<1>5. Cardinality(Busy) \in Nat
  BY RequestsAreFinite
<1>6. \A k \in A!Kind : ledger.used[k] \in Nat
  BY DEF BudgetInv, LedgerInv, Ledger
<1>7. traffic.dns \in Nat /\ traffic.probed \in Nat /\ traffic.proxied \in Nat /\ traffic.bytes \in Nat
  BY DEF BudgetInv, AuditTypes, Traffic
<1>8. CASE A!ProbeRequest
  <2> DEFINE cost == [A!Lookup EXCEPT !.requests = 1]
  <2>1. cost \in [A!Kind -> Nat] /\ cost["requests"] = 1 /\ cost["dns"] = 1 /\ cost["bytes"] = 0
        /\ cost["tls"] = (IF secure THEN 1 ELSE 0)
    BY Costs, FiveKinds
  <2> HIDE DEF cost
  <2>2. CASE A!Stopped
    BY <1>1, <1>2, <1>8, <2>2 DEF A!ProbeRequest
  <2>3. CASE ~A!Stopped /\ ~A!Grants(cost)
    <3>1. A!ProbeFails(A!Reserve(cost), {}) /\ UNCHANGED traffic
      BY <1>8, <2>3 DEF A!ProbeRequest, cost
    <3> QED
      BY <1>1, <1>2, <2>1, <3>1
  <2>4. CASE ~A!Stopped /\ A!Grants(cost)
    <3>1. /\ A!ProbeGoes("lookup") /\ ledger' = A!Reserve(cost)
          /\ traffic' = [traffic EXCEPT !.dns = @ + 1] /\ probe.pc = "request"
      BY <1>8, <2>4 DEF A!ProbeRequest, cost, A!Probing
    <3>2. Grown /\ \A k \in A!Kind : ledger'.used[k] = ledger.used[k] + cost[k]
      BY <1>0, <1>2, <2>1, <2>4, <3>1, LedgerReserves
    <3>3. AuditTypes'
      BY <1>0, <1>4, <3>1, TrafficCounts DEF BudgetInv, AuditTypes, A!ProbeGoes
    <3>4. traffic'.dns = traffic.dns + 1 /\ traffic'.probed = traffic.probed + 0
          /\ traffic'.proxied = traffic.proxied + 0 /\ traffic'.bytes = traffic.bytes + 0
      BY <1>7, <3>1 DEF BudgetInv, AuditTypes, Traffic
    <3>5. Ahead = 0 /\ Ahead' = 1
      BY <1>0, <1>4, <3>1 DEF Ahead, A!ProbeGoes
    <3>6. /\ ledger'.used["dns"] = ledger.used["dns"] + 1
          /\ secure => ledger'.used["tls"] = ledger.used["tls"] + 1
          /\ ledger'.used["requests"] = ledger.used["requests"] + 1
          /\ ledger'.used["bytes"] = ledger.used["bytes"] + 0
      BY <2>1, <3>2, FiveKinds
    <3>7. /\ ledger.used["dns"] + 1 <= ledger'.used["dns"]
          /\ ledger.used["requests"] + 0 + Ahead' <= ledger'.used["requests"] + Ahead
          /\ ledger.used["bytes"] + 0 <= ledger'.used["bytes"]
      BY <1>6, <3>5, <3>6, FiveKinds
    <3>8. /\ secure => ledger.used["tls"] + 1 <= ledger'.used["tls"]
          /\ 0 + 0 + Cardinality(Busy') + Ahead' <= 1 + Cardinality(Busy) + Ahead
      BY <1>0, <1>5, <1>6, <3>5, <3>6, FiveKinds
    <3>9. 0 \in Nat /\ 1 \in Nat /\ UNCHANGED secure
      BY <1>0
    <3> QED
      BY <3>2, <3>3, <3>4, <3>7, <3>8, <3>9, BudgetMoves
  <2> QED
    BY <2>2, <2>3, <2>4
<1>9. CASE A!ProbeResolved
  <2>1. CASE A!ProbeGoes("connect") /\ UNCHANGED ledger
    <3>1. Grown
      BY <1>0, <1>2, <2>1, LedgerMarks
    <3>2. UNCHANGED <<traffic, secure>> /\ stage' = stage /\ probe.pc = "lookup" /\ probe'.pc = "connect"
          /\ probe' \in [pc : {"request", "lookup", "connect", "transfer"}, hops : Nat]
      BY <1>0, <1>4, <1>9, <2>1 DEF A!ProbeResolved, A!ProbeGoes, A!Probing
    <3>3. Ahead' = Ahead /\ Ahead \in Nat
      BY <1>0, <3>2 DEF Ahead
    <3>4. AuditTypes'
      BY <1>0, <3>2 DEF BudgetInv, AuditTypes
    <3> QED
      BY <1>0, <2>1, <3>1, <3>2, <3>3, <3>4 DEF BudgetInv, Grown
  <2>2. ASSUME NEW reason \in {"dns-failed", "time"}, A!ProbeFails(ledger, {reason})
        PROVE  BudgetInv'
    BY <1>1, <1>2, <1>9, <2>2 DEF A!ProbeResolved
  <2> QED
    BY <1>9, <2>1, <2>2 DEF A!ProbeResolved
<1>10. CASE A!ProbeConnect
  <2>1. CASE A!Stopped
    BY <1>1, <1>2, <1>10, <2>1 DEF A!ProbeConnect
  <2>2. CASE ~A!Stopped
    <3>1. /\ A!ProbeGoes("transfer") /\ UNCHANGED ledger /\ probe.pc = "connect"
          /\ traffic' = [traffic EXCEPT !.probed = @ + 1]
      BY <1>10, <2>2 DEF A!ProbeConnect, A!Probing
    <3>2. Grown
      BY <1>0, <1>2, <3>1, LedgerMarks
    <3>3. traffic' \in Traffic /\ traffic'.dns = traffic.dns + 0 /\ traffic'.probed = traffic.probed + 1
          /\ traffic'.proxied = traffic.proxied + 0 /\ traffic'.bytes = traffic.bytes + 0
      BY <1>7, <3>1 DEF Traffic, BudgetInv, AuditTypes
    <3>4. AuditTypes'
      BY <1>0, <1>4, <3>1, <3>3 DEF BudgetInv, AuditTypes, A!ProbeGoes
    <3>5. Ahead = 1 /\ Ahead' = 0
      BY <1>0, <1>4, <3>1 DEF Ahead, A!ProbeGoes
    <3>6. /\ ledger.used["dns"] + 0 <= ledger'.used["dns"] /\ ledger.used["tls"] + 0 <= ledger'.used["tls"]
          /\ ledger.used["requests"] + 1 + Ahead' <= ledger'.used["requests"] + Ahead
          /\ ledger.used["bytes"] + 0 <= ledger'.used["bytes"]
          /\ 1 + 0 + Cardinality(Busy') + Ahead' <= 0 + Cardinality(Busy) + Ahead
      BY <1>0, <1>5, <1>6, <3>1, <3>5, FiveKinds
    <3>7. 0 \in Nat /\ 1 \in Nat /\ UNCHANGED secure
      BY <1>0
    <3> QED
      BY <3>2, <3>3, <3>4, <3>6, <3>7, BudgetMoves
  <2> QED
    BY <2>1, <2>2
<1>11. CASE A!ProbeUnanswered
  BY <1>1, <1>2, <1>11 DEF A!ProbeUnanswered
<1>12. CASE A!ProbeAnswer
  <2>1. PICK n \in Sizes :
          LET cost == [A!Nothing EXCEPT !.bytes = n]
              l == A!Reserve(cost)
          IN  IF ~A!Grants(cost) THEN A!ProbeFails(l, {}) /\ UNCHANGED traffic
              ELSE /\ traffic' = [traffic EXCEPT !.bytes = @ + n]
                   /\ \/ stage' = "launch" /\ ledger' = l /\ UNCHANGED probe
                      \/ /\ probe.hops < AuditRedirects /\ ledger' = l /\ UNCHANGED stage
                         /\ probe' = [pc |-> "request", hops |-> probe.hops + 1]
                      \/ \E reasons \in {{}, {"scope"}, {"failed"}} :
                           /\ stage' = "analysis" /\ UNCHANGED probe
                           /\ ledger' = [l EXCEPT !.reasons = @ \cup reasons]
                      \/ A!ProbeFails(l, {"failed"})
    BY <1>12 DEF A!ProbeAnswer
  <2>2. n \in Nat /\ A!BytesOf(n) = [A!Nothing EXCEPT !.bytes = n] /\ A!BytesOf(n) \in [A!Kind -> Nat]
    BY ProfileAssumption, CostOfOneKind, FiveKinds DEF A!BytesOf
  <2>3. CASE ~A!Grants(A!BytesOf(n))
    <3>1. A!ProbeFails(A!Reserve(A!BytesOf(n)), {}) /\ UNCHANGED traffic
      BY <2>1, <2>2, <2>3
    <3> QED
      BY <1>1, <1>2, <2>2, <3>1
  <2>4. CASE A!Grants(A!BytesOf(n))
    <3>1. /\ traffic' = [traffic EXCEPT !.bytes = @ + n]
          /\ \/ stage' = "launch" /\ ledger' = A!Reserve(A!BytesOf(n)) /\ UNCHANGED probe
             \/ /\ probe.hops < AuditRedirects /\ ledger' = A!Reserve(A!BytesOf(n)) /\ UNCHANGED stage
                /\ probe' = [pc |-> "request", hops |-> probe.hops + 1]
             \/ \E reasons \in {{}, {"scope"}, {"failed"}} :
                  /\ stage' = "analysis" /\ UNCHANGED probe
                  /\ ledger' = [A!Reserve(A!BytesOf(n)) EXCEPT !.reasons = @ \cup reasons]
             \/ A!ProbeFails(A!Reserve(A!BytesOf(n)), {"failed"})
      BY <2>1, <2>2, <2>4
    <3>2. /\ probe' \in [pc : {"request", "lookup", "connect", "transfer"}, hops : Nat]
          /\ probe' = probe \/ probe'.pc = "request"
      BY <1>3, <3>1 DEF A!ProbeFails
    <3>3. Ahead' <= Ahead
      BY <1>0, <3>1, <3>2 DEF Ahead, A!ProbeFails
    <3>4. PICK reasons \in SUBSET A!Reasons :
            \/ ledger' = A!Reserve(A!BytesOf(n))
            \/ ledger' = [A!Reserve(A!BytesOf(n)) EXCEPT !.reasons = @ \cup reasons]
      BY <1>2, <3>1 DEF A!ProbeFails
    <3> QED
      BY <1>0, <2>2, <2>4, <3>1, <3>2, <3>3, <3>4, ByteSteps
  <2> QED
    BY <2>3, <2>4
<1> QED
  BY <1>8, <1>9, <1>10, <1>11, <1>12

---------------------------------------------------------------------------
(* The browser's part of the budget. *)

\* A request goes on or ends, and nothing is sent.
LEMMA QuietRequests ==
  ASSUME BudgetInv, Grown, NEW r \in A!Requests, NEW place \in A!Pcs \ {"lookup", "resolved"},
         A!Request(r, place), UNCHANGED <<secure, traffic, probe, stage>>
  PROVE  BudgetInv'
<1>1. request' \in [A!Requests -> RequestState] /\ Busy' \subseteq Busy
  BY RequestGoes DEF BudgetInv, AuditTypes
<1>2. Ahead' = Ahead /\ Ahead \in Nat
  BY DEF Ahead
<1> QED
  BY <1>1, <1>2, QuietSteps

\* Forward, which either sends what it reserves, once for each lookup, or
\* closes the request.
LEMMA Forwarding ==
  ASSUME BudgetInv, NEW r \in A!Requests, NEW then \in RequestState, NEW n \in Sizes,
         NEW counted, NEW sent \in Traffic, A!Forward(r, then, n, counted, sent),
         then.pc \notin {"lookup", "resolved"}, UNCHANGED <<secure, probe, stage>>,
         sent.dns = traffic.dns, sent.probed = traffic.probed, sent.bytes = traffic.bytes,
         \/ sent.proxied = traffic.proxied
         \/ sent.proxied = traffic.proxied + 1 /\ r \in Busy
  PROVE  BudgetInv'
<1>0. n \in Nat /\ Ahead' = Ahead /\ Ahead \in Nat /\ "closed" \in A!Pcs
  BY ProfileAssumption DEF Ahead, A!Pcs
<1>1. /\ A!BytesOf(n) \in [A!Kind -> Nat] /\ A!BytesOf(n)["bytes"] = n
      /\ A!BytesOf(n)["dns"] = 0 /\ A!BytesOf(n)["tls"] = 0 /\ A!BytesOf(n)["requests"] = 0
  BY <1>0, CostOfOneKind, FiveKinds DEF A!BytesOf
<1>2. CASE A!OwnTotal(n) /\ A!Grants(A!BytesOf(n))
  <2>1. /\ request' = [request EXCEPT ![r] = then] /\ ledger' = A!Reserve(A!BytesOf(n))
        /\ traffic' = [sent EXCEPT !.bytes = @ + n]
    BY <1>2 DEF A!Forward
  <2>2. Grown /\ \A k \in A!Kind : ledger'.used[k] = ledger.used[k] + A!BytesOf(n)[k]
    BY <1>1, <1>2, <2>1, LedgerReserves DEF BudgetInv
  <2>3. request' \in [A!Requests -> RequestState] /\ Busy' = Busy \ {r}
    BY <2>1, RequestMoves DEF BudgetInv, AuditTypes
  <2>4. /\ traffic' \in Traffic /\ traffic'.dns = sent.dns /\ traffic'.probed = sent.probed
        /\ traffic'.proxied = sent.proxied /\ traffic'.bytes = sent.bytes + n
    BY <1>0, <2>1, TrafficCounts DEF Traffic
  <2>5. AuditTypes'
    BY <2>3, <2>4 DEF BudgetInv, AuditTypes
  <2>6. /\ Cardinality(Busy') <= Cardinality(Busy)
        /\ r \in Busy => Cardinality(Busy') = Cardinality(Busy) - 1
        /\ Cardinality(Busy) \in Nat /\ Cardinality(Busy') \in Nat
    BY <2>3, RequestsAreFinite, FS_RemoveElement
  <2>7. /\ ledger'.used["dns"] = ledger.used["dns"] /\ ledger'.used["tls"] = ledger.used["tls"]
        /\ ledger'.used["requests"] = ledger.used["requests"]
        /\ ledger'.used["bytes"] = ledger.used["bytes"] + n
        /\ ledger.used["dns"] \in Nat /\ ledger.used["tls"] \in Nat
        /\ ledger.used["requests"] \in Nat /\ ledger.used["bytes"] \in Nat
    BY <1>1, <2>2, FiveKinds DEF BudgetInv, LedgerInv, Ledger
  <2>8. traffic.dns \in Nat /\ traffic.probed \in Nat /\ traffic.proxied \in Nat /\ traffic.bytes \in Nat
    BY DEF BudgetInv, AuditTypes, Traffic
  <2>9. /\ traffic'.dns <= ledger'.used["dns"] /\ (secure' => traffic'.dns <= ledger'.used["tls"])
        /\ traffic'.bytes <= ledger'.used["bytes"]
    BY <1>0, <2>4, <2>7, <2>8 DEF BudgetInv
  <2>10. traffic'.probed + Ahead' <= ledger'.used["requests"]
    BY <1>0, <2>4, <2>7, <2>8 DEF BudgetInv
  <2>11. traffic'.probed + traffic'.proxied + Cardinality(Busy') + Ahead' <= traffic'.dns
    BY <1>0, <2>4, <2>6, <2>8 DEF BudgetInv
  <2> QED
    BY <2>2, <2>5, <2>9, <2>10, <2>11 DEF BudgetInv, Grown
<1>3. CASE ~(A!OwnTotal(n) /\ A!Grants(A!BytesOf(n)))
  <2>1. /\ A!Request(r, "closed") /\ UNCHANGED traffic
        /\ ledger' = A!Reserve(A!BytesOf(n)) \/ ledger' = ledger
    BY <1>3 DEF A!Forward
  <2>2. {} \in SUBSET A!Reasons
    OBVIOUS
  <2>3. Grown
    BY <1>1, <2>1, <2>2, LedgerReserves, LedgerMarks DEF BudgetInv
  <2>4. "closed" \in A!Pcs \ {"lookup", "resolved"}
    BY <1>0
  <2> QED
    BY <2>1, <2>3, <2>4, QuietRequests
<1> QED
  BY <1>2, <1>3

LEMMA RequestStepsKeepTheBudget ==
  ASSUME BudgetInv, NEW r \in A!Requests,
         \/ A!Route(r) \/ A!Unrouted(r) \/ A!Target(r) \/ A!Resolved(r)
         \/ A!TurnedAway(r) \/ A!Tunnel(r) \/ A!Chunk(r) \/ A!TunnelEnds(r)
         \/ A!BadRequest(r) \/ A!PlainRequest(r) \/ A!PlainAnswer(r) \/ A!PlainChunk(r) \/ A!PlainEnds(r)
  PROVE  BudgetInv'
<1>0. UNCHANGED <<secure, probe, stage>> /\ stage = "browsing"
  BY DEF A!Route, A!Unrouted, A!Target, A!Resolved, A!TurnedAway, A!Tunnel, A!Chunk, A!TunnelEnds,
         A!BadRequest, A!PlainRequest, A!PlainAnswer, A!PlainChunk, A!PlainEnds, A!Ends, A!May,
         A!Page, A!Outcome, A!At, A!Running
<1>1. /\ LedgerInv /\ request \in [A!Requests -> RequestState] /\ request[r] \in RequestState
      /\ traffic \in Traffic /\ Ahead = 0 /\ Ahead' = 0
  BY <1>0 DEF BudgetInv, AuditTypes, Ahead
<1>2. /\ A!StopReasons \in SUBSET A!Reasons /\ {} \in SUBSET A!Reasons
      /\ {"closed", "target", "open", "sent"} \subseteq A!Pcs \ {"lookup", "resolved"}
      /\ {"lookup", "resolved"} \subseteq A!Pcs
  BY StopReasonsAreReasons DEF A!Pcs
<1>3. UNCHANGED ledger => Grown
  BY <1>1, <1>2, LedgerMarks
<1>4. ledger' = A!Mark(A!StopReasons) => Grown
  BY <1>1, <1>2, LedgerMarks
<1>5. ASSUME Grown, NEW place \in A!Pcs \ {"lookup", "resolved"}, A!Request(r, place), UNCHANGED traffic
      PROVE  BudgetInv'
  BY <1>0, <1>5, QuietRequests
<1>6. \A k \in A!Kind : ledger.used[k] \in Nat
  BY <1>1 DEF LedgerInv, Ledger
<1>7. traffic.dns \in Nat /\ traffic.probed \in Nat /\ traffic.proxied \in Nat /\ traffic.bytes \in Nat
  BY <1>1 DEF Traffic
<1>8. /\ IsFiniteSet(Busy) /\ Cardinality(Busy) \in Nat /\ Cardinality(Busy') \in Nat
      /\ Busy' \subseteq Busy => Cardinality(Busy') <= Cardinality(Busy)
  BY RequestsAreFinite
<1>9. 0 \in Nat /\ 1 \in Nat /\ UNCHANGED secure
  BY <1>0
\* A request leaves for the proxy, in the scope or not.
<1>10. ASSUME NEW inScope \in BOOLEAN,
              request' = [request EXCEPT ![r].pc = "target", ![r].inScope = inScope]
       PROVE  request' \in [A!Requests -> RequestState] /\ Busy' \subseteq Busy
  <2>1. PICK x : x = [request[r] EXCEPT !.pc = "target"]
    OBVIOUS
  <2>2. PICK y : y = [x EXCEPT !.inScope = inScope]
    OBVIOUS
  <2>3. x \in RequestState /\ x.pc = "target"
    BY <1>1, <1>2, <2>1, RequestStates
  <2>4. y \in RequestState /\ y.pc = "target"
    BY <2>2, <2>3, RequestStates
  <2>5. request' = [request EXCEPT ![r] = y]
    BY <1>1, <1>10, <2>1, <2>2
  <2> QED
    BY <1>1, <2>4, <2>5, RequestMoves
<1>11. CASE A!Route(r)
  <2> DEFINE cost == [A!Nothing EXCEPT !.requests = 1]
  <2>1. cost \in [A!Kind -> Nat]
    BY CostOfOneKind, FiveKinds
  <2> HIDE DEF cost
  <2>2. UNCHANGED traffic
    BY <1>11 DEF A!Route
  <2>3. ledger' = A!Reserve(cost) \/ ledger' = ledger \/ ledger' = A!Mark(A!StopReasons)
    BY <1>11 DEF A!Route, A!TurnAway, cost
  <2>4. Grown
    BY <1>1, <1>2, <1>3, <1>4, <2>1, <2>3, LedgerReserves
  <2>5. CASE A!Request(r, "closed")
    BY <1>2, <1>5, <2>2, <2>4, <2>5
  <2>6. CASE request' = [request EXCEPT ![r].pc = "target", ![r].inScope = TRUE]
    <3>1. TRUE \in BOOLEAN /\ Ahead' <= Ahead
      BY <1>1
    <3> QED
      BY <1>0, <1>10, <2>2, <2>4, <2>6, <3>1, QuietSteps
  <2> QED
    BY <1>11, <2>5, <2>6 DEF A!Route, A!TurnAway
<1>12. CASE A!Unrouted(r)
  <2>1. PICK inScope \in BOOLEAN : request' = [request EXCEPT ![r].pc = "target", ![r].inScope = inScope]
    BY <1>12 DEF A!Unrouted
  <2>2. UNCHANGED <<ledger, traffic>>
    BY <1>12 DEF A!Unrouted
  <2>3. Ahead' <= Ahead
    BY <1>1
  <2> QED
    BY <1>0, <1>3, <1>10, <2>1, <2>2, <2>3, QuietSteps
<1>13. CASE A!Target(r)
  <2>1. CASE A!Request(r, "closed") /\ UNCHANGED traffic
    <3>1. ledger' = A!Reserve(A!Lookup) \/ ledger' = ledger \/ ledger' = A!Mark(A!StopReasons)
      BY <1>13 DEF A!Target
    <3>2. ledger' = A!Reserve(A!Lookup) => Grown
      BY <1>1, <1>2, Costs, LedgerReserves
    <3> QED
      BY <1>2, <1>3, <1>4, <1>5, <2>1, <3>1, <3>2
  <2>2. CASE /\ ledger' = A!Reserve(A!Lookup) /\ A!Grants(A!Lookup) /\ A!Request(r, "lookup")
             /\ traffic' = [traffic EXCEPT !.dns = @ + 1] /\ request[r].pc = "target"
    <3>1. Grown /\ \A k \in A!Kind : ledger'.used[k] = ledger.used[k] + A!Lookup[k]
      BY <1>1, <1>2, <2>2, Costs, LedgerReserves
    <3>2. request' \in [A!Requests -> RequestState] /\ Busy' = Busy \cup {r} /\ r \notin Busy
      BY <1>1, <1>2, <2>2, RequestGoes DEF Busy
    <3>3. Cardinality(Busy') = Cardinality(Busy) + 1
      BY <1>8, <3>2, FS_AddElement
    <3>4. /\ traffic' \in Traffic /\ traffic'.dns = traffic.dns + 1 /\ traffic'.probed = traffic.probed + 0
          /\ traffic'.proxied = traffic.proxied + 0 /\ traffic'.bytes = traffic.bytes + 0
      BY <1>1, <1>7, <2>2, TrafficCounts DEF Traffic
    <3>5. AuditTypes'
      BY <1>0, <3>2, <3>4 DEF BudgetInv, AuditTypes
    <3>6. /\ ledger'.used["dns"] = ledger.used["dns"] + 1
          /\ secure => ledger'.used["tls"] = ledger.used["tls"] + 1
          /\ ledger'.used["requests"] = ledger.used["requests"]
          /\ ledger'.used["bytes"] = ledger.used["bytes"]
      BY <1>6, <3>1, Costs, FiveKinds
    <3>7. /\ ledger.used["dns"] + 1 <= ledger'.used["dns"]
          /\ ledger.used["requests"] + 0 + Ahead' <= ledger'.used["requests"] + Ahead
          /\ ledger.used["bytes"] + 0 <= ledger'.used["bytes"]
      BY <1>1, <1>6, <3>6, FiveKinds
    <3>8. /\ secure => ledger.used["tls"] + 1 <= ledger'.used["tls"]
          /\ 0 + 0 + Cardinality(Busy') + Ahead' <= 1 + Cardinality(Busy) + Ahead
      BY <1>1, <1>6, <1>8, <3>3, <3>6, FiveKinds
    <3> QED
      BY <1>9, <3>1, <3>4, <3>5, <3>7, <3>8, BudgetMoves
  <2> QED
    BY <1>13, <2>1, <2>2 DEF A!Target, A!At
<1>14. CASE A!Resolved(r)
  <2>1. request[r].pc = "lookup" /\ (A!Request(r, "resolved") \/ A!Request(r, "closed")) /\ UNCHANGED <<ledger, traffic>>
    BY <1>14 DEF A!Resolved, A!At
  <2>2. request' \in [A!Requests -> RequestState] /\ Busy' \subseteq Busy
    BY <1>1, <1>2, <2>1, RequestGoes DEF Busy
  <2>3. Ahead' <= Ahead
    BY <1>1
  <2> QED
    BY <1>0, <1>3, <2>1, <2>2, <2>3, QuietSteps
<1>15. CASE A!TurnedAway(r) \/ A!TunnelEnds(r) \/ A!BadRequest(r) \/ A!PlainEnds(r)
  <2>1. A!Request(r, "closed") /\ UNCHANGED traffic /\ (ledger' = ledger \/ ledger' = A!Mark(A!StopReasons))
    BY <1>15 DEF A!TurnedAway, A!TunnelEnds, A!BadRequest, A!PlainEnds, A!Ends
  <2> QED
    BY <1>2, <1>3, <1>4, <1>5, <2>1
<1>16. CASE A!Tunnel(r)
  <2>1. /\ request[r].pc = "resolved" /\ A!Request(r, "open") /\ UNCHANGED ledger
        /\ traffic' = [traffic EXCEPT !.proxied = @ + 1]
    BY <1>16 DEF A!Tunnel, A!May, A!At, A!Connecting
  <2>2. request' \in [A!Requests -> RequestState] /\ Busy' = Busy \ {r} /\ r \in Busy
    BY <1>1, <1>2, <2>1, RequestGoes DEF Busy
  <2>3. Cardinality(Busy') = Cardinality(Busy) - 1
    BY <1>8, <2>2, FS_RemoveElement
  <2>4. /\ traffic' \in Traffic /\ traffic'.dns = traffic.dns + 0 /\ traffic'.probed = traffic.probed + 0
        /\ traffic'.proxied = traffic.proxied + 1 /\ traffic'.bytes = traffic.bytes + 0
    BY <1>1, <1>7, <2>1, TrafficCounts DEF Traffic
  <2>5. AuditTypes'
    BY <1>0, <2>2, <2>4 DEF BudgetInv, AuditTypes
  <2>6. /\ ledger.used["dns"] + 0 <= ledger'.used["dns"]
        /\ ledger.used["requests"] + 0 + Ahead' <= ledger'.used["requests"] + Ahead
        /\ ledger.used["bytes"] + 0 <= ledger'.used["bytes"]
        /\ ledger.used["tls"] + 0 <= ledger'.used["tls"]
        /\ 0 + 1 + Cardinality(Busy') + Ahead' <= 0 + Cardinality(Busy) + Ahead
    BY <1>1, <1>6, <1>8, <2>1, <2>3, FiveKinds
  <2> QED
    BY <1>3, <1>9, <2>1, <2>4, <2>5, <2>6, BudgetMoves
<1>17. CASE A!Chunk(r) \/ A!PlainChunk(r)
  <2>1. PICK n \in Sizes :
          \/ A!Request(r, "closed") /\ UNCHANGED <<ledger, proxy, traffic, refused, cut>>
          \/ A!Forward(r, [request[r] EXCEPT !.bytes = @ + n], n, proxy, traffic)
    BY <1>17 DEF A!Chunk, A!PlainChunk
  <2>2. PICK then : then = [request[r] EXCEPT !.bytes = @ + n]
    OBVIOUS
  <2>3. then \in RequestState /\ then.pc = request[r].pc /\ request[r].pc = "open"
    BY <1>1, <1>17, <2>2, ProfileAssumption, RequestStates DEF A!Chunk, A!PlainChunk, A!At
  <2>4. then.pc \notin {"lookup", "resolved"}
    BY <2>3
  <2>5. CASE A!Request(r, "closed") /\ UNCHANGED <<ledger, proxy, traffic, refused, cut>>
    BY <1>2, <1>3, <1>5, <2>5
  <2>6. CASE A!Forward(r, then, n, proxy, traffic)
    BY <1>0, <1>1, <2>3, <2>4, <2>6, Forwarding
  <2> QED
    BY <2>1, <2>2, <2>5, <2>6
<1>18. CASE A!PlainRequest(r)
  <2>1. PICK n \in Sizes : A!Forward(r, [request[r] EXCEPT !.pc = "sent"], n, A!Counted, A!Connecting)
    BY <1>18 DEF A!PlainRequest
  <2>2. PICK then : then = [request[r] EXCEPT !.pc = "sent"]
    OBVIOUS
  <2>3. PICK sent : sent = A!Connecting
    OBVIOUS
  <2>4. then \in RequestState /\ then.pc \notin {"lookup", "resolved"}
    BY <1>1, <1>2, <2>2, RequestStates
  <2>5. sent \in Traffic /\ sent.dns = traffic.dns /\ sent.probed = traffic.probed
        /\ sent.proxied = traffic.proxied + 1 /\ sent.bytes = traffic.bytes
    BY <1>1, <2>3, TrafficCounts DEF A!Connecting, Traffic
  <2>6. r \in Busy
    BY <1>18 DEF A!PlainRequest, A!May, A!At, Busy
  <2> QED
    BY <1>0, <2>1, <2>2, <2>3, <2>4, <2>5, <2>6, Forwarding
<1>19. CASE A!PlainAnswer(r)
  <2>1. PICK n \in Sizes : A!Forward(r, [request[r] EXCEPT !.pc = "open"], n, proxy, traffic)
    BY <1>19 DEF A!PlainAnswer
  <2>2. PICK then : then = [request[r] EXCEPT !.pc = "open"]
    OBVIOUS
  <2>3. then \in RequestState /\ then.pc \notin {"lookup", "resolved"}
    BY <1>1, <1>2, <2>2, RequestStates
  <2> QED
    BY <1>0, <1>1, <2>1, <2>2, <2>3, Forwarding
<1> QED
  BY <1>11, <1>12, <1>13, <1>14, <1>15, <1>16, <1>17, <1>18, <1>19

LEMMA BudgetSteps ==
  ASSUME BudgetInv, [A!Next]_(A!vars)
  PROVE  BudgetInv'
<1>0. LedgerInv /\ request \in [A!Requests -> RequestState] /\ Ahead \in Nat
  BY DEF BudgetInv, AuditTypes, Ahead
<1>1. CASE A!TimeIsOver \/ A!Abort
  <2>1. PICK open : request' = A!Closing(open)
    BY <1>1 DEF A!TimeIsOver, A!Abort
  <2>2. UNCHANGED <<secure, ledger, probe, traffic>> /\ (stage' = stage \/ stage' = "aborted")
    BY <1>1 DEF A!TimeIsOver, A!Abort
  <2>3. {} \in SUBSET A!Reasons
    OBVIOUS
  <2>4. Grown
    BY <1>0, <2>2, <2>3, LedgerMarks
  <2>5. Ahead' <= Ahead
    BY <2>2 DEF Ahead
  <2> QED
    BY <1>0, <2>1, <2>2, <2>4, <2>5, RequestsClose, QuietSteps
<1>2. CASE A!Launch \/ A!Start \/ A!OpenPage \/ A!Observe \/ A!Analyze
  <2>1. UNCHANGED <<secure, probe, traffic>> /\ stage # "probe" /\ stage' # "probe"
    BY <1>2 DEF A!Launch, A!Start, A!OpenPage, A!Observe, A!Analyze, A!Outcome, A!Running
  <2>2. Ahead' <= Ahead
    BY <2>1 DEF Ahead
  <2>3. A!OnePage \in [A!Kind -> Nat]
    BY CostOfOneKind, FiveKinds DEF A!OnePage
  <2>4. PICK reasons \in SUBSET A!Reasons :
          ledger' = ledger \/ ledger' = A!Mark(reasons) \/ ledger' = A!Reserve(A!OnePage)
    <3>1. /\ A!StopReasons \in SUBSET A!Reasons /\ {} \in SUBSET A!Reasons
          /\ \A reason \in {"failed", "scope", "time"} : {reason} \in SUBSET A!Reasons
      BY StopReasonsAreReasons DEF A!Reasons
    <3>2. A!Denials(A!OnePage) \cup {"failed"} \in SUBSET A!Reasons
      BY FiveKinds DEF A!Denials, A!Reasons
    <3> QED
      BY <1>2, <3>1, <3>2 DEF A!Launch, A!Start, A!OpenPage, A!Observe, A!Analyze
  <2>5. Grown
    BY <1>0, <2>3, <2>4, LedgerMarks, LedgerReserves
  <2>6. request' = request \/ request' = A!Closing(A!Pcs)
    BY <1>2 DEF A!Launch, A!Start, A!OpenPage, A!Observe, A!Analyze, A!Browsing
  <2>7. request' \in [A!Requests -> RequestState] /\ Busy' \subseteq Busy
    <3>1. CASE request' = request
      BY <1>0, <3>1 DEF Busy
    <3> QED
      BY <1>0, <2>6, <3>1, RequestsClose
  <2> QED
    BY <2>1, <2>2, <2>5, <2>7, QuietSteps
<1>3. CASE UNCHANGED A!vars
  <2>1. UNCHANGED <<secure, ledger, probe, traffic, request, stage>> /\ Busy' = Busy /\ Ahead' = Ahead
    BY <1>3 DEF A!vars, Busy, Ahead
  <2> QED
    BY <2>1 DEF BudgetInv, LedgerInv, AuditTypes
<1> QED
  BY <1>1, <1>2, <1>3, ProbeSteps, RequestStepsKeepTheBudget DEF A!Next

---------------------------------------------------------------------------
(* The proxy's own count. *)

LEMMA ProxyStarts == A!Init => ProxyInv
BY ProfileAssumption DEF A!Init, ProxyInv, ProxyState

LEMMA ProxyCounts ==
  ASSUME NEW counted \in ProxyState, NEW sent \in Traffic, NEW r, NEW then, NEW n \in Sizes,
         A!Forward(r, then, n, counted, sent),
         traffic.proxied <= counted.requests, sent.proxied <= counted.requests,
         counted.requests <= AuditRequests, counted.requests <= HostRequests
  PROVE  ProxyInv'
<1>1. n \in Nat
  BY ProfileAssumption
<1>2. /\ proxy' = counted \/ proxy' = [counted EXCEPT !.bytes = @ + n]
      /\ traffic' = traffic \/ traffic' = [sent EXCEPT !.bytes = @ + n]
  BY DEF A!Forward
<1>3. proxy' \in ProxyState /\ proxy'.requests = counted.requests
  BY <1>1, <1>2 DEF ProxyState
<1>4. traffic'.proxied = traffic.proxied \/ traffic'.proxied = sent.proxied
  BY <1>2 DEF Traffic
<1> QED
  BY <1>3, <1>4 DEF ProxyInv

LEMMA ProxySteps ==
  ASSUME BudgetInv, ProxyInv, [A!Next]_(A!vars)
  PROVE  ProxyInv'
<1>0. /\ traffic \in Traffic /\ proxy \in ProxyState /\ traffic.proxied \in Nat /\ proxy.requests \in Nat
      /\ traffic.proxied <= proxy.requests
      /\ proxy.requests <= AuditRequests /\ proxy.requests <= HostRequests
  BY DEF BudgetInv, AuditTypes, Traffic, ProxyInv, ProxyState
<1>1. ASSUME UNCHANGED proxy, traffic'.proxied = traffic.proxied
      PROVE  ProxyInv'
  BY <1>1 DEF ProxyInv
<1>2. CASE \/ A!TimeIsOver \/ A!Abort \/ A!Launch \/ A!Start \/ A!OpenPage \/ A!Observe \/ A!Analyze
           \/ UNCHANGED A!vars
  <2>1. UNCHANGED <<proxy, traffic>>
    BY <1>2 DEF A!TimeIsOver, A!Abort, A!Launch, A!Start, A!OpenPage, A!Observe, A!Analyze,
                A!Browsing, A!vars
  <2> QED
    BY <1>1, <2>1
<1>3. CASE A!ProbeRequest \/ A!ProbeResolved \/ A!ProbeConnect \/ A!ProbeUnanswered \/ A!ProbeAnswer
  <2>1. /\ UNCHANGED proxy
        /\ \/ traffic' = traffic \/ traffic' = [traffic EXCEPT !.dns = @ + 1]
           \/ traffic' = [traffic EXCEPT !.probed = @ + 1]
           \/ \E n \in Sizes : traffic' = [traffic EXCEPT !.bytes = @ + n]
    BY <1>3 DEF A!ProbeRequest, A!ProbeResolved, A!ProbeConnect, A!ProbeUnanswered, A!ProbeAnswer,
                A!NoBrowser, A!Browsing
  <2>2. traffic'.proxied = traffic.proxied
    BY <1>0, <2>1 DEF Traffic
  <2> QED
    BY <1>1, <2>1, <2>2
<1>4. ASSUME NEW r \in A!Requests,
             \/ A!Route(r) \/ A!Unrouted(r) \/ A!Target(r) \/ A!Resolved(r) \/ A!TurnedAway(r)
             \/ A!TunnelEnds(r) \/ A!BadRequest(r) \/ A!PlainEnds(r)
      PROVE  ProxyInv'
  <2>1. UNCHANGED proxy /\ (traffic' = traffic \/ traffic' = [traffic EXCEPT !.dns = @ + 1])
    BY <1>4 DEF A!Route, A!Unrouted, A!Target, A!Resolved, A!TurnedAway, A!TunnelEnds, A!BadRequest,
                A!PlainEnds, A!Ends
  <2>2. traffic'.proxied = traffic.proxied
    BY <1>0, <2>1 DEF Traffic
  <2> QED
    BY <1>1, <2>1, <2>2
<1>5. ASSUME NEW r \in A!Requests, A!Chunk(r) \/ A!PlainAnswer(r) \/ A!PlainChunk(r)
      PROVE  ProxyInv'
  <2>1. \/ UNCHANGED <<proxy, traffic>>
        \/ \E n \in Sizes : \E then : A!Forward(r, then, n, proxy, traffic)
    BY <1>5 DEF A!Chunk, A!PlainAnswer, A!PlainChunk
  <2> QED
    BY <1>0, <1>1, <2>1, ProxyCounts
<1>6. ASSUME NEW r \in A!Requests, A!Tunnel(r) \/ A!PlainRequest(r)
      PROVE  ProxyInv'
  <2>1. PICK counted : counted = A!Counted
    OBVIOUS
  <2>2. PICK sent : sent = A!Connecting
    OBVIOUS
  <2>3. counted \in ProxyState /\ counted.requests = proxy.requests + 1
    BY <1>0, <2>1 DEF A!Counted, ProxyState
  <2>4. sent \in Traffic /\ sent.proxied = traffic.proxied + 1
    BY <1>0, <2>2 DEF A!Connecting, Traffic
  <2>5. counted.requests <= AuditRequests /\ counted.requests <= HostRequests
    BY <1>0, <1>6, <2>1, <2>3, ProfileAssumption DEF A!Tunnel, A!PlainRequest, A!May, A!TooMany
  <2>6. sent.proxied <= counted.requests /\ traffic.proxied <= counted.requests
    BY <1>0, <2>3, <2>4
  <2>7. CASE A!Tunnel(r)
    <3>1. proxy' = counted /\ traffic' = sent
      BY <2>1, <2>2, <2>7 DEF A!Tunnel
    <3> QED
      BY <2>3, <2>4, <2>5, <2>6, <3>1 DEF ProxyInv
  <2>8. CASE A!PlainRequest(r)
    <3>1. PICK n, then : n \in Sizes /\ A!Forward(r, then, n, counted, sent)
      BY <2>1, <2>2, <2>8 DEF A!PlainRequest
    <3> QED
      BY <2>3, <2>4, <2>5, <2>6, <3>1, ProxyCounts
  <2> QED
    BY <1>6, <2>7, <2>8
<1> QED
  BY <1>2, <1>3, <1>4, <1>5, <1>6 DEF A!Next

---------------------------------------------------------------------------
(* The coverage of the audit.                                              *)

\* What was refused in the scope left a reason, and who waits for a lookup is
\* in the scope.
HonestInv ==
  /\ BudgetInv
  /\ refused => ledger.reasons # {}
  /\ exhausted => ledger.reasons # {}
  /\ seen \subseteq {"http", "browser"}
  /\ \A r \in Busy : request[r].inScope
  /\ A!FullCoverageIsFull

LEMMA HonestStarts == A!Init => HonestInv
BY BudgetStarts DEF A!Init, HonestInv, Busy, A!FullCoverageIsFull

\* Reasons stay.
LEMMA ReasonsStay ==
  ASSUME ledger \in Ledger, NEW cost \in [A!Kind -> Nat], NEW reasons \in SUBSET A!Reasons,
         \/ ledger' = ledger \/ ledger' = A!Mark(reasons) \/ ledger' = A!Reserve(cost)
         \/ ledger' = [A!Reserve(cost) EXCEPT !.reasons = @ \cup reasons]
  PROVE  /\ ledger.reasons \subseteq ledger'.reasons
         /\ ledger' = A!Mark(reasons) /\ reasons # {} => ledger'.reasons # {}
         /\ ~A!Grants(cost) /\ (ledger' = A!Reserve(cost)
              \/ ledger' = [A!Reserve(cost) EXCEPT !.reasons = @ \cup reasons]) => ledger'.reasons # {}
<1>1. PICK l : l = A!Reserve(cost)
  OBVIOUS
<1>2. /\ l \in Ledger /\ ledger.reasons \subseteq l.reasons
      /\ ~A!Grants(cost) => l.reasons # {}
  BY <1>1, Reservations
<1>3. CASE ledger' = l \/ ledger' = [l EXCEPT !.reasons = @ \cup reasons]
  <2>1. l.reasons \subseteq ledger'.reasons
    BY <1>2, <1>3, MarksOf
  <2>2. ledger' = A!Mark(reasons) => reasons \subseteq ledger'.reasons
    BY MarksOf DEF A!Mark
  <2> QED
    BY <1>2, <2>1, <2>2
<1>4. CASE ledger' = ledger \/ ledger' = A!Mark(reasons)
  <2>1. ledger' = A!Mark(reasons) => ledger'.reasons = ledger.reasons \cup reasons
    BY MarksOf DEF A!Mark
  <2>2. ledger.reasons \subseteq ledger'.reasons
    BY <1>4, <2>1
  <2>3. l.reasons \subseteq ledger'.reasons \/ ~(ledger' = l \/ ledger' = [l EXCEPT !.reasons = @ \cup reasons])
    BY <1>2, MarksOf
  <2> QED
    BY <1>1, <1>2, <2>1, <2>2, <2>3
<1> QED
  BY <1>1, <1>3, <1>4

\* Who waits for a lookup keeps its scope.
LEMMA ScopesStay ==
  ASSUME HonestInv, NEW r \in A!Requests, NEW x \in RequestState, request' = [request EXCEPT ![r] = x],
         x.pc \in {"lookup", "resolved"} => x.inScope
  PROVE  \A q \in Busy' : request'[q].inScope
BY DEF HonestInv, BudgetInv, AuditTypes, Busy

LEMMA RequestStepsAreHonest ==
  ASSUME HonestInv, BudgetInv', NEW r \in A!Requests,
         \/ A!Route(r) \/ A!Unrouted(r) \/ A!Target(r) \/ A!Resolved(r)
         \/ A!TurnedAway(r) \/ A!Tunnel(r) \/ A!Chunk(r) \/ A!TunnelEnds(r)
         \/ A!BadRequest(r) \/ A!PlainRequest(r) \/ A!PlainAnswer(r) \/ A!PlainChunk(r) \/ A!PlainEnds(r)
  PROVE  HonestInv'
<1>0. UNCHANGED <<stage, exhausted, seen>> /\ stage = "browsing"
  BY DEF A!Route, A!Unrouted, A!Target, A!Resolved, A!TurnedAway, A!Tunnel, A!Chunk, A!TunnelEnds,
         A!BadRequest, A!PlainRequest, A!PlainAnswer, A!PlainChunk, A!PlainEnds, A!Ends, A!May,
         A!Page, A!At, A!Running
<1>1. /\ ledger \in Ledger /\ request \in [A!Requests -> RequestState] /\ request[r] \in RequestState
      /\ request[r].pc \in {"lookup", "resolved"} => request[r].inScope
  BY DEF HonestInv, BudgetInv, LedgerInv, AuditTypes, Busy
<1>2. A!StopReasons \in SUBSET A!Reasons /\ {} \in SUBSET A!Reasons
      /\ (A!Stopped => A!StopReasons # {} \/ ledger.reasons # {})
  BY StopReasonsAreReasons
<1>3. PICK requests \in [A!Kind -> Nat] : requests = [A!Nothing EXCEPT !.requests = 1]
  BY CostOfOneKind, FiveKinds
<1>4. A!Lookup \in [A!Kind -> Nat] /\ \A n \in Sizes : A!BytesOf(n) \in [A!Kind -> Nat]
  BY Costs, CostOfOneKind, FiveKinds, ProfileAssumption DEF A!BytesOf
\* A request that changes its step, and perhaps its scope before its lookup.
<1>5. ASSUME NEW place \in A!Pcs, A!Request(r, place),
             place \in {"lookup", "resolved"} => request[r].inScope
      PROVE  \A q \in Busy' : request'[q].inScope
  <2>1. PICK x : x = [request[r] EXCEPT !.pc = place]
    OBVIOUS
  <2>2. x \in RequestState /\ x.pc = place /\ x.inScope = request[r].inScope
    BY <1>1, <2>1 DEF RequestState
  <2>3. request' = [request EXCEPT ![r] = x]
    BY <1>5, <2>1 DEF A!Request
  <2> QED
    BY <1>5, <2>2, <2>3, ScopesStay
<1>6. ASSUME NEW inScope \in BOOLEAN,
             request' = [request EXCEPT ![r].pc = "target", ![r].inScope = inScope]
      PROVE  \A q \in Busy' : request'[q].inScope
  <2>1. PICK x : x = [request[r] EXCEPT !.pc = "target"]
    OBVIOUS
  <2>2. PICK y : y = [x EXCEPT !.inScope = inScope]
    OBVIOUS
  <2>3. x \in RequestState /\ x.pc = "target"
    BY <1>1, <2>1, RequestStates DEF A!Pcs
  <2>4. y \in RequestState /\ y.pc = "target"
    BY <2>2, <2>3, RequestStates
  <2>5. request' = [request EXCEPT ![r] = y]
    BY <1>1, <1>6, <2>1, <2>2
  <2> QED
    BY <2>4, <2>5, ScopesStay
<1>7. ASSUME \A q \in Busy' : request'[q].inScope, ledger.reasons \subseteq ledger'.reasons,
             refused' => refused \/ ledger'.reasons # {}
      PROVE  HonestInv'
  BY <1>0, <1>7 DEF HonestInv, A!FullCoverageIsFull
<1>8. {"closed", "target", "open", "sent", "lookup", "resolved"} \subseteq A!Pcs
  BY DEF A!Pcs
<1>9. ASSUME ledger' = ledger \/ ledger' = A!Mark(A!StopReasons)
      PROVE  /\ ledger.reasons \subseteq ledger'.reasons
             /\ ledger' = A!Mark(A!StopReasons) /\ A!Stopped => ledger'.reasons # {}
  BY <1>1, <1>2, <1>4, <1>9, ReasonsStay
<1>10. ASSUME NEW cost \in [A!Kind -> Nat], ledger' = A!Reserve(cost)
       PROVE  /\ ledger.reasons \subseteq ledger'.reasons
              /\ ~A!Grants(cost) => ledger'.reasons # {}
  BY <1>1, <1>2, <1>10, ReasonsStay
\* Forward leaves its reason when the ledger refuses.
<1>11. ASSUME NEW n \in Sizes, NEW then \in RequestState, NEW counted, NEW sent,
              A!Forward(r, then, n, counted, sent), then.pc \notin {"lookup", "resolved"}
       PROVE  HonestInv'
  <2>1. \A q \in Busy' : request'[q].inScope
    BY <1>5, <1>8, <1>11, ScopesStay DEF A!Forward
  <2>2. \/ ledger' = A!Reserve(A!BytesOf(n)) /\ (refused' = refused \/ ~A!Grants(A!BytesOf(n)))
        \/ ledger' = ledger /\ refused' = refused
    BY <1>11 DEF A!Forward
  <2>3. ledger.reasons \subseteq ledger'.reasons /\ (refused' => refused \/ ledger'.reasons # {})
    BY <1>4, <1>10, <2>2
  <2> QED
    BY <1>7, <2>1, <2>3
<1>12. CASE A!Route(r)
  <2>1. PICK inScope \in BOOLEAN :
          IF ~inScope \/ exhausted \/ A!Stopped
          THEN A!TurnAway(r, inScope)
          ELSE /\ ledger' = A!Reserve(requests) /\ A!Refuses(requests)
               /\ IF A!Grants(requests)
                  THEN request' = [request EXCEPT ![r].pc = "target", ![r].inScope = TRUE]
                  ELSE A!Request(r, "closed")
    BY <1>3, <1>12 DEF A!Route
  <2>2. CASE ~inScope \/ exhausted \/ A!Stopped
    <3>1. /\ A!Request(r, "closed") /\ refused' = (refused \/ inScope)
          /\ ledger' = IF inScope /\ ~exhausted THEN A!Mark(A!StopReasons) ELSE ledger
      BY <2>1, <2>2 DEF A!TurnAway
    <3>2. \A q \in Busy' : request'[q].inScope
      BY <1>5, <1>8, <3>1
    <3>3. ledger.reasons \subseteq ledger'.reasons
      BY <1>9, <3>1
    <3>4. exhausted => ledger.reasons # {}
      BY DEF HonestInv
    <3>5. refused' => refused \/ ledger'.reasons # {}
      BY <1>9, <2>2, <3>1, <3>3, <3>4
    <3> QED
      BY <1>7, <3>2, <3>3, <3>5
  <2>3. CASE ~(~inScope \/ exhausted \/ A!Stopped)
    <3>1. /\ ledger' = A!Reserve(requests) /\ refused' = (refused \/ ~A!Grants(requests))
          /\ \/ request' = [request EXCEPT ![r].pc = "target", ![r].inScope = TRUE]
             \/ A!Request(r, "closed")
      BY <2>1, <2>3 DEF A!Refuses
    <3>2. TRUE \in BOOLEAN
      OBVIOUS
    <3>3. \A q \in Busy' : request'[q].inScope
      BY <1>5, <1>6, <1>8, <3>1, <3>2
    <3>4. ledger.reasons \subseteq ledger'.reasons /\ (refused' => refused \/ ledger'.reasons # {})
      BY <1>3, <1>10, <3>1
    <3> QED
      BY <1>7, <3>3, <3>4
  <2> QED
    BY <2>2, <2>3
<1>13. CASE A!Unrouted(r)
  <2>1. PICK inScope \in BOOLEAN : request' = [request EXCEPT ![r].pc = "target", ![r].inScope = inScope]
    BY <1>13 DEF A!Unrouted
  <2>2. UNCHANGED <<ledger, refused>>
    BY <1>13 DEF A!Unrouted
  <2> QED
    BY <1>6, <1>7, <2>1, <2>2
<1>14. CASE A!Target(r)
  <2>1. CASE ~request[r].inScope \/ A!Stopped
    <3>1. /\ A!Request(r, "closed") /\ refused' = (refused \/ request[r].inScope)
          /\ ledger' = IF request[r].inScope THEN A!Mark(A!StopReasons) ELSE ledger
      BY <1>14, <2>1 DEF A!Target
    <3>2. \A q \in Busy' : request'[q].inScope
      BY <1>5, <1>8, <3>1
    <3> QED
      BY <1>7, <1>9, <2>1, <3>1, <3>2
  <2>2. CASE ~(~request[r].inScope \/ A!Stopped)
    <3>1. /\ ledger' = A!Reserve(A!Lookup) /\ refused' = (refused \/ ~A!Grants(A!Lookup))
          /\ A!Request(r, "lookup") \/ A!Request(r, "closed")
      BY <1>14, <2>2 DEF A!Target, A!Refuses
    <3>2. \A q \in Busy' : request'[q].inScope
      BY <1>5, <1>8, <2>2, <3>1
    <3> QED
      BY <1>4, <1>7, <1>10, <3>1, <3>2
  <2> QED
    BY <2>1, <2>2
<1>15. CASE A!Resolved(r)
  <2>1. request[r].inScope /\ (A!Request(r, "resolved") \/ A!Request(r, "closed")) /\ UNCHANGED <<ledger, refused>>
    BY <1>1, <1>15 DEF A!Resolved, A!At
  <2> QED
    BY <1>5, <1>7, <1>8, <2>1
<1>16. CASE A!TurnedAway(r)
  <2>1. A!Request(r, "closed") /\ request[r].inScope
    BY <1>1, <1>16 DEF A!TurnedAway, A!At
  <2>2. \/ UNCHANGED <<ledger, refused>>
        \/ ledger' = A!Mark(A!StopReasons) /\ A!Stopped
    BY <1>16, <2>1 DEF A!TurnedAway, A!StillAllowed
  <2>3. \A q \in Busy' : request'[q].inScope
    BY <1>5, <1>8, <2>1
  <2> QED
    BY <1>7, <1>9, <2>2, <2>3
<1>17. CASE A!TunnelEnds(r) \/ A!BadRequest(r) \/ A!PlainEnds(r) \/ A!Tunnel(r)
  <2>1. (A!Request(r, "closed") \/ A!Request(r, "open")) /\ UNCHANGED <<ledger, refused>>
    BY <1>17 DEF A!TunnelEnds, A!BadRequest, A!PlainEnds, A!Ends, A!Tunnel
  <2> QED
    BY <1>5, <1>7, <1>8, <2>1
<1>18. CASE A!Chunk(r) \/ A!PlainChunk(r)
  <2>1. PICK n \in Sizes :
          \/ A!Request(r, "closed") /\ UNCHANGED <<ledger, proxy, traffic, refused, cut>>
          \/ A!Forward(r, [request[r] EXCEPT !.bytes = @ + n], n, proxy, traffic)
    BY <1>18 DEF A!Chunk, A!PlainChunk
  <2>2. PICK then : then = [request[r] EXCEPT !.bytes = @ + n]
    OBVIOUS
  <2>3. then \in RequestState /\ then.pc = request[r].pc /\ request[r].pc = "open"
    BY <1>1, <1>18, <2>2, ProfileAssumption, RequestStates DEF A!Chunk, A!PlainChunk, A!At
  <2>4. then.pc \notin {"lookup", "resolved"}
    BY <2>3
  <2>5. CASE A!Request(r, "closed") /\ UNCHANGED <<ledger, proxy, traffic, refused, cut>>
    BY <1>5, <1>7, <1>8, <2>5
  <2>6. CASE A!Forward(r, then, n, proxy, traffic)
    BY <1>11, <2>3, <2>4, <2>6
  <2> QED
    BY <2>1, <2>2, <2>5, <2>6
<1>19. CASE A!PlainRequest(r)
  <2>1. PICK n \in Sizes : A!Forward(r, [request[r] EXCEPT !.pc = "sent"], n, A!Counted, A!Connecting)
    BY <1>19 DEF A!PlainRequest
  <2>2. [request[r] EXCEPT !.pc = "sent"] \in RequestState /\ [request[r] EXCEPT !.pc = "sent"].pc = "sent"
    BY <1>1, <1>8, RequestStates
  <2> QED
    BY <1>11, <2>1, <2>2
<1>20. CASE A!PlainAnswer(r)
  <2>1. PICK n \in Sizes : A!Forward(r, [request[r] EXCEPT !.pc = "open"], n, proxy, traffic)
    BY <1>20 DEF A!PlainAnswer
  <2>2. [request[r] EXCEPT !.pc = "open"] \in RequestState /\ [request[r] EXCEPT !.pc = "open"].pc = "open"
    BY <1>1, <1>8, RequestStates
  <2> QED
    BY <1>11, <2>1, <2>2
<1> QED
  BY <1>12, <1>13, <1>14, <1>15, <1>16, <1>17, <1>18, <1>19, <1>20

LEMMA ProbeStepsAreHonest ==
  ASSUME HonestInv, BudgetInv',
         \/ A!ProbeRequest \/ A!ProbeResolved \/ A!ProbeConnect \/ A!ProbeUnanswered \/ A!ProbeAnswer
  PROVE  HonestInv'
<1>0. UNCHANGED <<request, exhausted>> /\ Busy' = Busy /\ ledger \in Ledger
  BY DEF A!ProbeRequest, A!ProbeResolved, A!ProbeConnect, A!ProbeUnanswered, A!ProbeAnswer,
         A!NoBrowser, A!Browsing, Busy, HonestInv, BudgetInv, LedgerInv
<1>1. stage' # "stored" /\ seen' \subseteq {"http", "browser"}
  BY DEF A!ProbeRequest, A!ProbeResolved, A!ProbeConnect, A!ProbeUnanswered, A!ProbeAnswer,
         A!ProbeFails, A!ProbeGoes, A!Probing, HonestInv
<1>2. ASSUME ledger.reasons \subseteq ledger'.reasons, refused' => refused \/ ledger'.reasons # {}
      PROVE  HonestInv'
  BY <1>0, <1>1, <1>2 DEF HonestInv, A!FullCoverageIsFull
<1>3. /\ A!StopReasons \in SUBSET A!Reasons /\ {} \in SUBSET A!Reasons
      /\ \A reason \in {"dns-failed", "time", "failed", "scope"} : {reason} \in SUBSET A!Reasons
  BY StopReasonsAreReasons DEF A!Reasons
<1>4. ASSUME NEW cost \in [A!Kind -> Nat], NEW reasons \in SUBSET A!Reasons,
             \/ ledger' = ledger \/ ledger' = [ledger EXCEPT !.reasons = @ \cup reasons]
             \/ ledger' = A!Reserve(cost)
             \/ ledger' = [A!Reserve(cost) EXCEPT !.reasons = @ \cup reasons],
             \/ refused' = refused
             \/ ~A!Grants(cost) /\ (\/ ledger' = A!Reserve(cost)
                                    \/ ledger' = [A!Reserve(cost) EXCEPT !.reasons = @ \cup reasons])
      PROVE  HonestInv'
  BY <1>0, <1>2, <1>4, ReasonsStay DEF A!Mark
<1>5. CASE A!ProbeRequest
  <2>1. PICK cost \in [A!Kind -> Nat] : cost = [A!Lookup EXCEPT !.requests = 1]
    BY Costs, FiveKinds
  <2>2. \/ \E reasons \in SUBSET A!Reasons : ledger' = [ledger EXCEPT !.reasons = @ \cup reasons]
                                             /\ refused' = refused
        \/ ledger' = A!Reserve(cost) /\ refused' = refused
        \/ ledger' = [A!Reserve(cost) EXCEPT !.reasons = @ \cup {}] /\ ~A!Grants(cost)
    BY <1>3, <1>5, <2>1 DEF A!ProbeRequest, A!ProbeFails
  <2> QED
    BY <1>3, <1>4, <2>2
<1>6. CASE A!ProbeResolved \/ A!ProbeConnect \/ A!ProbeUnanswered
  <2>1. /\ refused' = refused
        /\ \/ ledger' = ledger
           \/ \E reasons \in SUBSET A!Reasons : ledger' = [ledger EXCEPT !.reasons = @ \cup reasons]
    BY <1>3, <1>6 DEF A!ProbeResolved, A!ProbeConnect, A!ProbeUnanswered, A!ProbeFails
  <2>2. A!Lookup \in [A!Kind -> Nat]
    BY Costs
  <2> QED
    BY <1>3, <1>4, <2>1, <2>2
<1>7. CASE A!ProbeAnswer
  <2>1. PICK n \in Sizes :
          LET cost == [A!Nothing EXCEPT !.bytes = n]
              l == A!Reserve(cost)
          IN  /\ refused' = (refused \/ ~A!Grants(cost))
              /\ \/ A!ProbeFails(l, {}) \/ A!ProbeFails(l, {"failed"})
                 \/ A!Grants(cost) /\ ledger' = l
                 \/ A!Grants(cost) /\ \E reasons \in {{}, {"scope"}, {"failed"}} :
                      ledger' = [l EXCEPT !.reasons = @ \cup reasons]
    BY <1>7 DEF A!ProbeAnswer, A!Refuses
  <2>2. PICK cost \in [A!Kind -> Nat] : cost = [A!Nothing EXCEPT !.bytes = n]
    BY CostOfOneKind, FiveKinds, ProfileAssumption
  <2>3. /\ refused' = (refused \/ ~A!Grants(cost))
        /\ \/ ledger' = A!Reserve(cost) /\ A!Grants(cost)
           \/ \E reasons \in SUBSET A!Reasons : ledger' = [A!Reserve(cost) EXCEPT !.reasons = @ \cup reasons]
    BY <1>3, <2>1, <2>2 DEF A!ProbeFails
  <2>4. refused \in BOOLEAN /\ A!Grants(cost) => refused' = refused
    BY <2>3
  <2>5. CASE ledger' = A!Reserve(cost) /\ A!Grants(cost)
    BY <1>0, <1>2, <1>3, <2>3, <2>5, ReasonsStay
  <2>6. ASSUME NEW reasons \in SUBSET A!Reasons, ledger' = [A!Reserve(cost) EXCEPT !.reasons = @ \cup reasons]
        PROVE  HonestInv'
    <3>1. /\ ledger.reasons \subseteq ledger'.reasons
          /\ ~A!Grants(cost) => ledger'.reasons # {}
      BY <1>0, <2>6, ReasonsStay
    <3> QED
      BY <1>2, <2>3, <3>1
  <2> QED
    BY <2>3, <2>5, <2>6
<1> QED
  BY <1>5, <1>6, <1>7

LEMMA HonestSteps ==
  ASSUME HonestInv, [A!Next]_(A!vars)
  PROVE  HonestInv'
<1>0. BudgetInv' /\ ledger \in Ledger
  BY BudgetSteps DEF HonestInv, BudgetInv, LedgerInv
<1>1. CASE A!TimeIsOver \/ A!Abort
  <2>1. PICK open : request' = A!Closing(open)
    BY <1>1 DEF A!TimeIsOver, A!Abort
  <2>2. UNCHANGED <<ledger, exhausted, seen, refused>> /\ stage' # "stored"
    BY <1>1 DEF A!TimeIsOver, A!Abort
  <2>3. \A q \in Busy' : request'[q].inScope
    <3> SUFFICES ASSUME NEW q \in Busy' PROVE request'[q].inScope
      OBVIOUS
    <3>1. q \in A!Requests /\ request'[q].pc \in {"lookup", "resolved"} /\ request[q] \in RequestState
      BY DEF Busy, HonestInv, BudgetInv, AuditTypes
    <3>2. request'[q] = request[q]
      BY <2>1, <3>1, RequestStates DEF A!Closing, A!Pcs
    <3> QED
      BY <3>1, <3>2 DEF HonestInv, Busy
  <2> QED
    BY <1>0, <2>2, <2>3 DEF HonestInv, A!FullCoverageIsFull
<1>2. CASE A!Launch \/ A!Start \/ A!OpenPage \/ A!Observe
  <2>1. /\ stage' # "stored" /\ seen' \subseteq {"http", "browser"}
        /\ request' = request \/ request' = A!Closing(A!Pcs)
    BY <1>2 DEF A!Launch, A!Start, A!OpenPage, A!Observe, A!Running, A!Browsing, A!Outcome,
       HonestInv
  <2>2. \A q \in Busy' : request'[q].inScope
    <3>1. CASE request' = request
      BY <3>1 DEF Busy, HonestInv
    <3>2. CASE request' = A!Closing(A!Pcs)
      <4>1. \A q \in A!Requests : request'[q].pc = "closed"
        BY <3>2, RequestStates DEF A!Closing, HonestInv, BudgetInv, AuditTypes, RequestState
      <4> QED
        BY <4>1 DEF Busy
    <3> QED
      BY <2>1, <3>1, <3>2
  <2>3. A!OnePage \in [A!Kind -> Nat] /\ (~A!Grants(A!OnePage) => A!Denials(A!OnePage) # {})
    BY CostOfOneKind, FiveKinds DEF A!OnePage, A!Grants
  <2>4. /\ A!StopReasons \in SUBSET A!Reasons /\ {} \in SUBSET A!Reasons
        /\ {"failed"} \in SUBSET A!Reasons /\ {"scope"} \in SUBSET A!Reasons
        /\ A!Denials(A!OnePage) \cup {"failed"} \in SUBSET A!Reasons
    BY StopReasonsAreReasons, FiveKinds DEF A!Denials, A!Reasons
  <2>5. /\ \/ ledger' = ledger \/ ledger' = A!Mark(A!StopReasons) \/ ledger' = A!Mark({"failed"})
           \/ ledger' = A!Mark({"scope"})
           \/ ledger' = A!Mark(A!Denials(A!OnePage) \cup {"failed"}) \/ ledger' = A!Reserve(A!OnePage)
        /\ \/ exhausted' = exhausted /\ refused' = refused
           \/ /\ exhausted' = ~A!Grants(A!OnePage) /\ refused' = (refused \/ ~A!Grants(A!OnePage))
              /\ \/ ledger' = A!Mark(A!Denials(A!OnePage) \cup {"failed"})
                 \/ ledger' = A!Reserve(A!OnePage)
    BY <1>2 DEF A!Launch, A!Start, A!OpenPage, A!Observe, A!Browsing, A!Outcome, A!Refuses
  <2>6. ledger.reasons \subseteq ledger'.reasons
    BY <1>0, <2>3, <2>4, <2>5, ReasonsStay
  <2>7. ASSUME ~A!Grants(A!OnePage), \/ ledger' = A!Mark(A!Denials(A!OnePage) \cup {"failed"})
                                    \/ ledger' = A!Reserve(A!OnePage)
        PROVE  ledger'.reasons # {}
    BY <1>0, <2>3, <2>4, <2>7, ReasonsStay
  <2>8. (refused' => ledger'.reasons # {}) /\ (exhausted' => ledger'.reasons # {})
    <3>1. CASE exhausted' = exhausted /\ refused' = refused
      BY <2>6, <3>1 DEF HonestInv
    <3>2. CASE /\ exhausted' = ~A!Grants(A!OnePage) /\ refused' = (refused \/ ~A!Grants(A!OnePage))
               /\ \/ ledger' = A!Mark(A!Denials(A!OnePage) \cup {"failed"})
                  \/ ledger' = A!Reserve(A!OnePage)
      <4>1. CASE A!Grants(A!OnePage)
        BY <2>6, <3>2, <4>1, Zenon DEF HonestInv
      <4>2. CASE ~A!Grants(A!OnePage)
        BY <2>7, <3>2, <4>2
      <4> QED
        BY <4>1, <4>2
    <3> QED
      BY <2>5, <3>1, <3>2, Zenon
  <2> QED
    BY <1>0, <2>1, <2>2, <2>8 DEF HonestInv, A!FullCoverageIsFull
<1>3. CASE A!Analyze
  <2>1. PICK rounds \in [{"http", "browser"} -> {"skipped", "completed", "limited", "failed"}] :
          /\ \A check \in DOMAIN rounds : rounds[check] \in A!Outcomes(check)
          /\ report' = [runs |-> rounds, partial |-> A!Partial(rounds, ledger.reasons)]
    BY <1>3 DEF A!Analyze
  <2>2. UNCHANGED <<request, exhausted, seen, refused>> /\ (ledger' = ledger \/ ledger' = A!Mark({"time"}))
    BY <1>3 DEF A!Analyze, A!Browsing
  <2>3. {"time"} \in SUBSET A!Reasons /\ A!Lookup \in [A!Kind -> Nat]
    BY Costs DEF A!Reasons
  <2>4. ledger.reasons \subseteq ledger'.reasons
    BY <1>0, <2>2, <2>3, ReasonsStay
  <2>5. report'.runs = rounds /\ report'.partial = A!Partial(rounds, ledger.reasons)
    BY <2>1
  <2>6. ASSUME ~report'.partial
        PROVE  /\ seen = {"http", "browser"} /\ ~refused
               /\ \A check \in {"http", "browser"} : rounds[check] = "completed"
    <3>1. ledger.reasons = {} /\ \A check \in {"http", "browser"} : rounds[check] = "completed"
      BY <2>5, <2>6 DEF A!Partial
    <3>2. \A check \in {"http", "browser"} : check \in seen
      BY <2>1, <3>1 DEF A!Outcomes
    <3> QED
      BY <3>1, <3>2 DEF HonestInv
  <2>7. A!FullCoverageIsFull'
    BY <2>2, <2>5, <2>6 DEF A!FullCoverageIsFull
  <2>8. \A q \in Busy' : request'[q].inScope
    BY <2>2 DEF HonestInv, Busy
  <2> QED
    BY <1>0, <2>2, <2>4, <2>7, <2>8 DEF HonestInv
<1>4. CASE UNCHANGED A!vars
  <2>1. UNCHANGED <<ledger, request, exhausted, seen, refused, stage, report>> /\ Busy' = Busy
    BY <1>4 DEF A!vars, Busy
  <2> QED
    BY <1>0, <2>1 DEF HonestInv, A!FullCoverageIsFull
<1> QED
  BY <1>0, <1>1, <1>2, <1>3, <1>4, ProbeStepsAreHonest, RequestStepsAreHonest DEF A!Next

\* After a stop for bytes or time nothing is begun.
LEMMA StopsEndTraffic ==
  ASSUME BudgetInv, A!Stopped, [A!Next]_(A!vars)
  PROVE  /\ traffic'.dns = traffic.dns
         /\ traffic'.probed = traffic.probed /\ traffic'.proxied = traffic.proxied
<1>1. traffic \in Traffic
  BY DEF BudgetInv, AuditTypes
<1>2. CASE A!ProbeRequest \/ A!ProbeConnect
  BY <1>2 DEF A!ProbeRequest, A!ProbeConnect
<1>3. CASE A!ProbeAnswer
  BY <1>1, <1>3 DEF A!ProbeAnswer, Traffic
<1>4. ASSUME NEW r \in A!Requests, A!Route(r) \/ A!Target(r)
      PROVE  traffic' = traffic
  BY <1>4 DEF A!Route, A!Target
<1>5. ASSUME NEW r \in A!Requests, A!Tunnel(r) \/ A!PlainRequest(r)
      PROVE  FALSE
  BY <1>5 DEF A!Tunnel, A!PlainRequest, A!May, A!StillAllowed
<1>6. ASSUME NEW r \in A!Requests, A!Chunk(r) \/ A!PlainAnswer(r) \/ A!PlainChunk(r)
      PROVE  traffic' = traffic \/ \E n \in Sizes : traffic' = [traffic EXCEPT !.bytes = @ + n]
  BY <1>6 DEF A!Chunk, A!PlainAnswer, A!PlainChunk, A!Forward
<1>7. CASE \/ A!TimeIsOver \/ A!Abort \/ A!ProbeResolved \/ A!ProbeUnanswered
           \/ A!Launch \/ A!Start \/ A!OpenPage \/ A!Observe \/ A!Analyze \/ UNCHANGED A!vars
  BY <1>7 DEF A!TimeIsOver, A!Abort, A!ProbeResolved, A!ProbeUnanswered, A!Launch, A!Start,
     A!OpenPage,
              A!Observe, A!Analyze, A!vars
<1>8. ASSUME NEW r \in A!Requests,
             \/ A!Unrouted(r) \/ A!Resolved(r) \/ A!TurnedAway(r) \/ A!TunnelEnds(r) \/ A!BadRequest(r)
             \/ A!PlainEnds(r)
      PROVE  traffic' = traffic
  BY <1>8 DEF A!Unrouted, A!Resolved, A!TurnedAway, A!TunnelEnds, A!BadRequest, A!PlainEnds, A!Ends
<1>9. ASSUME NEW n \in Sizes, traffic' = [traffic EXCEPT !.bytes = @ + n]
      PROVE  /\ traffic'.dns = traffic.dns
             /\ traffic'.probed = traffic.probed /\ traffic'.proxied = traffic.proxied
  BY <1>1, <1>9 DEF Traffic
<1> QED
  BY <1>2, <1>3, <1>4, <1>5, <1>6, <1>7, <1>8, <1>9 DEF A!Next

---------------------------------------------------------------------------
(* The comparison of two scans (ScanComparison).                           *)

\* What is read is one pair of scans, of which one has the finding.
ReadingInv ==
  \A r \in reading :
    /\ r.now.severity \in Nat /\ r.then.severity \in Nat
    /\ r.now.severity # 0 \/ r.then.severity # 0

LEMMA ReadingStarts == K!Init => ReadingInv
BY DEF K!Init, ReadingInv

LEMMA ReadingSteps ==
  ASSUME ReadingInv, [K!Next]_reading
  PROVE  ReadingInv'
<1>1. CASE K!Compare
  <2>1. PICK a \in K!Analyzers, s \in K!Tellings, t \in K!Tellings :
          /\ s.severity # K!Absent \/ t.severity # K!Absent
          /\ reading' = {[analyzer |-> a, now |-> s, then |-> t]}
    BY <1>1 DEF K!Compare
  <2>2. s.severity \in Nat /\ t.severity \in Nat
    BY DEF K!Tellings, K!Severities
  <2>3. s.severity # 0 \/ t.severity # 0
    BY <2>1 DEF K!Absent
  <2> QED
    BY <2>1, <2>2, <2>3 DEF ReadingInv
<1>2. CASE UNCHANGED reading
  BY <1>2 DEF ReadingInv
<1> QED
  BY <1>1, <1>2 DEF K!Next

\* Both scans report the finding, or one of them does.
LEMMA ReadersTellOneStory == ReadingInv => K!ReadersAgree
<1> SUFFICES ASSUME ReadingInv, NEW r \in reading
             PROVE  LET change == K!Change(r.analyzer, r.now, r.then)
                    IN  /\ K!Change(r.analyzer, r.then, r.now) = K!Backwards[change]
                        /\ K!Mailed(r.analyzer, r.now, r.then) <=>
                             change \in {"new", "worsened"} /\ r.now.severity >= K!Medium
                        /\ change = "new" /\ r.now.severity >= K!High =>
                             K!Counted(r.analyzer, r.now, r.then)
                        /\ change = "resolved" => K!CanResolve(r.analyzer, r.now, r.then)
  BY DEF K!ReadersAgree
<1> DEFINE a == r.analyzer
<1> DEFINE s == r.now.severity
<1> DEFINE t == r.then.severity
<1> DEFINE change == K!Change(r.analyzer, r.now, r.then)
<1> DEFINE back == K!Change(r.analyzer, r.then, r.now)
<1> DEFINE same == K!SameMetrics(a, r.now, r.then)
<1> DEFINE missing == K!CanCompareMissing(a, r.now, r.then)
<1>1. s \in Nat /\ t \in Nat /\ (s # 0 \/ t # 0)
  BY DEF ReadingInv
<1>2. same <=> K!SameMetrics(a, r.then, r.now)
  BY DEF K!SameMetrics
<1>3. missing <=> K!CanCompareMissing(a, r.then, r.now)
  BY DEF K!SameMetrics, K!CanCompareMissing
<1>4. missing => /\ same /\ K!CanResolve(a, r.now, r.then)
                 /\ K!CanCompareNew(a, r.then)
  BY DEF K!CanCompareMissing, K!CanResolve, K!CanCompareNew
<1> DEFINE conclusion ==
      /\ back = K!Backwards[change]
      /\ K!Mailed(a, r.now, r.then) <=> change \in {"new", "worsened"} /\ s >= K!Medium
      /\ change = "new" /\ s >= K!High => K!Counted(a, r.now, r.then)
      /\ change = "resolved" => K!CanResolve(a, r.now, r.then)
<1> USE DEF K!Absent
<1>5. CASE s = 0
  <2>1. change = IF missing THEN "resolved" ELSE "unknown"
    BY <1>1, <1>5 DEF K!Change
  <2>2. back = IF missing THEN "new" ELSE "unknown"
    BY <1>1, <1>2, <1>3, <1>4, <1>5 DEF K!Change
  <2>3. ~ s >= K!Medium /\ ~K!Mailed(a, r.now, r.then)
    BY <1>1, <1>5 DEF K!Medium, K!Mailed, K!Detected
  <2> QED
    BY <1>4, <2>1, <2>2, <2>3 DEF K!Backwards
<1>6. CASE s # 0 /\ t = 0
  <2>1. change = IF missing THEN "new" ELSE "unknown"
    BY <1>1, <1>4, <1>6 DEF K!Change
  <2>2. back = IF missing THEN "resolved" ELSE "unknown"
    BY <1>1, <1>3, <1>6 DEF K!Change
  <2>3. K!Mailed(a, r.now, r.then) <=> s >= K!Medium /\ missing
    BY <1>1, <1>4, <1>6 DEF K!Mailed, K!Detected
  <2>4. missing /\ s >= K!High => K!Counted(a, r.now, r.then)
    BY <1>1, <1>4, <1>6 DEF K!Counted
  <2> QED
    BY <1>4, <2>1, <2>2, <2>3, <2>4 DEF K!Backwards
<1>7. CASE s # 0 /\ t # 0 /\ ~same
  <2>1. change = "unknown" /\ back = "unknown"
    BY <1>1, <1>2, <1>7 DEF K!Change
  <2>2. ~K!Mailed(a, r.now, r.then)
    BY <1>7 DEF K!Mailed
  <2> QED
    BY <2>1, <2>2 DEF K!Backwards
<1>8. CASE s # 0 /\ t # 0 /\ same
  <2>1. change = IF s > t THEN "worsened" ELSE IF s < t THEN "improved" ELSE "unchanged"
    BY <1>1, <1>8 DEF K!Change
  <2>2. back = IF t > s THEN "worsened" ELSE IF t < s THEN "improved" ELSE "unchanged"
    BY <1>1, <1>2, <1>8 DEF K!Change
  <2>3. K!Mailed(a, r.now, r.then) <=> s >= K!Medium /\ s > t
    BY <1>1, <1>8 DEF K!Mailed, K!Detected
  <2>4. back = K!Backwards[change]
    BY <1>1, <2>1, <2>2 DEF K!Backwards
  <2>5. change \in {"new", "worsened"} <=> s > t
    BY <1>1, <2>1
  <2> QED
    BY <2>1, <2>3, <2>4, <2>5
<1> QED
  BY <1>1, <1>5, <1>6, <1>7, <1>8

---------------------------------------------------------------------------
(* The decisions about third parties (ThirdPartyDecisions).                *)

\* What may be read about a service: a snapshot of it, or none.
About(p) == {s \in T!Snapshot : s.id = p} \cup {T!NoSnapshot}

\* Published no longer ago than a cached answer and a request may last.
StillFresh(s, hr) == s # T!NoSnapshot => s.published > hr - (CacheTime + AnswerTimeout)

DecisionFields == {"pc", "provider", "status", "began", "answer", "previous", "overtaken"}

\* A call under way: it holds what StackLegal told about its own service, and
\* unless it was overtaken its transaction has read what is still stored.
CallOpen(k, read) ==
  /\ DOMAIN k = DecisionFields
  /\ k.pc \in {"fetching", "fetched", "deciding"}
  /\ k.provider \in ThirdParties
  /\ k.status \in {"confirmed", "ignored"}
  /\ k.began \in Nat
  /\ k.answer \in About(k.provider)
  /\ StillFresh(k.answer, k.began)
  /\ k.status = "ignored" => k.answer = T!NoSnapshot
  /\ k.pc = "deciding" => k.previous.snapshot \in About(k.provider)
  /\ k.pc = "deciding" /\ ~k.overtaken => k.previous = read[k.provider]

\* One that fetches has not waited longer than a request may last.
CallWaits(k, hr) ==
  k.pc = "fetching" => /\ k.status = "confirmed" /\ k.answer = T!NoSnapshot
                       /\ hr <= k.began + AnswerTimeout

RowKept(r, snapshot, p) ==
  /\ r.status \in {"undecided", "confirmed", "ignored"}
  /\ r.snapshot = snapshot /\ r.snapshot \in About(p)
  /\ r.status # "confirmed" => r.snapshot = T!NoSnapshot

CacheFresh(e, p) ==
  /\ e.expires \in Nat /\ e.provider \in About(p)
  /\ e.provider # T!NoSnapshot => e.expires <= e.provider.published + CacheTime + AnswerTimeout

ServiceInv ==
  /\ hour \in 0..MaxHours
  /\ observations \subseteq ThirdParties /\ latest \subseteq ThirdParties
  /\ DOMAIN cache = ThirdParties /\ \A p \in ThirdParties : CacheFresh(cache[p], p)
  /\ DOMAIN decisions = ThirdParties /\ DOMAIN current = ThirdParties
  /\ \A p \in ThirdParties : RowKept(decisions[p], current[p], p)
  /\ DOMAIN deciding = DecisionCalls
  /\ \A c \in DecisionCalls : deciding[c] = T!Idle \/ CallOpen(deciding[c], decisions)
  /\ \A c \in DecisionCalls : deciding[c] = T!Idle \/ CallWaits(deciding[c], hour)

LEMMA ServicesStart == T!Init => ServiceInv
<1> SUFFICES ASSUME T!Init PROVE ServiceInv
  OBVIOUS
<1> USE DEF T!Init
<1>1. \A p : T!NoSnapshot \in About(p)
  BY DEF About
<1>2. \A p \in ThirdParties : CacheFresh(cache[p], p)
  BY <1>1 DEF CacheFresh, T!NotCached
<1>3. \A p \in ThirdParties : RowKept(decisions[p], current[p], p)
  BY <1>1 DEF RowKept, T!NoRow
<1>4. hour \in 0..MaxHours
  BY ServicesAssumption
<1> QED
  BY <1>2, <1>3, <1>4 DEF ServiceInv
LEMMA AboutHolds ==
  ASSUME NEW p, NEW s \in About(p)
  PROVE  /\ s # T!NoSnapshot => s \in T!Snapshot /\ s.id = p /\ s.published \in 0..MaxHours
         /\ s = T!NoSnapshot \/ s \in T!Snapshot
BY DEF About, T!Snapshot, T!Time

LEMMA TickKeeps == ServiceInv /\ T!Tick => ServiceInv'
<1> SUFFICES ASSUME ServiceInv, T!Tick PROVE ServiceInv'
  OBVIOUS
<1> USE DEF T!Tick
<1>1. hour' \in 0..MaxHours
  BY ServicesAssumption DEF ServiceInv
<1>2. \A c \in DecisionCalls : deciding'[c] = T!Idle \/ CallOpen(deciding'[c], decisions')
  BY DEF ServiceInv
<1>3. ASSUME NEW c \in DecisionCalls, deciding[c] # T!Idle
      PROVE  CallWaits(deciding'[c], hour')
  <2>1. CallWaits(deciding[c], hour) /\ deciding[c].began \in Nat
    BY <1>3 DEF ServiceInv, CallOpen
  <2>2. deciding[c].pc = "fetching" => hour < deciding[c].began + AnswerTimeout
    BY <1>3
  <2>3. deciding[c].pc = "fetching" => hour' <= deciding[c].began + AnswerTimeout
    BY <2>1, <2>2, ServicesAssumption DEF ServiceInv
  <2> QED
    BY <2>1, <2>3 DEF CallWaits
<1> QED
  BY <1>1, <1>2, <1>3 DEF ServiceInv

LEMMA ScansKeep ==
  ASSUME ServiceInv, NEW found \in SUBSET ThirdParties, T!ScanCompletes(found)
  PROVE  ServiceInv'
BY DEF ServiceInv, T!ScanCompletes

\* Only one call changes, and nothing is decided.
LEMMA OneCallMoves ==
  ASSUME ServiceInv, NEW c \in DecisionCalls, NEW k,
         deciding' = [deciding EXCEPT ![c] = k], UNCHANGED <<hour, decisions, current>>,
         CallOpen(k, decisions), CallWaits(k, hour),
         observations' = observations, latest' = latest,
         DOMAIN cache' = ThirdParties, \A p \in ThirdParties : CacheFresh(cache'[p], p)
  PROVE  ServiceInv'
<1>1. DOMAIN deciding' = DecisionCalls /\ deciding'[c] = k
  BY DEF ServiceInv
<1>2. \A d \in DecisionCalls \ {c} : deciding'[d] = deciding[d]
  BY DEF ServiceInv
<1> QED
  BY <1>1, <1>2 DEF ServiceInv

\* What the cache holds is recent enough for a call that begins now.
LEMMA CachedIsRecent ==
  ASSUME ServiceInv, NEW p \in ThirdParties
  PROVE  T!Cached(p) \in About(p) /\ StillFresh(T!Cached(p), hour)
<1>1. CacheFresh(cache[p], p) /\ hour \in Nat
  BY ServicesAssumption DEF ServiceInv
<1>2. CASE cache[p].expires > hour
  <2>1. T!Cached(p) = cache[p].provider
    BY <1>2 DEF T!Cached
  <2>2. cache[p].provider # T!NoSnapshot => cache[p].provider.published \in Int
    BY <1>1, AboutHolds, ServicesAssumption DEF CacheFresh
  <2> QED
    BY <1>1, <1>2, <2>1, <2>2, ServicesAssumption DEF CacheFresh, StillFresh
<1>3. CASE ~ cache[p].expires > hour
  BY <1>3 DEF T!Cached, About, StillFresh
<1> QED
  BY <1>2, <1>3

LEMMA AsksKeep ==
  ASSUME ServiceInv, NEW c \in DecisionCalls, NEW p \in ThirdParties,
         NEW status \in {"confirmed", "ignored"}, T!Ask(c, p, status)
  PROVE  ServiceInv'
<1> DEFINE answer == IF status = "confirmed" THEN T!Cached(p) ELSE T!NoSnapshot
<1> DEFINE k == [pc |-> IF status = "confirmed" /\ T!Cached(p) = T!NoSnapshot THEN "fetching"
                        ELSE "fetched",
                 provider |-> p, status |-> status, began |-> hour, answer |-> answer,
                 previous |-> T!NoRow, overtaken |-> FALSE]
<1>1. deciding' = [deciding EXCEPT ![c] = k]
  BY DEF T!Ask
<1>2. answer \in About(p) /\ StillFresh(answer, hour)
  BY CachedIsRecent DEF About, StillFresh
<1>3. hour \in Nat
  BY ServicesAssumption DEF ServiceInv
<1>4. CallOpen(k, decisions)
  BY <1>2, <1>3 DEF CallOpen, DecisionFields
<1>5. CallWaits(k, hour)
  BY <1>3, ServicesAssumption DEF CallWaits
<1> HIDE DEF k
<1>6. UNCHANGED <<hour, observations, latest, cache, decisions, current>>
  BY DEF T!Ask
<1>7. DOMAIN cache' = ThirdParties /\ \A q \in ThirdParties : CacheFresh(cache'[q], q)
  BY <1>6 DEF ServiceInv
<1> QED
  BY <1>1, <1>4, <1>5, <1>6, <1>7, OneCallMoves
LEMMA AnswersKeep ==
  ASSUME ServiceInv, NEW c \in DecisionCalls, T!Answered(c)
  PROVE  ServiceInv'
<1> DEFINE k == deciding[c]
<1> DEFINE p == k.provider
<1>1. k.pc = "fetching" /\ UNCHANGED <<hour, observations, latest, decisions, current>>
  BY DEF T!Answered
<1>2. CallOpen(k, decisions) /\ CallWaits(k, hour)
  BY <1>1 DEF ServiceInv, T!Idle
<1>3. PICK proper \in BOOLEAN,
           content \in [id : ThirdParties \cup {"other"}, published : k.began..hour] :
        /\ deciding' = [deciding EXCEPT ![c].pc = "fetched",
                                        ![c].answer = T!Parsed(p, proper, content)]
        /\ cache' = IF T!Parsed(p, proper, content) = T!NoSnapshot THEN cache
                    ELSE [cache EXCEPT ![p] = [expires |-> hour + CacheTime,
                                               provider |-> T!Parsed(p, proper, content)]]
  BY DEF T!Answered
<1> DEFINE answer == T!Parsed(p, proper, content)
<1> DEFINE h == [k EXCEPT !.pc = "fetched", !.answer = answer]
<1>4. deciding' = [deciding EXCEPT ![c] = h]
  BY <1>3
<1>5. p \in ThirdParties /\ k.began \in Nat /\ hour \in 0..MaxHours /\ k.status = "confirmed"
      /\ hour <= k.began + AnswerTimeout
  BY <1>1, <1>2 DEF CallOpen, CallWaits, ServiceInv
<1>6. answer # T!NoSnapshot => answer = content /\ content.id = p
  BY DEF T!Parsed
<1>7. content.published \in k.began..hour /\ DOMAIN content = {"id", "published"}
      /\ content = [id |-> content.id, published |-> content.published]
  OBVIOUS
<1>8. answer \in About(p)
  <2>1. CASE answer = T!NoSnapshot
    BY <2>1 DEF About
  <2>2. CASE answer # T!NoSnapshot
    <3>1. content.published \in 0..MaxHours
      BY <1>5, <1>7, ServicesAssumption
    <3>2. content \in T!Snapshot
      BY <1>5, <1>6, <1>7, <2>2, <3>1 DEF T!Snapshot, T!Time
    <3> QED
      BY <1>6, <2>2, <3>2 DEF About
  <2> QED
    BY <2>1, <2>2
<1>9. answer # T!NoSnapshot => answer.published \in k.began..hour
  BY <1>6, <1>7
<1> HIDE DEF answer
<1>10. DOMAIN h = DecisionFields /\ h.pc = "fetched" /\ h.answer = answer
       /\ h.provider = p /\ h.status = "confirmed" /\ h.began = k.began
  BY <1>2, <1>5 DEF CallOpen, DecisionFields
<1>11. StillFresh(answer, k.began)
  BY <1>5, <1>9, ServicesAssumption DEF StillFresh
<1> HIDE DEF h
<1>12. CallOpen(h, decisions) /\ CallWaits(h, hour)
  BY <1>5, <1>8, <1>10, <1>11 DEF CallOpen, CallWaits
<1>13. DOMAIN cache' = ThirdParties /\ \A q \in ThirdParties : CacheFresh(cache'[q], q)
  <2>1. CASE answer = T!NoSnapshot
    BY <1>3, <2>1 DEF ServiceInv, answer
  <2>2. CASE answer # T!NoSnapshot
    <3> DEFINE e == [expires |-> hour + CacheTime, provider |-> answer]
    <3>1. cache' = [cache EXCEPT ![p] = e]
      BY <1>3, <2>2 DEF answer
    <3>2. CacheFresh(e, p)
      BY <1>5, <1>8, <1>9, <2>2, ServicesAssumption DEF CacheFresh
    <3> HIDE DEF e
    <3> QED
      BY <1>5, <3>1, <3>2 DEF ServiceInv
  <2> QED
    BY <2>1, <2>2
<1> QED
  BY <1>1, <1>4, <1>12, <1>13, OneCallMoves

LEMMA MissesKeep ==
  ASSUME ServiceInv, NEW c \in DecisionCalls, T!NotAnswered(c)
  PROVE  ServiceInv'
<1> DEFINE k == deciding[c]
<1> DEFINE h == [k EXCEPT !.pc = "fetched"]
<1>1. k.pc = "fetching" /\ UNCHANGED <<hour, observations, latest, cache, decisions, current>>
      /\ deciding' = [deciding EXCEPT ![c] = h]
  BY DEF T!NotAnswered
<1>2. CallOpen(k, decisions)
  BY <1>1 DEF ServiceInv, T!Idle
<1>3. /\ DOMAIN h = DecisionFields /\ h.pc = "fetched" /\ h.answer = k.answer
      /\ h.provider = k.provider /\ h.status = k.status /\ h.began = k.began
  BY <1>2 DEF CallOpen, DecisionFields
<1> HIDE DEF h
<1>4. CallOpen(h, decisions) /\ CallWaits(h, hour)
  BY <1>2, <1>3 DEF CallOpen, CallWaits
<1>5. DOMAIN cache' = ThirdParties /\ \A q \in ThirdParties : CacheFresh(cache'[q], q)
  BY <1>1 DEF ServiceInv
<1> QED
  BY <1>1, <1>4, <1>5, OneCallMoves

LEMMA ReadsKeep ==
  ASSUME ServiceInv, NEW c \in DecisionCalls, T!ReadPrevious(c)
  PROVE  ServiceInv'
<1> DEFINE k == deciding[c]
<1> DEFINE h == [k EXCEPT !.pc = "deciding", !.previous = decisions[k.provider]]
<1>1. k.pc = "fetched" /\ UNCHANGED <<hour, observations, latest, cache, decisions, current>>
      /\ deciding' = [deciding EXCEPT ![c] = h]
  BY DEF T!ReadPrevious
<1>2. CallOpen(k, decisions)
  BY <1>1 DEF ServiceInv, T!Idle
<1>3. /\ DOMAIN h = DecisionFields /\ h.pc = "deciding" /\ h.answer = k.answer
      /\ h.provider = k.provider /\ h.status = k.status /\ h.began = k.began
      /\ h.previous = decisions[k.provider]
  BY <1>2 DEF CallOpen, DecisionFields
<1>4. decisions[k.provider].snapshot \in About(k.provider)
  BY <1>2 DEF ServiceInv, CallOpen, RowKept
<1> HIDE DEF h
<1>5. CallOpen(h, decisions) /\ CallWaits(h, hour)
  BY <1>2, <1>3, <1>4 DEF CallOpen, CallWaits
<1>6. DOMAIN cache' = ThirdParties /\ \A q \in ThirdParties : CacheFresh(cache'[q], q)
  BY <1>1 DEF ServiceInv
<1> QED
  BY <1>1, <1>5, <1>6, OneCallMoves

\* The row of one service changes and its calls are overtaken.
LEMMA RowChanges ==
  ASSUME ServiceInv, NEW p \in ThirdParties, NEW r, NEW snapshot, RowKept(r, snapshot, p),
         decisions' = [decisions EXCEPT ![p] = r],
         current' = [current EXCEPT ![p] = snapshot],
         UNCHANGED <<hour, observations, latest, cache>>,
         NEW calls, DOMAIN calls = DecisionCalls, deciding' = T!Overtaking(p, calls),
         \A c \in DecisionCalls : calls[c] = T!Idle \/ calls[c] = deciding[c]
  PROVE  ServiceInv'
<1>1. DOMAIN deciding' = DecisionCalls
  BY DEF T!Overtaking
<1>2. /\ DOMAIN decisions' = ThirdParties /\ DOMAIN current' = ThirdParties
      /\ \A q \in ThirdParties \ {p} : decisions'[q] = decisions[q] /\ current'[q] = current[q]
      /\ decisions'[p] = r /\ current'[p] = snapshot
  BY DEF ServiceInv
<1>3. \A q \in ThirdParties : RowKept(decisions'[q], current'[q], q)
  BY <1>2 DEF ServiceInv
<1>4. ASSUME NEW c \in DecisionCalls
      PROVE  deciding'[c] = T!Idle \/ (CallOpen(deciding'[c], decisions')
                                       /\ CallWaits(deciding'[c], hour))
  <2>1. deciding'[c] = IF calls[c].pc = "deciding" /\ calls[c].provider = p
                       THEN [calls[c] EXCEPT !.overtaken = TRUE] ELSE calls[c]
    BY DEF T!Overtaking
  <2>2. CASE calls[c] = T!Idle
    BY <2>1, <2>2 DEF T!Idle
  <2>3. CASE calls[c] # T!Idle
    <3>1. CallOpen(calls[c], decisions) /\ CallWaits(calls[c], hour)
      BY <2>3 DEF ServiceInv
    <3>2. CASE calls[c].pc = "deciding" /\ calls[c].provider = p
      <4> DEFINE k == calls[c]
      <4> DEFINE h == deciding'[c]
      <4>1. DOMAIN k = DecisionFields
        BY <3>1 DEF CallOpen
      <4>2. /\ DOMAIN h = DecisionFields /\ h.pc = "deciding" /\ h.answer = k.answer
            /\ h.provider = k.provider /\ h.status = k.status /\ h.began = k.began
            /\ h.previous = k.previous
        BY <2>1, <3>2, <4>1 DEF DecisionFields
      <4>3. h.overtaken = TRUE
        BY <2>1, <3>2, <4>1 DEF DecisionFields
      <4> HIDE DEF k, h
      <4>4. h.overtaken
        BY <4>3
      <4>5. CallOpen(k, decisions) /\ CallWaits(k, hour) /\ k.pc = "deciding"
        BY <3>1, <3>2 DEF k
      <4>6. CallWaits(h, hour)
        BY <4>2, <4>5 DEF CallWaits
      <4>7. k.previous.snapshot \in About(k.provider)
        BY <4>5 DEF CallOpen
      <4>8. /\ k.provider \in ThirdParties /\ k.status \in {"confirmed", "ignored"}
            /\ k.began \in Nat /\ k.answer \in About(k.provider) /\ StillFresh(k.answer, k.began)
            /\ k.status = "ignored" => k.answer = T!NoSnapshot
        BY <4>5 DEF CallOpen
      <4>9. CallOpen(h, decisions')
        BY <4>2, <4>4, <4>7, <4>8 DEF CallOpen
      <4> QED
        BY <4>6, <4>9 DEF h
    <3>3. CASE ~(calls[c].pc = "deciding" /\ calls[c].provider = p)
      <4>1. deciding'[c] = calls[c]
        BY <2>1, <3>3
      <4>2. calls[c].provider \in ThirdParties
        BY <3>1 DEF CallOpen
      <4>3. CallOpen(calls[c], decisions')
        BY <1>2, <3>1, <3>3, <4>2 DEF CallOpen
      <4> QED
        BY <3>1, <4>1, <4>3
    <3> QED
      BY <3>2, <3>3
  <2> QED
    BY <2>2, <2>3
<1> QED
  BY <1>1, <1>2, <1>3, <1>4 DEF ServiceInv

LEMMA DecisionsKeep ==
  ASSUME ServiceInv, NEW c \in DecisionCalls, T!Decide(c)
  PROVE  ServiceInv'
<1> DEFINE k == deciding[c]
<1> DEFINE p == k.provider
<1> DEFINE snapshot == T!Kept(k.status, k.answer, k.previous)
<1> DEFINE r == [status |-> k.status, snapshot |-> snapshot]
<1> DEFINE newest == IF k.overtaken THEN snapshot
                     ELSE IF k.status = "ignored" THEN T!NoSnapshot
                     ELSE IF k.answer # T!NoSnapshot THEN k.answer ELSE current[p]
<1> DEFINE calls == [deciding EXCEPT ![c] = T!Idle]
<1>1. /\ k.pc = "deciding"
      /\ decisions' = [decisions EXCEPT ![p] = r]
      /\ deciding' = T!Overtaking(p, calls)
      /\ UNCHANGED <<hour, observations, latest, cache>>
  BY DEF T!Decide
<1>2. current' = [current EXCEPT ![p] = newest]
  BY DEF T!Decide
<1>3. CallOpen(k, decisions)
  BY <1>1 DEF ServiceInv, T!Idle
<1>4. p \in ThirdParties /\ RowKept(decisions[p], current[p], p)
  BY <1>3 DEF ServiceInv, CallOpen
<1>5. snapshot \in About(p) /\ (k.status # "confirmed" => snapshot = T!NoSnapshot)
  BY <1>1, <1>3 DEF CallOpen, T!Kept, About
<1>6. snapshot = newest
  <2>1. CASE k.overtaken
    BY <2>1
  <2>2. CASE ~k.overtaken
    <3>1. k.previous = decisions[p]
      BY <1>1, <1>3, <2>2 DEF CallOpen
    <3>2. k.status = "ignored" => k.answer = T!NoSnapshot
      BY <1>3 DEF CallOpen
    <3>3. k.status \in {"confirmed", "ignored"}
      BY <1>3 DEF CallOpen
    <3> QED
      BY <1>4, <2>2, <3>1, <3>2, <3>3 DEF T!Kept, RowKept
  <2> QED
    BY <2>1, <2>2
<1>7. RowKept(r, newest, p)
  BY <1>3, <1>5, <1>6 DEF RowKept, CallOpen
<1>8. DOMAIN calls = DecisionCalls
      /\ \A d \in DecisionCalls : calls[d] = T!Idle \/ calls[d] = deciding[d]
  BY DEF ServiceInv
<1> HIDE DEF r, newest, calls
<1> QED
  BY <1>1, <1>2, <1>4, <1>7, <1>8, RowChanges

LEMMA ResetsKeep ==
  ASSUME ServiceInv, NEW p \in ThirdParties, T!Reset(p)
  PROVE  ServiceInv'
<1>1. RowKept(T!NoRow, T!NoSnapshot, p)
  BY DEF RowKept, T!NoRow, About
<1>2. DOMAIN deciding = DecisionCalls
  BY DEF ServiceInv
<1> QED
  BY <1>1, <1>2, RowChanges DEF T!Reset

LEMMA ServiceSteps ==
  ASSUME ServiceInv, [T!Next]_(T!decisionVars)
  PROVE  ServiceInv'
<1>1. CASE UNCHANGED T!decisionVars
  BY <1>1 DEF T!decisionVars, ServiceInv
<1>2. ASSUME NEW c \in DecisionCalls, T!Answered(c) \/ T!NotAnswered(c) \/ T!ReadPrevious(c)
                                      \/ T!Decide(c)
      PROVE  ServiceInv'
  BY <1>2, AnswersKeep, MissesKeep, ReadsKeep, DecisionsKeep
<1> QED
  BY <1>1, <1>2, TickKeeps, ScansKeep, AsksKeep, ResetsKeep DEF T!Next

LEMMA SnapshotsShown == ServiceInv => T!ServicesShowTheirSnapshots
<1> SUFFICES ASSUME ServiceInv PROVE T!ServicesShowTheirSnapshots
  OBVIOUS
<1>1. ASSUME NEW p \in T!Listed
      PROVE  T!Details(p) = IF decisions[p].status = "confirmed" THEN current[p] ELSE T!NoSnapshot
  <2>1. p \in ThirdParties
    BY DEF T!Listed, ServiceInv
  <2>2. RowKept(decisions[p], current[p], p)
    BY <2>1 DEF ServiceInv
  <2> QED
    BY <2>2, AboutHolds DEF RowKept, T!Details
<1>2. ASSUME NEW c \in DecisionCalls, deciding[c] # T!Idle, deciding[c].answer # T!NoSnapshot
      PROVE  deciding[c].answer.published > deciding[c].began - (CacheTime + AnswerTimeout)
  BY <1>2 DEF ServiceInv, CallOpen, StillFresh
<1> QED
  BY <1>1, <1>2 DEF T!ServicesShowTheirSnapshots, T!SnapshotsAreKept, T!AnswersAreRecent

---------------------------------------------------------------------------
(* The matching of versions (VersionMatching): their order and their rank. *)

LEMMA DigitsOrder ==
  ASSUME NEW r \in Nat, NEW a \in Nat, NEW b \in Nat, a < b,
         NEW c \in 0..r - 1, NEW d \in 0..r - 1
  PROVE  a * r + c < b * r + d
<1>1. PICK e \in Nat : b = a + 1 + e
  <2>1. b - a - 1 \in Nat /\ b = a + 1 + (b - a - 1)
    OBVIOUS
  <2> QED
    BY <2>1
<1>2. b * r = a * r + r + e * r
  BY <1>1
<1>3. e * r >= 0 /\ a * r \in Int /\ e * r \in Int
  OBVIOUS
<1> QED
  BY <1>2, <1>3

LEMMA PartsOfReleases ==
  ASSUME NEW v \in Releases
  PROVE  /\ v = <<v[1], v[2], v[3]>> /\ DOMAIN v = 1..3 /\ v # V!None
         /\ v[1] \in 0..Radix - 1 /\ v[2] \in 0..Radix - 1 /\ v[3] \in 0..Radix - 1
         /\ V!Rank(v) \in Int
<1>1. v \in (0..Radix - 1) \X (0..Radix - 1) \X (0..Radix - 1) /\ Radix \in Nat
  BY ReleasesAssumption
<1>2. v = <<v[1], v[2], v[3]>> /\ DOMAIN v = 1..3
  BY <1>1
<1>3. v # V!None
  <2>1. DOMAIN <<"none">> = 1..1
    OBVIOUS
  <2> QED
    BY <1>2, <2>1 DEF V!None
<1>4. v[1] \in 0..Radix - 1 /\ v[2] \in 0..Radix - 1 /\ v[3] \in 0..Radix - 1
  BY <1>1
<1>5. V!Rank(v) \in Int
  <2>1. v[1] * Radix + v[2] \in Int
    BY <1>1, <1>4
  <2>2. (v[1] * Radix + v[2]) * Radix \in Int
    BY <1>1, <2>1
  <2> QED
    BY <1>4, <2>2 DEF V!Rank
<1> QED
  BY <1>2, <1>3, <1>4, <1>5

\* The first difference decides.
LEMMA BeforeByParts ==
  ASSUME NEW v \in Releases, NEW w \in Releases
  PROVE  V!Before(v, w) <=> \/ v[1] < w[1]
                            \/ v[1] = w[1] /\ v[2] < w[2]
                            \/ v[1] = w[1] /\ v[2] = w[2] /\ v[3] < w[3]
<1>1. DOMAIN v = {1, 2, 3}
  BY PartsOfReleases
<1>2. V!Before(v, w) => \/ v[1] < w[1]
                        \/ v[1] = w[1] /\ v[2] < w[2]
                        \/ v[1] = w[1] /\ v[2] = w[2] /\ v[3] < w[3]
  <2> SUFFICES ASSUME NEW i \in {1, 2, 3}, v[i] < w[i], \A j \in 1..i - 1 : v[j] = w[j]
               PROVE  \/ v[1] < w[1]
                      \/ v[1] = w[1] /\ v[2] < w[2]
                      \/ v[1] = w[1] /\ v[2] = w[2] /\ v[3] < w[3]
    BY <1>1 DEF V!Before
  <2>1. CASE i = 1
    BY <2>1
  <2>2. CASE i = 2
    BY <2>2
  <2>3. CASE i = 3
    BY <2>3
  <2> QED
    BY <2>1, <2>2, <2>3
<1>3. v[1] < w[1] => V!Before(v, w)
  <2> SUFFICES ASSUME v[1] < w[1] PROVE \E i \in {1, 2, 3} : v[i] < w[i] /\ \A j \in 1..i - 1 : v[j] = w[j]
    BY <1>1 DEF V!Before
  <2> WITNESS 1 \in {1, 2, 3}
  <2> QED
    OBVIOUS
<1>4. v[1] = w[1] /\ v[2] < w[2] => V!Before(v, w)
  <2> SUFFICES ASSUME v[1] = w[1], v[2] < w[2] PROVE \E i \in {1, 2, 3} : v[i] < w[i] /\ \A j \in 1..i - 1 : v[j] = w[j]
    BY <1>1 DEF V!Before
  <2> WITNESS 2 \in {1, 2, 3}
  <2> QED
    OBVIOUS
<1>5. v[1] = w[1] /\ v[2] = w[2] /\ v[3] < w[3] => V!Before(v, w)
  <2> SUFFICES ASSUME v[1] = w[1], v[2] = w[2], v[3] < w[3] PROVE \E i \in {1, 2, 3} : v[i] < w[i] /\ \A j \in 1..i - 1 : v[j] = w[j]
    BY <1>1 DEF V!Before
  <2> WITNESS 3 \in {1, 2, 3}
  <2> QED
    OBVIOUS
<1> QED
  BY <1>2, <1>3, <1>4, <1>5

LEMMA RanksRise ==
  ASSUME NEW v \in Releases, NEW w \in Releases, V!Before(v, w)
  PROVE  V!Rank(v) < V!Rank(w)
<1>1. /\ v[1] \in 0..Radix - 1 /\ v[2] \in 0..Radix - 1 /\ v[3] \in 0..Radix - 1
      /\ w[1] \in 0..Radix - 1 /\ w[2] \in 0..Radix - 1 /\ w[3] \in 0..Radix - 1
      /\ Radix \in Nat
  BY PartsOfReleases, ReleasesAssumption
<1> DEFINE a == v[1] * Radix + v[2]
<1> DEFINE b == w[1] * Radix + w[2]
<1>2. a \in Nat /\ b \in Nat
  BY <1>1
<1>3. CASE v[1] < w[1]
  <2>1. v[1] \in Nat /\ w[1] \in Nat
    BY <1>1
  <2>2. a < b
    BY ONLY <1>1, <1>3, <2>1, DigitsOrder, Zenon
  <2> HIDE DEF a, b
  <2>3. a * Radix + v[3] < b * Radix + w[3]
    BY <1>1, <1>2, <2>2, DigitsOrder
  <2> QED
    BY <2>3 DEF V!Rank, a, b
<1>4. CASE v[1] = w[1] /\ v[2] < w[2]
  <2>1. a < b
    BY <1>1, <1>4
  <2> HIDE DEF a, b
  <2>2. a * Radix + v[3] < b * Radix + w[3]
    BY <1>1, <1>2, <2>1, DigitsOrder
  <2> QED
    BY <2>2 DEF V!Rank, a, b
<1>5. CASE v[1] = w[1] /\ v[2] = w[2] /\ v[3] < w[3]
  <2>1. a = b
    BY <1>5
  <2> HIDE DEF a, b
  <2>2. a * Radix \in Int
    BY <1>1, <1>2
  <2>3. a * Radix + v[3] < b * Radix + w[3]
    BY <1>1, <1>5, <2>1, <2>2
  <2> QED
    BY <2>3 DEF V!Rank, a, b
<1> QED
  BY <1>3, <1>4, <1>5, BeforeByParts

\* Rank is the order that compareVersions computes.
LEMMA RankIsOrder ==
  ASSUME NEW v \in Releases, NEW w \in Releases
  PROVE  /\ V!Before(v, w) <=> V!Rank(v) < V!Rank(w)
         /\ v = w <=> V!Rank(v) = V!Rank(w)
         /\ V!Rank(v) \in Int /\ V!Rank(w) \in Int
<1>1. V!Before(v, w) \/ V!Before(w, v) \/ v = w
  <2>1. /\ v = <<v[1], v[2], v[3]>> /\ w = <<w[1], w[2], w[3]>>
        /\ v[1] \in Int /\ v[2] \in Int /\ v[3] \in Int
        /\ w[1] \in Int /\ w[2] \in Int /\ w[3] \in Int
    BY PartsOfReleases, ReleasesAssumption
  <2>2. v[1] = w[1] /\ v[2] = w[2] /\ v[3] = w[3] => v = w
    BY <2>1
  <2> QED
    BY <2>1, <2>2, BeforeByParts
<1>2. V!Rank(v) \in Int /\ V!Rank(w) \in Int
  BY PartsOfReleases
<1>3. V!Before(v, w) => V!Rank(v) < V!Rank(w)
  BY RanksRise
<1>4. V!Before(w, v) => V!Rank(w) < V!Rank(v)
  BY RanksRise
<1> QED
  BY <1>1, <1>2, <1>3, <1>4

---------------------------------------------------------------------------
(* One rule.                                                               *)

LEMMA GivenHolds ==
  ASSUME NEW r
  PROVE  /\ \A b \in V!Given(r) : b \in {"exact", "from", "after", "upto", "before"}
         /\ "exact" \in V!Given(r) <=> r.exact # V!None
         /\ "from" \in V!Given(r) <=> r.from # V!None
         /\ "after" \in V!Given(r) <=> r.after # V!None
         /\ "upto" \in V!Given(r) <=> r.upto # V!None
         /\ "before" \in V!Given(r) <=> r.before # V!None
BY DEF V!Given

\* What can be decided is neither contradictory nor inverted.
LEMMA DecidableMeans ==
  ASSUME NEW r, \A b \in V!Given(r) : V!Readable(r[b])
  PROVE  V!Decidable(r) <=> ~r.context /\ ~V!Contradictory(r) /\ ~V!Inverted(r)
<1> DEFINE g == V!Given(r)
<1>1. /\ "exact" \in g => r.exact \in Releases
      /\ "from" \in g => r.from \in Releases
      /\ "after" \in g => r.after \in Releases
      /\ "upto" \in g => r.upto \in Releases
      /\ "before" \in g => r.before \in Releases
  BY DEF V!Readable
<1>2. V!None \notin Releases
  BY PartsOfReleases
<1>3. /\ V!Readable(V!Lower(r)) <=> "from" \in g \/ "after" \in g
      /\ V!Readable(V!Upper(r)) <=> "upto" \in g \/ "before" \in g
  BY <1>1, <1>2, GivenHolds DEF V!Lower, V!Upper, V!Readable
<1>4. CASE "exact" \in g
  <2>1. V!Contradictory(r) <=> g # {"exact"}
    BY <1>4 DEF V!Contradictory
  <2>2. g = {"exact"} => ~V!Inverted(r)
    BY <1>3 DEF V!Inverted
  <2>3. V!Decidable(r) <=> ~r.context /\ g = {"exact"}
    BY <1>4 DEF V!Decidable
  <2> QED
    BY <2>1, <2>2, <2>3
<1>5. CASE "exact" \notin g /\ "from" \notin g /\ "after" \notin g
  <2>1. g \subseteq {"upto", "before"}
    BY <1>5, GivenHolds
  <2>2. ~V!Inverted(r)
    BY <1>3, <1>5 DEF V!Inverted
  <2>3. V!Contradictory(r) <=> g = {} \/ {"upto", "before"} \subseteq g
    BY <1>5 DEF V!Contradictory
  <2>4. V!Decidable(r) <=> ~r.context /\ (g = {"upto"} \/ g = {"before"})
    BY <1>5, <2>1 DEF V!Decidable
  <2> QED
    BY <2>1, <2>2, <2>3, <2>4
<1>6. CASE "exact" \notin g /\ "upto" \notin g /\ "before" \notin g
  <2>1. g \subseteq {"from", "after"}
    BY <1>6, GivenHolds
  <2>2. ~V!Inverted(r)
    BY <1>3, <1>6 DEF V!Inverted
  <2>3. V!Contradictory(r) <=> g = {} \/ {"from", "after"} \subseteq g
    BY <1>6 DEF V!Contradictory
  <2>4. V!Decidable(r) <=> ~r.context /\ (g = {"from"} \/ g = {"after"})
    BY <1>6, <2>1 DEF V!Decidable
  <2> QED
    BY <2>1, <2>2, <2>3, <2>4
<1>7. CASE "exact" \notin g /\ ({"from", "after"} \subseteq g \/ {"upto", "before"} \subseteq g)
           /\ (\E l \in {"from", "after"} : l \in g) /\ (\E u \in {"upto", "before"} : u \in g)
  <2>1. V!Contradictory(r)
    BY <1>7 DEF V!Contradictory
  <2>2. ~V!Decidable(r)
    BY <1>7 DEF V!Decidable
  <2> QED
    BY <2>1, <2>2
<1>8. ASSUME NEW l \in {"from", "after"}, NEW u \in {"upto", "before"}, g = {l, u}
      PROVE  V!Decidable(r) <=> ~r.context /\ ~V!Contradictory(r) /\ ~V!Inverted(r)
  <2>1. V!Lower(r) = r[l] /\ V!Upper(r) = r[u] /\ r[l] \in Releases /\ r[u] \in Releases
    BY <1>1, <1>8, GivenHolds DEF V!Lower, V!Upper
  <2>2. ~V!Contradictory(r)
    BY <1>8 DEF V!Contradictory
  <2>3. V!Rank(r[l]) \in Int /\ V!Rank(r[u]) \in Int
    BY <2>1, RankIsOrder
  <2>4. V!Inverted(r) <=> \/ V!Rank(r[u]) < V!Rank(r[l])
                          \/ V!Rank(r[l]) = V!Rank(r[u]) /\ {"after", "before"} \cap g # {}
    <3>1. V!Before(r[u], r[l]) <=> V!Rank(r[u]) < V!Rank(r[l])
      BY <2>1, RankIsOrder
    <3>2. r[l] = r[u] <=> V!Rank(r[l]) = V!Rank(r[u])
      BY <2>1, RankIsOrder
    <3>3. V!Readable(V!Lower(r)) /\ V!Readable(V!Upper(r))
      BY <2>1 DEF V!Readable
    <3> QED
      BY <2>1, <3>1, <3>2, <3>3 DEF V!Inverted
  <2>5. CASE l = "from" /\ u = "upto"
    <3>1. {"after", "before"} \cap g = {}
      BY <1>8, <2>5
    <3>2. V!Decidable(r) <=> ~r.context /\ V!Rank(r.from) <= V!Rank(r.upto)
      BY <1>8, <2>5 DEF V!Decidable
    <3> QED
      BY <2>2, <2>3, <2>4, <2>5, <3>1, <3>2
  <2>6. CASE ~(l = "from" /\ u = "upto")
    <3>1. {"after", "before"} \cap g # {}
      BY <1>8, <2>6
    <3>2. V!Decidable(r) <=> ~r.context /\ V!Rank(r[l]) < V!Rank(r[u])
      BY <1>8, <2>6 DEF V!Decidable
    <3> QED
      BY <2>2, <2>3, <2>4, <3>1, <3>2
  <2> QED
    BY <2>5, <2>6
<1>9. \/ "exact" \in g
      \/ "exact" \notin g /\ "from" \notin g /\ "after" \notin g
      \/ "exact" \notin g /\ "upto" \notin g /\ "before" \notin g
      \/ "exact" \notin g /\ ({"from", "after"} \subseteq g \/ {"upto", "before"} \subseteq g)
           /\ (\E l \in {"from", "after"} : l \in g) /\ (\E u \in {"upto", "before"} : u \in g)
      \/ \E l \in {"from", "after"}, u \in {"upto", "before"} : g = {l, u}
  BY GivenHolds
<1> QED
  BY <1>4, <1>5, <1>6, <1>7, <1>8, <1>9
\* Each bound holds when the rank is on its side.
LEMMA HoldsMeans ==
  ASSUME NEW r, \A b \in V!Given(r) : V!Readable(r[b]), NEW v \in Releases
  PROVE  (\A b \in V!Given(r) : V!Holds(v, b, r)) <=> v \in V!Affected(r)
<1> DEFINE g == V!Given(r)
<1>1. "exact" \in g => (V!Holds(v, "exact", r) <=> V!Rank(v) = V!Rank(r.exact))
  BY RankIsOrder DEF V!Readable, V!Holds
<1>2. "from" \in g => (V!Holds(v, "from", r) <=> V!Rank(v) >= V!Rank(r.from))
  BY RankIsOrder DEF V!Readable, V!Holds
<1>3. "after" \in g => (V!Holds(v, "after", r) <=> V!Rank(v) > V!Rank(r.after))
  BY RankIsOrder DEF V!Readable, V!Holds
<1>4. "upto" \in g => (V!Holds(v, "upto", r) <=> V!Rank(v) <= V!Rank(r.upto))
  BY RankIsOrder DEF V!Readable, V!Holds
<1>5. "before" \in g => (V!Holds(v, "before", r) <=> V!Rank(v) < V!Rank(r.before))
  BY RankIsOrder DEF V!Readable, V!Holds
<1>6. (\A b \in g : V!Holds(v, b, r)) <=>
        /\ "exact" \in g => V!Holds(v, "exact", r)
        /\ "from" \in g => V!Holds(v, "from", r)
        /\ "after" \in g => V!Holds(v, "after", r)
        /\ "upto" \in g => V!Holds(v, "upto", r)
        /\ "before" \in g => V!Holds(v, "before", r)
  BY GivenHolds
<1> HIDE DEF g
<1>7. v \in V!Affected(r) <=>
        /\ "exact" \in g => V!Rank(v) = V!Rank(r.exact)
        /\ "from" \in g => V!Rank(v) >= V!Rank(r.from)
        /\ "after" \in g => V!Rank(v) > V!Rank(r.after)
        /\ "upto" \in g => V!Rank(v) <= V!Rank(r.upto)
        /\ "before" \in g => V!Rank(v) < V!Rank(r.before)
  BY GivenHolds DEF V!Affected, g
<1> QED
  BY <1>1, <1>2, <1>3, <1>4, <1>5, <1>6, <1>7 DEF g

\* The answer about one rule of the product.
LEMMA MatchMeans ==
  ASSUME NEW o, NEW r, V!ProductMatches(o, r)
  PROVE  V!Match(o, r) =
           IF ~(V!Trusted(o) /\ V!Decidable(r)) THEN "potential"
           ELSE IF o.version \in V!Affected(r) THEN "confirmed" ELSE "not_applicable"
<1>1. CASE ~V!Trusted(o)
  BY <1>1 DEF V!Match
<1>2. CASE \E b \in V!Given(r) : ~V!Readable(r[b])
  <2>1. ~V!Decidable(r)
    BY <1>2 DEF V!Decidable
  <2> QED
    BY <1>2, <2>1 DEF V!Match
<1>3. CASE V!Trusted(o) /\ \A b \in V!Given(r) : V!Readable(r[b])
  <2>1. V!Decidable(r) <=> ~r.context /\ ~V!Contradictory(r) /\ ~V!Inverted(r)
    BY <1>3, DecidableMeans
  <2>2. o.version \in Releases
    BY <1>3 DEF V!Trusted, V!Readable
  <2>3. (\A b \in V!Given(r) : V!Holds(o.version, b, r)) <=> o.version \in V!Affected(r)
    BY <1>3, <2>2, HoldsMeans
  <2> QED
    BY <1>3, <2>1, <2>3 DEF V!Match
<1> QED
  BY <1>1, <1>2, <1>3

---------------------------------------------------------------------------
(* All rules of an advisory.                                               *)

ComparisonInv ==
  \A c \in comparison :
    c.result = V!Choose({V!Match(c.observation, rule) : rule \in c.rules})

LEMMA ComparisonStarts == V!Init => ComparisonInv
BY DEF V!Init, ComparisonInv

LEMMA ComparisonSteps ==
  ASSUME ComparisonInv, [V!Next]_comparison
  PROVE  ComparisonInv'
<1>1. ASSUME NEW o, NEW all, V!Compared(o, all)
      PROVE  ComparisonInv'
  BY <1>1 DEF V!Compared, ComparisonInv
<1>2. CASE V!CompareOne
  BY <1>1, <1>2 DEF V!CompareOne
<1>3. CASE V!CompareTwo
  BY <1>1, <1>3 DEF V!CompareTwo
<1>4. CASE UNCHANGED comparison
  BY <1>4 DEF ComparisonInv
<1> QED
  BY <1>2, <1>3, <1>4 DEF V!Next

LEMMA MatchesAreSound == ComparisonInv => V!MatchingIsSound
<1> SUFFICES ASSUME ComparisonInv, NEW c \in comparison
             PROVE  LET o == c.observation
                        about == {r \in c.rules : V!ProductMatches(o, r)}
                        decided == {r \in about : V!Trusted(o) /\ V!Decidable(r)}
                    IN  c.result =
                          CASE \E r \in decided : o.version \in V!Affected(r) -> "confirmed"
                            [] \A r \in about : r \in decided /\ o.version \notin V!Affected(r)
                                 -> "not_applicable"
                            [] OTHER -> "potential"
  BY DEF V!MatchingIsSound
<1> DEFINE o == c.observation
<1> DEFINE about == {r \in c.rules : V!ProductMatches(o, r)}
<1> DEFINE decided == {r \in about : V!Trusted(o) /\ V!Decidable(r)}
<1> DEFINE results == {V!Match(o, rule) : rule \in c.rules}
<1>1. c.result = V!Choose(results)
  BY DEF ComparisonInv
<1>2. ASSUME NEW r \in c.rules, r \notin about
      PROVE  V!Match(o, r) = "not_applicable"
  BY <1>2 DEF V!Match
<1>3. ASSUME NEW r \in about
      PROVE  V!Match(o, r) = IF r \notin decided THEN "potential"
                             ELSE IF o.version \in V!Affected(r) THEN "confirmed"
                             ELSE "not_applicable"
  BY <1>3, MatchMeans
<1>4. "confirmed" \in results <=> \E r \in decided : o.version \in V!Affected(r)
  <2>1. ASSUME "confirmed" \in results
        PROVE  \E r \in decided : o.version \in V!Affected(r)
    <3>1. PICK r \in c.rules : V!Match(o, r) = "confirmed"
      BY <2>1
    <3> HIDE DEF o, about, decided
    <3>2. r \in about
      BY <1>2, <3>1
    <3> QED
      BY <1>3, <3>1, <3>2
  <2>2. ASSUME NEW r \in decided, o.version \in V!Affected(r)
        PROVE  "confirmed" \in results
    <3>1. r \in about /\ r \in c.rules
      OBVIOUS
    <3>2. V!Match(o, r) = "confirmed"
      BY <1>3, <2>2, <3>1
    <3> QED
      BY <3>1, <3>2
  <2> QED
    BY <2>1, <2>2
<1>5. "potential" \in results <=> \E r \in about : r \notin decided
  <2>1. ASSUME "potential" \in results
        PROVE  \E r \in about : r \notin decided
    <3>1. PICK r \in c.rules : V!Match(o, r) = "potential"
      BY <2>1
    <3> HIDE DEF o, about, decided
    <3>2. r \in about
      BY <1>2, <3>1
    <3> QED
      BY <1>3, <3>1, <3>2
  <2>2. ASSUME NEW r \in about, r \notin decided
        PROVE  "potential" \in results
    <3>1. r \in c.rules
      OBVIOUS
    <3>2. V!Match(o, r) = "potential"
      BY <1>3, <2>2
    <3> QED
      BY <3>1, <3>2
  <2> QED
    BY <2>1, <2>2
<1> HIDE DEF o, about, decided, results
<1>6. CASE "confirmed" \in results
  <2>1. PICK r \in decided : o.version \in V!Affected(r)
    BY <1>4, <1>6
  <2>2. r \in about
    BY DEF decided
  <2>3. ~ \A s \in about : s \in decided /\ o.version \notin V!Affected(s)
    BY <2>1, <2>2
  <2> QED
    BY <1>1, <1>4, <1>6, <2>3 DEF V!Choose, o, about, decided
<1>7. CASE "confirmed" \notin results /\ "potential" \in results
  <2>1. ~ \A s \in about : s \in decided /\ o.version \notin V!Affected(s)
    BY <1>5, <1>7
  <2> QED
    BY <1>1, <1>4, <1>7, <2>1 DEF V!Choose, o, about, decided
<1>8. CASE "confirmed" \notin results /\ "potential" \notin results
  <2>1. \A s \in about : s \in decided /\ o.version \notin V!Affected(s)
    BY <1>4, <1>5, <1>8
  <2> QED
    BY <1>1, <1>4, <1>8, <2>1 DEF V!Choose, o, about, decided
<1> QED
  BY <1>6, <1>7, <1>8

---------------------------------------------------------------------------
(* The types of these parts.                                               *)

\* Services: a call stays a call when another one changes.
LEMMA CallsAreMarked ==
  ASSUME NEW k \in T!Call
  PROVE  [k EXCEPT !.overtaken = TRUE] \in T!Call
BY DEF T!Call

LEMMA OvertakenAreTyped ==
  ASSUME NEW calls, \A c \in DecisionCalls : calls[c] = T!Idle \/ calls[c] \in T!Call, NEW p
  PROVE  \A c \in DecisionCalls :
           T!Overtaking(p, calls)[c] = T!Idle \/ T!Overtaking(p, calls)[c] \in T!Call
<1> SUFFICES ASSUME NEW c \in DecisionCalls
             PROVE  T!Overtaking(p, calls)[c] = T!Idle \/ T!Overtaking(p, calls)[c] \in T!Call
  OBVIOUS
<1>1. CASE T!Overtaking(p, calls)[c] = calls[c]
  BY <1>1
<1>2. CASE T!Overtaking(p, calls)[c] # calls[c]
  <2>1. T!Overtaking(p, calls)[c] = [calls[c] EXCEPT !.overtaken = TRUE] /\ calls[c].pc = "deciding"
    BY <1>2 DEF T!Overtaking
  <2>2. calls[c] \in T!Call
    BY <2>1 DEF T!Idle
  <2> QED
    BY <2>1, <2>2, CallsAreMarked
<1> QED
  BY <1>1, <1>2

LEMMA ServicesTypedAtFirst == T!Init => T!TypeOK
<1> SUFFICES ASSUME T!Init PROVE T!TypeOK
  OBVIOUS
<1>1. hour \in T!Time /\ asks \in 0..MaxAsks /\ completed \in 0..MaxCompleted
  BY ServicesAssumption DEF T!Init, T!Time
<1>2. T!NotCached \in [expires : 0..MaxHours + CacheTime, provider : T!Snapshot \cup {T!NoSnapshot}]
  BY ServicesAssumption DEF T!NotCached
<1>3. T!NoRow \in T!Row
  BY DEF T!NoRow, T!Row
<1> QED
  BY <1>1, <1>2, <1>3 DEF T!Init, T!TypeOK

LEMMA ServicesStayTyped ==
  ASSUME ServiceInv, T!TypeOK, [T!Next]_(T!decisionVars)
  PROVE  T!TypeOK'
<1> DEFINE CallsTyped == \A c \in DecisionCalls : deciding[c] = T!Idle \/ deciding[c] \in T!Call
<1> DEFINE Entry == [expires : 0..MaxHours + CacheTime, provider : T!Snapshot \cup {T!NoSnapshot}]
<1> DEFINE Kept == /\ hour \in T!Time /\ asks \in 0..MaxAsks /\ completed \in 0..MaxCompleted
                   /\ latest \subseteq observations /\ observations \subseteq ThirdParties
                   /\ cache \in [ThirdParties -> Entry]
                   /\ decisions \in [ThirdParties -> T!Row]
                   /\ current \in [ThirdParties -> T!Snapshot \cup {T!NoSnapshot}]
<1>0. Kept /\ CallsTyped /\ DOMAIN deciding = DecisionCalls
  BY DEF T!TypeOK, ServiceInv
<1> SUFFICES Kept' /\ CallsTyped'
  BY DEF T!TypeOK
<1>1. CASE UNCHANGED T!decisionVars
  BY <1>0, <1>1 DEF T!decisionVars
<1>2. CASE T!Tick
  <2>1. hour' \in T!Time
    BY <1>0, <1>2, ServicesAssumption DEF T!Tick, T!Time
  <2> QED
    BY <1>0, <1>2, <2>1 DEF T!Tick
<1>3. ASSUME NEW found \in SUBSET ThirdParties, T!ScanCompletes(found)
      PROVE  Kept' /\ CallsTyped'
  <2>1. completed' \in 0..MaxCompleted
    BY <1>0, <1>3, ServicesAssumption DEF T!ScanCompletes
  <2> QED
    BY <1>0, <1>3, <2>1 DEF T!ScanCompletes
<1>4. ASSUME NEW c \in DecisionCalls, NEW k \in T!Call, deciding' = [deciding EXCEPT ![c] = k]
      PROVE  CallsTyped'
  BY <1>0, <1>4
<1>5. ASSUME NEW c \in DecisionCalls, NEW p \in ThirdParties,
             NEW status \in {"confirmed", "ignored"}, T!Ask(c, p, status)
      PROVE  Kept' /\ CallsTyped'
  <2> DEFINE fetches == status = "confirmed" /\ T!Cached(p) = T!NoSnapshot
  <2> DEFINE answer == IF status = "confirmed" THEN T!Cached(p) ELSE T!NoSnapshot
  <2>1. asks' \in 0..MaxAsks
    BY <1>0, <1>5, ServicesAssumption DEF T!Ask
  <2>2. answer \in T!Snapshot \cup {T!NoSnapshot}
    BY <1>0 DEF T!Cached
  <2>3. T!NoRow \in T!Row
    BY DEF T!NoRow, T!Row
  <2> DEFINE k == [pc |-> IF fetches THEN "fetching" ELSE "fetched", provider |-> p,
                   status |-> status, began |-> hour, answer |-> answer,
                   previous |-> T!NoRow, overtaken |-> FALSE]
  <2>4. deciding' = [deciding EXCEPT ![c] = k]
    BY <1>5 DEF T!Ask
  <2> HIDE DEF fetches, answer
  <2>5. k \in T!Call
    BY <1>0, <2>2, <2>3 DEF T!Call
  <2> HIDE DEF k
  <2>6. CallsTyped'
    BY <1>4, <2>4, <2>5
  <2> QED
    BY <1>0, <1>5, <2>1, <2>6 DEF T!Ask
<1>6. ASSUME NEW c \in DecisionCalls, deciding[c] # T!Idle
      PROVE  deciding[c] \in T!Call
  BY <1>0, <1>6
<1>7. ASSUME NEW c \in DecisionCalls, T!Answered(c)
      PROVE  Kept' /\ CallsTyped'
  <2> DEFINE p == deciding[c].provider
  <2>1. deciding[c] \in T!Call /\ p \in ThirdParties /\ deciding[c].began \in T!Time
    BY <1>6, <1>7 DEF T!Answered, T!Idle, T!Call
  <2>2. PICK proper \in BOOLEAN,
             content \in [id : ThirdParties \cup {"other"}, published : deciding[c].began..hour] :
          /\ deciding' = [deciding EXCEPT ![c].pc = "fetched",
                                          ![c].answer = T!Parsed(p, proper, content)]
          /\ cache' = IF T!Parsed(p, proper, content) = T!NoSnapshot THEN cache
                      ELSE [cache EXCEPT ![p] = [expires |-> hour + CacheTime,
                                                 provider |-> T!Parsed(p, proper, content)]]
    BY <1>7 DEF T!Answered
  <2> DEFINE answer == T!Parsed(p, proper, content)
  <2>3. answer \in T!Snapshot \cup {T!NoSnapshot}
    <3>1. content.published \in 0..MaxHours
      BY <1>0, <2>1, ServicesAssumption DEF T!Time
    <3>2. content = [id |-> content.id, published |-> content.published]
      OBVIOUS
    <3> QED
      BY <2>1, <3>1, <3>2 DEF T!Parsed, T!Snapshot, T!Time
  <2> DEFINE h == [deciding[c] EXCEPT !.pc = "fetched", !.answer = answer]
  <2>4. deciding' = [deciding EXCEPT ![c] = h]
    BY <2>2
  <2>5. cache' = cache \/ cache' = [cache EXCEPT ![p] = [expires |-> hour + CacheTime, provider |-> answer]]
    BY <2>2
  <2> HIDE DEF answer
  <2>6. h \in T!Call
    BY <2>1, <2>3 DEF T!Call
  <2> HIDE DEF h, p
  <2>7. CallsTyped'
    BY <1>4, <2>4, <2>6
  <2>8. hour + CacheTime \in 0..MaxHours + CacheTime
    BY <1>0, ServicesAssumption DEF T!Time
  <2>9. cache' \in [ThirdParties -> Entry]
    BY <1>0, <2>3, <2>5, <2>8
  <2> QED
    BY <1>0, <1>7, <2>7, <2>9 DEF T!Answered
<1>8. ASSUME NEW c \in DecisionCalls, T!NotAnswered(c)
      PROVE  Kept' /\ CallsTyped'
  <2> DEFINE h == [deciding[c] EXCEPT !.pc = "fetched"]
  <2>1. deciding' = [deciding EXCEPT ![c] = h]
    BY <1>8 DEF T!NotAnswered
  <2>2. h \in T!Call
    BY <1>6, <1>8 DEF T!NotAnswered, T!Idle, T!Call
  <2> HIDE DEF h
  <2>3. CallsTyped'
    BY <1>4, <2>1, <2>2
  <2> QED
    BY <1>0, <1>8, <2>3 DEF T!NotAnswered
<1>9. ASSUME NEW c \in DecisionCalls, T!ReadPrevious(c)
      PROVE  Kept' /\ CallsTyped'
  <2> DEFINE h == [deciding[c] EXCEPT !.pc = "deciding", !.previous = decisions[deciding[c].provider]]
  <2>1. deciding' = [deciding EXCEPT ![c] = h]
    BY <1>9 DEF T!ReadPrevious
  <2>2. deciding[c] \in T!Call /\ deciding[c].provider \in ThirdParties
    BY <1>6, <1>9 DEF T!ReadPrevious, T!Idle, T!Call
  <2>3. decisions[deciding[c].provider] \in T!Row
    BY <1>0, <2>2
  <2>4. h \in T!Call
    BY <2>2, <2>3 DEF T!Call
  <2> HIDE DEF h
  <2>5. CallsTyped'
    BY <1>4, <2>1, <2>4
  <2> QED
    BY <1>0, <1>9, <2>5 DEF T!ReadPrevious
<1>10. ASSUME NEW c \in DecisionCalls, T!Decide(c)
       PROVE  Kept' /\ CallsTyped'
  <2> DEFINE k == deciding[c]
  <2> DEFINE snapshot == T!Kept(k.status, k.answer, k.previous)
  <2>1. k \in T!Call /\ k.provider \in ThirdParties /\ k.status \in {"confirmed", "ignored"}
        /\ k.answer \in T!Snapshot \cup {T!NoSnapshot} /\ k.previous \in T!Row
    BY <1>6, <1>10 DEF T!Decide, T!Idle, T!Call
  <2>2. snapshot \in T!Snapshot \cup {T!NoSnapshot}
    BY <2>1 DEF T!Kept, T!Row
  <2>3. /\ decisions' = [decisions EXCEPT ![k.provider] = [status |-> k.status, snapshot |-> snapshot]]
        /\ current' = [current EXCEPT ![k.provider] =
                         IF k.overtaken THEN snapshot
                         ELSE IF k.status = "ignored" THEN T!NoSnapshot
                         ELSE IF k.answer # T!NoSnapshot THEN k.answer ELSE @]
        /\ deciding' = T!Overtaking(k.provider, [deciding EXCEPT ![c] = T!Idle])
    BY <1>10 DEF T!Decide
  <2> HIDE DEF k, snapshot
  <2>4. decisions' \in [ThirdParties -> T!Row]
    BY <1>0, <2>1, <2>2, <2>3 DEF T!Row
  <2>5. current' \in [ThirdParties -> T!Snapshot \cup {T!NoSnapshot}]
    BY <1>0, <2>1, <2>2, <2>3
  <2>6. \A d \in DecisionCalls : [deciding EXCEPT ![c] = T!Idle][d] = T!Idle
                                 \/ [deciding EXCEPT ![c] = T!Idle][d] \in T!Call
    BY <1>0
  <2>7. CallsTyped'
    BY <2>3, <2>6, OvertakenAreTyped
  <2> QED
    BY <1>0, <1>10, <2>4, <2>5, <2>7 DEF T!Decide
<1>11. ASSUME NEW p \in ThirdParties, T!Reset(p)
       PROVE  Kept' /\ CallsTyped'
  <2>1. CallsTyped'
    BY <1>0, <1>11, OvertakenAreTyped DEF T!Reset
  <2>2. decisions' \in [ThirdParties -> T!Row] /\ current' \in [ThirdParties -> T!Snapshot \cup {T!NoSnapshot}]
    BY <1>0, <1>11 DEF T!Reset, T!NoRow, T!Row
  <2> QED
    BY <1>0, <1>11, <2>1, <2>2 DEF T!Reset
<1> QED
  BY Zenon, <1>1, <1>2, <1>3, <1>5, <1>7, <1>8, <1>9, <1>10, <1>11 DEF T!Next

\* Matching: an answer is one of three.
LEMMA MatchingTyped == ComparisonInv => V!TypeOK
BY DEF ComparisonInv, V!TypeOK, V!Choose

\* Network: an audit passes from one stage to another.
Stages == {"probe", "launch", "starting", "browsing", "analysis", "stored", "aborted"}

LEMMA StagesStart == A!Init => stage \in Stages
BY DEF A!Init, Stages

LEMMA StagesSteps ==
  ASSUME stage \in Stages, [A!Next]_(A!vars)
  PROVE  stage' \in Stages
<1> USE DEF Stages
<1>1. CASE A!TimeIsOver \/ A!Abort \/ A!Launch \/ A!Start \/ A!OpenPage \/ A!Observe \/ A!Analyze
  BY <1>1 DEF A!TimeIsOver, A!Abort, A!Launch, A!Start, A!OpenPage, A!Observe, A!Analyze
<1>2. CASE A!ProbeRequest \/ A!ProbeResolved \/ A!ProbeConnect \/ A!ProbeUnanswered \/ A!ProbeAnswer
  <2> USE DEF A!ProbeFails, A!ProbeGoes
  <2>1. CASE A!ProbeRequest
    BY <2>1 DEF A!ProbeRequest
  <2>2. CASE A!ProbeResolved
    BY <2>2 DEF A!ProbeResolved
  <2>3. CASE A!ProbeConnect
    BY <2>3 DEF A!ProbeConnect
  <2>4. CASE A!ProbeUnanswered
    BY <2>4 DEF A!ProbeUnanswered
  <2>5. CASE A!ProbeAnswer
    BY <2>5 DEF A!ProbeAnswer
  <2> QED
    BY Zenon, <1>2, <2>1, <2>2, <2>3, <2>4, <2>5
<1>3. ASSUME NEW r \in A!Requests,
             \/ A!Route(r) \/ A!Unrouted(r) \/ A!Target(r) \/ A!Resolved(r)
             \/ A!TurnedAway(r) \/ A!Tunnel(r) \/ A!Chunk(r) \/ A!TunnelEnds(r)
             \/ A!BadRequest(r) \/ A!PlainRequest(r) \/ A!PlainAnswer(r) \/ A!PlainChunk(r)
             \/ A!PlainEnds(r)
      PROVE  stage' = stage
  BY Zenon, <1>3 DEF A!Page, A!Route, A!Unrouted, A!Target, A!Resolved, A!TurnedAway, A!Tunnel,
     A!Chunk, A!TunnelEnds, A!BadRequest, A!PlainRequest, A!PlainAnswer, A!PlainChunk, A!PlainEnds,
     A!May, A!Ends
<1>4. CASE UNCHANGED A!vars
  BY Zenon, <1>4 DEF A!vars
<1> QED
  BY Zenon, <1>1, <1>2, <1>3, <1>4 DEF A!Next

LEMMA NetworkTyped == HonestInv /\ stage \in Stages => A!TypeOK
BY DEF HonestInv, BudgetInv, LedgerInv, Ledger, AuditTypes, RequestState, Stages, A!TypeOK

\* Comparison: what is compared was told by scans.
LEMMA ComparedTyped == K!Init => K!TypeOK
BY DEF K!Init, K!TypeOK
LEMMA ComparedStays ==
  ASSUME K!TypeOK, [K!Next]_reading
  PROVE  K!TypeOK'
<1>1. CASE K!Compare
  <2>1. PICK a \in K!Analyzers, s \in K!Tellings, t \in K!Tellings :
          reading' = {[analyzer |-> a, now |-> s, then |-> t]}
    BY <1>1 DEF K!Compare
  <2> QED
    BY <2>1 DEF K!TypeOK
<1>2. CASE reading' = reading
  BY <1>2 DEF K!TypeOK
<1> QED
  BY <1>1, <1>2 DEF K!Next

\* Fetch: who connects has an address, and one piece may be too many.
FetchTypes ==
  /\ step \in {"check", "connect", "answer", "body", "unsafe", "timeout", "network", "redirect",
               "answered", "refused", "too large", "text"}
  /\ redirects \in 0..FetchRedirects /\ received \in 0..FetchBytes+1 /\ hop \in FetchUrls
  /\ step = "connect" => pinned \in Addresses
  /\ connections \subseteq [url : FetchUrls, address : Addresses]

LEMMA FetchTypesStart == B!Init => FetchTypes
BY FetchAssumption DEF B!Init, FetchTypes

LEMMA FetchTypesSteps ==
  ASSUME TextInv, FetchTypes, [B!Next]_(B!vars)
  PROVE  FetchTypes'
<1> USE DEF B!Ends, B!hop, B!body
<1>1. CASE B!Check
  <2>1. /\ UNCHANGED <<hop, redirects, received, connections>>
        /\ \/ step' \in {"timeout", "unsafe"}
           \/ step' = "connect" /\ pinned' \in Addresses
    BY <1>1 DEF B!Check
  <2> QED
    BY <2>1 DEF FetchTypes
<1>2. CASE B!Connect
  <2>1. /\ UNCHANGED <<hop, redirects, received, pinned>> /\ step = "connect" /\ step' = "answer"
        /\ connections' = connections \cup {[url |-> hop, address |-> pinned]}
    BY <1>2 DEF B!Connect, B!ByPin
  <2>2. [url |-> hop, address |-> pinned] \in [url : FetchUrls, address : Addresses]
    BY <2>1 DEF FetchTypes
  <2> QED
    BY <2>1, <2>2 DEF FetchTypes
<1>3. CASE B!Redirect
  <2>1. /\ UNCHANGED <<received, connections>>
        /\ \/ step' = "redirect" /\ UNCHANGED <<hop, redirects>>
           \/ redirects < FetchRedirects /\ step' = "check" /\ hop' \in FetchUrls /\ redirects' = redirects + 1
    BY <1>3 DEF B!Redirect
  <2>2. redirects' \in 0..FetchRedirects
    <3>1. redirects' = redirects \/ (redirects < FetchRedirects /\ redirects' = redirects + 1)
      BY Zenon, <2>1
    <3>2. redirects \in 0..FetchRedirects
      BY DEF FetchTypes
    <3> QED
      BY <3>1, <3>2, FetchAssumption
  <2> QED
    BY <2>1, <2>2 DEF FetchTypes
<1>4. CASE B!Successful
  <2>1. UNCHANGED <<hop, redirects, received, connections>>
    BY <1>4 DEF B!Successful
  <2>2. step' \in {"too large", "body"}
    BY Zenon, <1>4 DEF B!Successful
  <2> QED
    BY <2>1, <2>2 DEF FetchTypes
<1>5. CASE B!Receive
  <2>1. /\ UNCHANGED <<hop, redirects, connections>> /\ step = "body" /\ received' = received + 1
    BY Zenon, <1>5 DEF B!Receive, B!Data
  <2>2. step' \in {"too large", "body"}
    BY Zenon, <1>5 DEF B!Receive, B!Data
  <2>3. received' \in 0..FetchBytes+1
    BY <2>1, FetchAssumption DEF TextInv
  <2> QED
    BY <2>1, <2>2, <2>3 DEF FetchTypes
<1>6. CASE B!Broken \/ B!Settle \/ B!EndOfBody
  <2>1. /\ UNCHANGED <<hop, redirects, received, connections>>
        /\ step' \in {"network", "timeout", "answered", "refused", "text"}
    BY <1>6 DEF B!Broken, B!Settle, B!EndOfBody
  <2> QED
    BY <2>1 DEF FetchTypes
<1>7. CASE B!DeadlinePasses \/ UNCHANGED B!vars
  <2>1. UNCHANGED <<step, hop, redirects, received, pinned, connections>>
    BY <1>7 DEF B!DeadlinePasses, B!vars
  <2> QED
    BY <2>1 DEF FetchTypes
<1> QED
  BY <1>1, <1>2, <1>3, <1>4, <1>5, <1>6, <1>7 DEF B!Next

LEMMA FetchTyped == FetchTypes => B!TypeOK
BY DEF FetchTypes, B!TypeOK

\* Captures: a response that came during the crawl is due, and every record
\* and error has a slot of its own.
CaptureTypes ==
  /\ collection \in {"crawl", "waiting", "error", "unavailable", "partial", "complete"}
  /\ dropped \in BOOLEAN /\ awaited \subseteq due
  /\ collection = "crawl" => \A r \in Responses : capture[r] # "none" => r \in due
  /\ errors \in Nat /\ N!Reserved <= Slots

LEMMA SlotsOfCaptures ==
  ASSUME NEW set, set \subseteq Responses, NEW r \in Responses
  PROVE  /\ N!Cardinality(set) \in Nat /\ N!Cardinality(set \cup {r}) \in Nat
         /\ N!Cardinality(set \cup {r}) <= N!Cardinality(set) + 1
<1>1. IsFiniteSet(set)
  BY ResponsesAssumption, FS_Subset
<1>2. /\ Cardinality(set) \in Nat
      /\ Cardinality(set \cup {r}) = IF r \in set THEN Cardinality(set) ELSE Cardinality(set) + 1
  BY <1>1, FS_AddElement, FS_CardinalityType
<1> QED
  BY <1>2, CardinalityOfCaptures

LEMMA ReservedIsCounted ==
  ASSUME errors \in Nat, IsFiniteSet(Responses)
  PROVE  N!Reserved \in Nat
<1> DEFINE set == N!In({"pending", "recorded", "failed"})
<1>1. IsFiniteSet(set)
  BY FS_Subset DEF N!In
<1>2. N!Cardinality(set) \in Nat
  BY <1>1, FS_CardinalityType, CardinalityOfCaptures
<1> QED
  BY <1>2 DEF N!Reserved

LEMMA CaptureTypesStart == N!Init => CaptureTypes
<1> SUFFICES ASSUME N!Init PROVE CaptureTypes
  OBVIOUS
<1>1. N!In({"pending", "recorded", "failed"}) = {} /\ N!Cardinality({}) = 0
  BY FS_EmptySet, CardinalityOfCaptures DEF N!Init, N!In
<1>2. N!Reserved <= Slots
  BY <1>1, SlotsAssumption DEF N!Init, N!Reserved
<1> QED
  BY <1>2 DEF N!Init, CaptureTypes

LEMMA CaptureTypesSteps ==
  ASSUME CaptureInv, CaptureTypes, [N!Next]_(N!vars)
  PROVE  CaptureTypes'
<1> DEFINE Used == N!In({"pending", "recorded", "failed"})
<1>1. /\ capture \in [Responses -> {"none", "pending", "recorded", "failed", "dropped"}]
      /\ due \subseteq Responses /\ errors \in Nat /\ Slots \in Nat
  BY SlotsAssumption DEF CaptureInv, CaptureTypes
<1>2. ASSUME errors' = errors, Used' = Used PROVE N!Reserved' <= Slots
  BY <1>2 DEF N!Reserved, CaptureTypes
<1>3. ASSUME NEW r \in Responses, N!Respond(r) PROVE CaptureTypes'
  <2>1. /\ N!Open /\ capture[r] = "none" /\ UNCHANGED <<collection, errors, awaited>>
        /\ due' = (IF collection = "crawl" THEN due \cup {r} ELSE due)
    BY <1>3 DEF N!Respond
  <2>2. \/ N!Reserved < Slots /\ capture' = [capture EXCEPT ![r] = "pending"] /\ dropped' = dropped
        \/ capture' = [capture EXCEPT ![r] = "dropped"] /\ dropped' = TRUE
    BY <1>3 DEF N!Respond
  <2>3. N!Reserved' <= Slots
    <3>1. CASE N!Reserved < Slots /\ capture' = [capture EXCEPT ![r] = "pending"]
      <4>1. Used' = Used \cup {r} /\ Used \subseteq Responses
        BY <1>1, <3>1 DEF N!In
      <4>2. PICK n \in Nat : n = N!Cardinality(Used)
        BY <4>1, SlotsOfCaptures
      <4>3. PICK m \in Nat : m = N!Cardinality(Used') /\ m <= n + 1
        BY <4>1, <4>2, SlotsOfCaptures
      <4>4. errors + n < Slots
        BY <3>1, <4>2 DEF N!Reserved
      <4>5. errors + m <= Slots
        BY <1>1, <4>2, <4>3, <4>4
      <4> QED
        BY <2>1, <4>3, <4>5 DEF N!Reserved
    <3>2. CASE capture' = [capture EXCEPT ![r] = "dropped"]
      <4>1. Used' = Used
        BY <1>1, <2>1, <3>2 DEF N!In
      <4> QED
        BY <1>2, <2>1, <4>1
    <3> QED
      BY <2>2, <3>1, <3>2
  <2>4. \A q \in Responses : q # r => capture'[q] = capture[q]
    BY <1>1, <2>2
  <2>5. collection = "crawl" => \A q \in Responses : capture'[q] # "none" => q \in due'
    BY <2>1, <2>4 DEF CaptureTypes
  <2>6. dropped' \in BOOLEAN
    BY Zenon, <2>2 DEF CaptureTypes
  <2>7. awaited' \subseteq due'
    BY <2>1 DEF CaptureTypes
  <2> QED
    BY Zenon, <2>1, <2>3, <2>5, <2>6, <2>7 DEF CaptureTypes
<1>4. CASE N!ErrorSeen
  <2>1. UNCHANGED <<collection, capture, awaited, due>>
    BY <1>4 DEF N!ErrorSeen
  <2>2. \/ N!Reserved < Slots /\ errors' = errors + 1 /\ dropped' = dropped
        \/ errors' = errors /\ dropped' = TRUE
    BY <1>4 DEF N!ErrorSeen
  <2>3. Used' = Used
    BY <2>1 DEF N!In
  <2>4. errors' \in Nat /\ dropped' \in BOOLEAN
    <3>1. errors' \in Nat
      BY <1>1, <2>2
    <3>2. dropped' \in BOOLEAN
      BY Zenon, <2>2 DEF CaptureTypes
    <3> QED
      BY <3>1, <3>2
  <2>5. N!Reserved' <= Slots
    <3>1. PICK n : n = N!Cardinality(Used)
      OBVIOUS
    <3>2. n \in Nat
      <4>1. IsFiniteSet(Used)
        BY ResponsesAssumption, FS_Subset DEF N!In
      <4> QED
        BY <3>1, <4>1, FS_CardinalityType, CardinalityOfCaptures
    <3>3. N!Reserved = errors + n /\ N!Reserved' = errors' + n
      BY <2>3, <3>1 DEF N!Reserved
    <3> QED
      BY <1>1, <2>2, <3>2, <3>3 DEF CaptureTypes
  <2> QED
    BY Zenon, <2>1, <2>4, <2>5 DEF CaptureTypes
<1>5. ASSUME NEW r \in Responses, N!Record(r) \/ N!CaptureFails(r) PROVE CaptureTypes'
  <2>1. PICK state \in {"recorded", "failed"} :
          /\ capture[r] = "pending" /\ capture' = [capture EXCEPT ![r] = state]
          /\ UNCHANGED <<collection, errors, dropped, awaited, due>>
    BY <1>5 DEF N!Record, N!CaptureFails
  <2>2. Used' = Used /\ \A q \in Responses : capture'[q] # "none" => capture[q] # "none"
    BY <1>1, <2>1 DEF N!In
  <2>3. N!Reserved' <= Slots
    BY <1>2, <2>1, <2>2
  <2> QED
    BY <2>1, <2>2, <2>3 DEF CaptureTypes
<1>6. CASE N!CrawlEnds \/ N!WaitEnds \/ N!WaitTimesOut
  <2>1. /\ UNCHANGED <<capture, errors, dropped, due>>
        /\ collection' \in {"waiting", "error", "unavailable", "partial", "complete"}
        /\ awaited' = awaited \/ (collection = "crawl" /\ awaited' = N!Pending)
    BY <1>6 DEF N!CrawlEnds, N!WaitEnds, N!WaitTimesOut, N!Status
  <2>2. awaited' \subseteq due
    BY <2>1 DEF CaptureTypes, N!Pending, N!In
  <2>3. Used' = Used
    BY <2>1 DEF N!In
  <2>4. N!Reserved' <= Slots
    BY <1>2, <2>1, <2>3
  <2> QED
    BY Zenon, <2>1, <2>2, <2>4 DEF CaptureTypes
<1>7. CASE UNCHANGED N!vars
  <2>1. UNCHANGED <<collection, capture, errors, dropped, awaited, due>>
    BY <1>7 DEF N!vars
  <2>2. Used' = Used
    BY <2>1 DEF N!In
  <2>3. N!Reserved' <= Slots
    BY <1>2, <2>1, <2>2
  <2> QED
    BY Zenon, <2>1, <2>3 DEF CaptureTypes
<1> QED
  BY <1>3, <1>4, <1>5, <1>6, <1>7 DEF N!Next

LEMMA CapturesTyped == CaptureInv /\ CaptureTypes => N!TypeOK
<1> SUFFICES ASSUME CaptureInv, CaptureTypes PROVE N!TypeOK
  OBVIOUS
<1>1. N!Reserved \in Nat
  BY ReservedIsCounted, ResponsesAssumption DEF CaptureTypes
<1>2. N!Reserved \in 0..Slots
  BY <1>1, SlotsAssumption DEF CaptureTypes
<1> QED
  BY <1>2 DEF CaptureInv, CaptureTypes, N!TypeOK

\* Crawl: rules are read of origins of pages, and what is under way still has
\* room for a page.
Moving == {"request", "answer", "fails"}
CrawlBounds ==
  /\ observed \in Nat /\ observed <= MaxPages /\ Len(queue) <= MaxPages
  /\ phase \in Moving => observed < MaxPages
CrawlPlaces ==
  /\ expired \in BOOLEAN /\ analyzed \in BOOLEAN
  /\ phase \in {"robots", "next", "request", "answer", "fails", "links", "candidates"} \/ C!Over
  /\ home \in {Origin[p] : p \in Pages} /\ loaded \subseteq {Origin[p] : p \in Pages}
  /\ \A p \in forbidden : Origin[p] \in loaded
  /\ flags \subseteq C!Flags

LEMMA CrawlTypesStart == C!Init => CrawlBounds /\ CrawlPlaces
<1> SUFFICES ASSUME C!Init PROVE CrawlBounds /\ CrawlPlaces
  OBVIOUS
<1>1. observed = 0 /\ queue = <<FirstPage>> /\ phase \in {"robots", "next"}
  BY DEF C!Init
<1>2. CrawlBounds
  BY <1>1, BudgetAssumption DEF CrawlBounds, Moving
<1>3. CrawlPlaces
  BY PagesAssumption DEF C!Init, CrawlPlaces
<1> QED
  BY <1>2, <1>3

\* Few steps count pages or touch the queue.
LEMMA CrawlStaysBounded ==
  ASSUME TrackerInv, CrawlBounds, [C!Next]_(C!vars)
  PROVE  CrawlBounds'
<1>1. /\ queue \in Seq(Pages) /\ Len(queue) \in Nat /\ observed \in Nat /\ MaxPages \in Nat
      /\ observed <= MaxPages /\ Len(queue) <= MaxPages
  BY BudgetAssumption DEF TrackerInv, CrawlTypes, CrawlBounds
<1>2. CASE C!Take
  <2>1. queue # <<>> /\ queue' = Tail(queue) /\ observed' = observed /\ observed < MaxPages
    BY <1>2 DEF C!Take
  <2>2. Len(queue') = Len(queue) - 1
    BY <1>1, <2>1
  <2> QED
    BY <1>1, <2>1, <2>2 DEF CrawlBounds
<1>3. CASE C!Fail \/ C!Arrive
  <2>1. /\ UNCHANGED queue /\ phase' \notin Moving /\ phase \in Moving
        /\ observed' = observed \/ observed' = observed + 1
    BY <1>3 DEF C!Fail, C!Arrive, Moving
  <2>2. observed < MaxPages
    BY <2>1 DEF CrawlBounds
  <2>3. observed' \in Nat /\ observed' <= MaxPages
    BY <1>1, <2>1, <2>2
  <2> QED
    BY <1>1, <2>1, <2>3 DEF CrawlBounds
<1>4. CASE C!Candidate
  <2>1. observed' = observed /\ phase' \in {"candidates", "next"}
    BY <1>4 DEF C!Candidate
  <2>2. queue' = queue \/ (~C!OverBudget /\ \E p \in Pages : queue' = Append(queue, p))
    <3>1. CASE hrefs = <<>>
      BY <1>4, <3>1 DEF C!Candidate
    <3>2. CASE hrefs # <<>>
      <4>1. Head(hrefs) \in Pages
        BY <3>2 DEF TrackerInv, CrawlTypes
      <4> QED
        BY <1>4, <3>2, <4>1 DEF C!Candidate, C!LeftOut, C!Refused
    <3> QED
      BY <3>1, <3>2
  <2>3. Len(queue') <= MaxPages
    BY <1>1, <2>2 DEF C!OverBudget
  <2> QED
    BY <1>1, <2>1, <2>3 DEF CrawlBounds, Moving
<1>5. CASE \/ C!ReadRobots \/ C!Request \/ C!Frame \/ C!Redirected \/ C!Unanswered \/ C!Collapse
           \/ C!Extract \/ C!Finish \/ C!DeadlinePasses \/ UNCHANGED C!vars
  <2>1. UNCHANGED <<observed, queue>> /\ (phase' \in Moving => phase \in Moving)
    BY <1>5 DEF C!ReadRobots, C!Request, C!Frame, C!Redirected, C!Unanswered, C!Collapse, C!Extract,
                C!Finish, C!DeadlinePasses, C!vars, Moving
  <2> QED
    BY <1>1, <2>1 DEF CrawlBounds
<1> QED
  BY <1>2, <1>3, <1>4, <1>5 DEF C!Next

\* The rules of an origin are read for a page of it.
LEMMA RulesAreOfPages ==
  ASSUME CrawlPlaces, NEW p \in Pages, NEW sent, C!Document(p, sent)
  PROVE  /\ loaded' \subseteq {Origin[q] : q \in Pages} /\ flags' \subseteq C!Flags
         /\ \A q \in forbidden' : Origin[q] \in loaded'
<1>1. /\ \/ UNCHANGED <<loaded, forbidden>> \/ C!Policy(Origin[p])
      /\ flags' \subseteq flags \cup C!Flags
  BY DEF C!Document, C!Sent, C!Blocked, C!policies, C!Flags
<1> QED
  BY <1>1 DEF CrawlPlaces, C!Policy

LEMMA CrawlStaysPlaced ==
  ASSUME TrackerInv, CrawlPlaces, [C!Next]_(C!vars)
  PROVE  CrawlPlaces'
<1> DEFINE Phases == {"robots", "next", "request", "answer", "fails", "links", "candidates",
                      "refused", "error", "unavailable", "partial", "complete"}
<1>0. phase \in Phases /\ (phase' \in Phases =>
        phase' \in {"robots", "next", "request", "answer", "fails", "links", "candidates"} \/ C!Over')
  BY DEF CrawlPlaces, C!Over
<1>1. CASE C!ReadRobots
  <2>1. /\ UNCHANGED <<home, expired, analyzed>> /\ phase' \in Phases
        /\ UNCHANGED <<loaded, forbidden>> \/ C!Policy(home)
        /\ flags' \subseteq flags \cup {"unavailable", "restricted"}
    BY <1>1 DEF C!ReadRobots, C!policies
  <2> QED
    BY <1>0, <2>1 DEF CrawlPlaces, C!Policy, C!Flags
<1>2. CASE C!Request \/ C!Frame
  <2>1. UNCHANGED <<home, expired, analyzed>> /\ phase' \in Phases
    BY <1>0, <1>2 DEF C!Request, C!Frame
  <2>2. \E p \in Pages : \E sent : C!Document(p, sent)
    BY <1>2 DEF C!Request, C!Frame, TrackerInv, CrawlTypes
  <2> QED
    BY Zenon, <1>0, <2>1, <2>2, RulesAreOfPages DEF CrawlPlaces
<1>3. CASE C!Arrive
  <2>1. phase' \in Phases /\ UNCHANGED <<expired, loaded, forbidden>> /\ url \in Pages
    BY <1>3 DEF C!Arrive, C!policies, TrackerInv, CrawlTypes
  <2>2. flags' \subseteq C!Flags
    BY <1>3 DEF C!Arrive, CrawlPlaces, C!Flags, C!tracker
  <2>3. analyzed' \in BOOLEAN
    BY Zenon, <1>3 DEF C!Arrive, CrawlPlaces
  <2>4. home' \in {Origin[p] : p \in Pages}
    BY <1>3, <2>1 DEF C!Arrive, C!NewHome, CrawlPlaces
  <2> QED
    BY Zenon, <1>0, <2>1, <2>2, <2>3, <2>4 DEF CrawlPlaces
<1>4. CASE C!Candidate
  <2>1. /\ UNCHANGED <<home, expired, analyzed, loaded, forbidden>> /\ phase' \in Phases
        /\ flags' \subseteq flags \cup {"restricted", "budget"}
    <3>1. CASE hrefs = <<>>
      BY <1>4, <3>1 DEF C!Candidate, C!policies
    <3>2. CASE hrefs # <<>>
      <4>1. flags' \subseteq flags \cup {"restricted", "budget"}
        BY <1>4, <3>2 DEF C!Candidate, C!LeftOut, C!Refused
      <4> QED
        BY <1>0, <1>4, <3>2, <4>1 DEF C!Candidate, C!policies
    <3> QED
      BY <3>1, <3>2
  <2> QED
    BY <1>0, <2>1 DEF CrawlPlaces, C!Flags
<1>5. CASE C!Extract \/ C!Finish
  <2>1. /\ UNCHANGED <<home, expired, analyzed, loaded, forbidden>> /\ phase' \in Phases
        /\ flags' \subseteq flags \cup {"unread", "budget"}
    BY <1>5 DEF C!Extract, C!Finish, C!policies
  <2> QED
    BY <1>0, <2>1 DEF CrawlPlaces, C!Flags
<1>6. CASE C!Take \/ C!Redirected \/ C!Unanswered \/ C!Fail \/ C!Collapse
  <2>1. UNCHANGED <<home, expired, analyzed, loaded, forbidden, flags>> /\ phase' \in Phases
    BY <1>0, <1>6 DEF C!Take, C!Redirected, C!Unanswered, C!Fail, C!Collapse, C!policies
  <2> QED
    BY <1>0, <2>1 DEF CrawlPlaces
<1>7. CASE C!DeadlinePasses \/ UNCHANGED C!vars
  <2>1. UNCHANGED <<phase, home, analyzed, loaded, forbidden, flags>> /\ (expired' = expired \/ expired' = TRUE)
    BY <1>7 DEF C!DeadlinePasses, C!vars, C!policies
  <2>2. expired' \in BOOLEAN
    BY Zenon, <2>1 DEF CrawlPlaces
  <2>3. phase' \in Phases
    BY <1>0, <2>1
  <2> QED
    BY Zenon, <1>0, <2>1, <2>2, <2>3 DEF CrawlPlaces
<1> QED
  BY <1>1, <1>2, <1>3, <1>4, <1>5, <1>6, <1>7 DEF C!Next

LEMMA CrawlTyped == CrawlInv /\ TrackerInv /\ CrawlBounds /\ CrawlPlaces => C!TypeOK
<1> SUFFICES ASSUME CrawlInv, TrackerInv, CrawlBounds, CrawlPlaces PROVE C!TypeOK
  OBVIOUS
<1>1. observed \in 0..MaxPages /\ Len(queue) <= MaxPages
  BY BudgetAssumption DEF CrawlBounds
<1> QED
  BY Zenon, <1>1 DEF CrawlInv, TrackerInv, CrawlTypes, CrawlPlaces, C!TypeOK

---------------------------------------------------------------------------
(* The parts of Components.                                                *)

NetInv ==
  /\ part = "network" => HonestInv /\ ProxyInv /\ stage \in Stages
  /\ part = "crawl" => CrawlInv /\ TrackerInv /\ QueueInv /\ CrawlBounds /\ CrawlPlaces
  /\ part = "captures" => CaptureInv /\ CaptureTypes
  /\ part = "fetch" => FetchInv /\ TextInv /\ FetchTypes
  /\ part = "readers" => ReadingInv /\ K!TypeOK
  /\ part = "services" => ServiceInv /\ T!TypeOK
  /\ part = "matching" => ComparisonInv

\* Each part makes its own steps.
LEMMA PartsMove ==
  ASSUME [Next]_vars
  PROVE  /\ part' = part
         /\ part = "network" => [A!Next]_(A!vars)
         /\ part = "crawl" => [C!Next]_(C!vars)
         /\ part = "captures" => [N!Next]_(N!vars)
         /\ part = "fetch" => [B!Next]_(B!vars)
         /\ part # "network" => UNCHANGED A!vars
         /\ part = "readers" => [K!Next]_reading
         /\ part = "services" => [T!Next]_(T!decisionVars)
         /\ part = "matching" => [V!Next]_comparison
<1> USE DEF vars, requestVars, auditVars, webVars, networkVars, crawlVars, captureVars,
            fetchVars, siteVars, serviceVars
<1>1. part' = part
  BY Zenon DEF Next
<1>2. part = "network" => [A!Next]_(A!vars)
  BY Zenon DEF Next, A!vars
<1>3. part = "crawl" => [C!Next]_(C!vars)
  BY Zenon DEF Next, C!vars
<1>4. part = "captures" => [N!Next]_(N!vars)
  BY Zenon DEF Next, N!vars
<1>5. part = "fetch" => [B!Next]_(B!vars)
  BY Zenon DEF Next, B!vars
<1>6. part # "network" => UNCHANGED A!vars
  BY Zenon DEF Next, A!vars
<1>7. part = "readers" => [K!Next]_reading
  BY Zenon DEF Next
<1>8. part = "services" => [T!Next]_(T!decisionVars)
  BY Zenon DEF Next, T!decisionVars
<1>9. part = "matching" => [V!Next]_comparison
  BY Zenon DEF Next
<1> QED
  BY Zenon, <1>1, <1>2, <1>3, <1>4, <1>5, <1>6, <1>7, <1>8, <1>9

LEMMA NetStarts == Init => NetInv
<1> SUFFICES ASSUME Init PROVE NetInv
  OBVIOUS
<1>1. A!Init /\ C!Init /\ N!Init /\ B!Init /\ K!Init /\ T!Init /\ V!Init
  BY Zenon DEF Init
<1> QED
  BY <1>1, HonestStarts, ProxyStarts, StagesStart, CrawlStarts, TrackerStarts, QueueStarts, CrawlTypesStart,
     CapturesStart, CaptureTypesStart, FetchStarts, TextStarts, FetchTypesStart,
     ReadingStarts, ComparedTyped, ServicesStart, ServicesTypedAtFirst, ComparisonStarts
  DEF NetInv

LEMMA NetSteps ==
  ASSUME NetInv, [Next]_vars
  PROVE  NetInv'
<1>1. part' = part
  BY Zenon, PartsMove
<1>2. CASE part = "network"
  BY <1>1, <1>2, PartsMove, HonestSteps, ProxySteps, StagesSteps DEF NetInv, HonestInv
<1>3. CASE part = "crawl"
  BY <1>1, <1>3, PartsMove, CrawlSteps, TrackerSteps, QueueSteps, CrawlStaysBounded,
     CrawlStaysPlaced DEF NetInv
<1>4. CASE part = "captures"
  BY <1>1, <1>4, PartsMove, CaptureSteps, CaptureTypesSteps DEF NetInv
<1>5. CASE part = "fetch"
  BY <1>1, <1>5, PartsMove, FetchSteps, TextSteps, FetchTypesSteps DEF NetInv
<1>6. CASE part = "readers"
  BY <1>1, <1>6, PartsMove, ReadingSteps, ComparedStays DEF NetInv
<1>7. CASE part = "services"
  BY <1>1, <1>7, PartsMove, ServiceSteps, ServicesStayTyped DEF NetInv
<1>8. CASE part = "matching"
  BY <1>1, <1>8, PartsMove, ComparisonSteps DEF NetInv
<1>9. CASE part \notin {"network", "crawl", "captures", "fetch", "readers", "services", "matching"}
  BY Zenon, <1>1, <1>9 DEF NetInv
<1> QED
  BY Zenon, <1>2, <1>3, <1>4, <1>5, <1>6, <1>7, <1>8, <1>9

\* The types of these parts follow.
LEMMA NetTyped ==
  ASSUME NetInv
  PROVE  /\ part = "network" => A!TypeOK
         /\ part = "crawl" => C!TypeOK
         /\ part = "captures" => N!TypeOK
         /\ part = "fetch" => B!TypeOK
         /\ part = "readers" => K!TypeOK
         /\ part = "services" => T!TypeOK
         /\ part = "matching" => V!TypeOK
BY Zenon, NetworkTyped, CrawlTyped, CapturesTyped, FetchTyped, MatchingTyped DEF NetInv

LEMMA NetInvHolds == Spec => []NetInv
BY NetStarts, NetSteps, PTL DEF Spec

\* fetchPublicResource: whatever DNS answers and wherever redirects lead, a
\* connection is made only to an address that was checked.
THEOREM FetchesAreChecked == Spec => []ConnectionsAreChecked
<1>1. NetInv => ConnectionsAreChecked
  BY DEF NetInv, FetchInv, ConnectionsAreChecked
<1> QED
  BY <1>1, NetInvHolds, PTL

\* requestPolicy and runBrowserScan: what the route handler of a public audit
\* lets through is allowed by rules that were read, and so is what the audit
\* still means to navigate to, wherever redirects, which the handler does not
\* see, have taken it.
THEOREM CrawlsKeepRobots == Spec => []RobotsAreKept
<1>1. NetInv => RobotsAreKept
  BY DEF NetInv, CrawlInv, Allowed, QueueInv, RobotsAreKept, C!PublicAuditsKeepRobots
<1> QED
  BY <1>1, NetInvHolds, PTL

\* The budget ledger and the proxy: whatever browser, proxy and probes do, the
\* lookups, the bytes and the connections, on https each a TLS connection, stay
\* within the profile of the audit, and so does each transport within its
\* limits of requests.
THEOREM AuditsKeepTheirBudget == Spec => []TrafficWithinProfile
<1>1. NetInv => TrafficWithinProfile
  BY BudgetKept DEF NetInv, HonestInv, TrafficWithinProfile
<1> QED
  BY <1>1, NetInvHolds, PTL

\* A vulnerability is confirmed, set aside or left open as the versions of the
\* advisory say, four readers of two scans tell one story, and a third party
\* that is confirmed shows its newest snapshot.
THEOREM AnswersStand == Spec => []AnswersAreSound
<1>1. NetInv => AnswersAreSound
  BY Zenon, MatchesAreSound, ReadersTellOneStory, SnapshotsShown DEF NetInv, AnswersAreSound
<1> QED
  BY <1>1, NetInvHolds, PTL

\* A Deep audit whose budget is exhausted begins no lookup and no connection.
THEOREM StoppedAuditsAreSilent == Spec => A!StopIsTerminal
<1>1. NetInv /\ [Next]_vars
      => [A!Stopped => /\ traffic'.dns = traffic.dns
                       /\ traffic'.probed = traffic.probed /\ traffic'.proxied = traffic.proxied]_(A!vars)
  <2> SUFFICES ASSUME NetInv, [Next]_vars, A!Stopped, part = "network"
               PROVE  /\ traffic'.dns = traffic.dns
                      /\ traffic'.probed = traffic.probed /\ traffic'.proxied = traffic.proxied
    BY Zenon, PartsMove
  <2> QED
    BY PartsMove, StopsEndTraffic DEF NetInv, HonestInv
<1> QED
  BY <1>1, NetInvHolds, PTL DEF Spec, A!StopIsTerminal
=============================================================================
