---------------------------- MODULE BoundedFetch ----------------------------
(***************************************************************************)
(* The HTTP requests the worker makes itself, outside the browser: the     *)
(* probe of a site (probeHttpTarget) and the bounded text resources such   *)
(* as robots.txt (fetchBoundedTextResource), both of                       *)
(* apps/worker/src/http-probe.ts, with the check of a target in            *)
(* packages/security/src/index.ts.  They follow redirects: each hop is     *)
(* checked, resolved, and connected to an address that was resolved.       *)
(*                                                                         *)
(* A URL is proper when it is http(s) on its standard port, without        *)
(* credentials and not of a local name.  DNS may answer anything, and      *)
(* something else the next time.                                           *)
(***************************************************************************)
EXTENDS Naturals

CONSTANTS Urls, Proper, Addresses, Public, MaxRedirects, MaxBytes

VARIABLES kind,       \* "probe" or "text"
          step,       \* "check", "connect", "answer", "body", or the outcome
          url, pinned,
          redirects,
          length,     \* of the body, and whether it is declared
          received,
          late,       \* the deadline of the text resource has passed
          connections \* history: the address each connection was made to

vars == <<kind, step, url, pinned, redirects, length, received, late, connections>>
body == <<length, received>>
hop == <<url, redirects>>

NoBody == [bytes |-> 0, declared |-> FALSE]
Nobody == "none"
Init ==
  /\ kind \in {"probe", "text"} /\ step = "check" /\ url \in Urls /\ pinned = Nobody
  /\ redirects = 0 /\ length = NoBody /\ received = 0 /\ late = FALSE /\ connections = {}

Ends(outcome) == step' = outcome

\* assertPublicHttpUrl: one address that is not public spoils the answer.
AnyPublic(answers) == answers \cap Public # {}
AllPublic(answers) == answers # {} /\ answers \subseteq Public
Check ==
  /\ step = "check"
  /\ IF kind = "text" /\ late THEN Ends("timeout") /\ UNCHANGED pinned
     ELSE IF url \notin Proper THEN Ends("unsafe") /\ UNCHANGED pinned
     ELSE \/ Ends("unsafe") /\ UNCHANGED pinned                  \* DNS fails
          \/ \E answers \in SUBSET Addresses :
               IF AllPublic(answers) THEN Ends("connect") /\ pinned' \in answers
               ELSE Ends("unsafe") /\ UNCHANGED pinned
  /\ UNCHANGED <<kind, hop, body, late, connections>>

\* pinnedLookup: the name is not resolved again.  Mutated, it is.
ByName == pinned' \in Addresses
ByPin == UNCHANGED pinned
Connect ==
  /\ step = "connect"
  /\ ByPin /\ connections' = connections \cup {[url |-> url, address |-> pinned']}
  /\ Ends("answer")
  /\ UNCHANGED <<kind, hop, body, late>>

\* requestPinnedTarget or requestPinnedTextTarget fails, or runs out of time.
Broken ==
  /\ step \in {"answer", "body"}
  /\ \/ Ends("network")
     \/ (late \/ kind = "probe") /\ Ends("timeout")
  /\ UNCHANGED <<kind, hop, pinned, body, late, connections>>

\* A redirect with a location; allowRedirect is the caller's.
Redirect ==
  /\ step = "answer"
  /\ \/ Ends("redirect") /\ UNCHANGED hop    \* too many, not a URL, or not allowed
     \/ redirects < MaxRedirects /\ Ends("check") /\ url' \in Urls /\ redirects' = redirects + 1
  /\ UNCHANGED <<kind, pinned, body, late, connections>>

\* The probe reads no body; a text is not read unless it succeeded.
Settle ==
  /\ step = "answer" /\ Ends(IF kind = "probe" THEN "answered" ELSE "refused")
  /\ UNCHANGED <<kind, hop, pinned, body, late, connections>>

Successful ==
  /\ step = "answer" /\ kind = "text"
  /\ length' \in [bytes : 0..MaxBytes+1, declared : BOOLEAN]
  /\ Ends(IF length'.declared /\ length'.bytes > MaxBytes THEN "too large" ELSE "body")
  /\ UNCHANGED <<kind, hop, pinned, received, late, connections>>

\* A piece of the body.  Mutated, what exceeds the limit is cut off.
CutOff == IF received + 1 > MaxBytes THEN Ends("text") /\ UNCHANGED received
          ELSE received' = received + 1 /\ UNCHANGED step
Data == received' = received + 1 /\ IF received' > MaxBytes THEN Ends("too large") ELSE UNCHANGED step
Receive ==
  /\ step = "body" /\ received < length.bytes
  /\ Data
  /\ UNCHANGED <<kind, hop, pinned, length, late, connections>>

\* The end of the stream; one that comes too early is an error (Broken).
EndOfBody ==
  /\ step = "body" /\ received = length.bytes /\ Ends("text")
  /\ UNCHANGED <<kind, hop, pinned, body, late, connections>>

Over == step \notin {"check", "connect", "answer", "body"}
DeadlinePasses ==
  /\ ~Over /\ ~late /\ late' = TRUE
  /\ UNCHANGED <<kind, step, hop, pinned, body, connections>>

Next == Check \/ Connect \/ Broken \/ Redirect \/ Settle \/ Successful \/ Receive \/ EndOfBody
        \/ DeadlinePasses
Spec == Init /\ [][Next]_vars

TypeOK ==
  /\ step \in {"check", "connect", "answer", "body", "unsafe", "timeout", "network", "redirect",
               "answered", "refused", "too large", "text"}
  /\ redirects \in 0..MaxRedirects /\ received \in 0..MaxBytes+1
  /\ connections \subseteq [url : Urls, address : Addresses]

\* Whatever DNS answers, and wherever redirects lead: every connection is made
\* for a proper URL and to a public address.
ConnectionsAreChecked == \A c \in connections : c.url \in Proper /\ c.address \in Public

\* A text that is returned is the whole text, and no longer than allowed.
TextIsWhole == step = "text" => received = length.bytes /\ length.bytes <= MaxBytes
=============================================================================
