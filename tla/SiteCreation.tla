---------------------------- MODULE SiteCreation ----------------------------
(***************************************************************************)
(* How a user and an organization get their rows: the onboarding that      *)
(* creates the organization of a user, the creation of single sites, and   *)
(* the import of a file of sites, which is checked and written in one      *)
(* transaction under a lock of the organization.  Single creations and     *)
(* deletions do not take that lock.                                        *)
(***************************************************************************)
EXTENDS Naturals, FiniteSets, Sequences, SequencesExt

CONSTANTS Urls,       \* canonical URLs
          Files,      \* what users upload: sequences of Urls, and Unreadable
          Unreadable, \* a line that is no site
          Calls       \* calls of the three operations

VARIABLES owner,      \* the organizations the user owns, by the call that made them
          sites,      \* the sites of the organization, by their URLs
          events,     \* the rows of site_import_events
          call,       \* the calls and their transactions
          maker       \* history: the call that created each site there ever was

vars == <<owner, sites, events, call, maker>>

\* Where a call holds no transaction.
Outside == {"new", "done", "failed"}
Fresh == [kind |-> "none", pc |-> "new", file |-> <<>>, existing |-> {}]

Init == /\ owner = {} /\ sites = {} /\ events = {} /\ maker = {}
        /\ call = [c \in Calls |-> Fresh]

-----------------------------------------------------------------------------
(* The lines of a file.                                                    *)

\* parseSiteImportCsv: a line is invalid, or ready when its URL comes for the
\* first time, or a duplicate.
Ready(file) == ToSet(file) \ {Unreadable}
Valid(file) == Unreadable \notin ToSet(file)

\* What confirmSiteImport creates: the ready lines of URLs that did not exist.
ToCreate(c) == Ready(call[c].file) \ call[c].existing

-----------------------------------------------------------------------------
(* The transactions.                                                       *)

\* pg_advisory_xact_lock: the locks of a kind exclude each other, that is of
\* the organization for imports and of the user for onboardings.
Unlocked(kind) == FALSE
Locked(kind) == \E c \in Calls : call[c].kind = kind /\ call[c].pc \notin Outside

Go(c, pc) == call' = [call EXCEPT ![c].pc = pc]

\* A member confirms an import: the call waits for the lock; a file with an
\* invalid line is refused.
BeginImport(c) ==
  /\ call[c].pc = "new" /\ owner # {} /\ ~Locked("import")
  /\ \E file \in Files :
       call' = [call EXCEPT ![c].kind = "import", ![c].file = file,
                            ![c].pc = IF Valid(file) THEN "locked" ELSE "failed"]
  /\ UNCHANGED <<owner, sites, events, maker>>

\* The sites that exist are read ...
ReadSites(c) ==
  /\ call[c].kind = "import" /\ call[c].pc = "locked"
  /\ call' = [call EXCEPT ![c].pc = "read", ![c].existing = sites]
  /\ UNCHANGED <<owner, sites, events, maker>>

\* ... then the others are inserted, unless one of them exists by now (the
\* unique index of organization and URL), together with the event.
FinishImport(c) ==
  LET new == ToCreate(c)
  IN  /\ call[c].kind = "import" /\ call[c].pc = "read" /\ UNCHANGED owner
      /\ IF new \cap sites # {}
         THEN Go(c, "failed") /\ UNCHANGED <<sites, events, maker>>
         ELSE /\ Go(c, "done") /\ sites' = sites \cup new
              /\ maker' = maker \cup {<<url, c>> : url \in new}
              /\ events' = events \cup {[by |-> c, imported |-> Cardinality(new),
                              skipped |-> Len(call[c].file) - Cardinality(new)]}

\* createSiteForOrganization: one insert, refused for a URL that exists.
CreateSite(c) ==
  /\ call[c].pc = "new" /\ owner # {} /\ UNCHANGED <<owner, events>>
  /\ \E url \in Urls :
       /\ call' = [call EXCEPT ![c].kind = "create", ![c].file = <<url>>,
                               ![c].pc = IF url \in sites THEN "failed" ELSE "done"]
       /\ sites' = sites \cup {url}
       /\ maker' = IF url \in sites THEN maker ELSE maker \cup {<<url, c>>}

\* deleteSite of site-deletion-service.ts, which takes the row's lock alone.
DeleteSite ==
  /\ \E url \in sites : sites' = sites \ {url}
  /\ UNCHANGED <<owner, events, call, maker>>

\* createInitialOrganizationForUser: the lock of the user, then whether there
\* is a membership, then organization and membership.
BeginOnboarding(c) ==
  /\ call[c].pc = "new" /\ ~Locked("onboard")
  /\ call' = [call EXCEPT ![c].kind = "onboard",
                          ![c].pc = IF owner = {} THEN "read" ELSE "failed"]
  /\ UNCHANGED <<owner, sites, events, maker>>
FinishOnboarding(c) ==
  /\ call[c].kind = "onboard" /\ call[c].pc = "read"
  /\ Go(c, "done") /\ owner' = owner \cup {c}
  /\ UNCHANGED <<sites, events, maker>>

\* The connection or the process is lost, and with it what was not committed.
Abort(c) ==
  /\ call[c].pc \notin Outside /\ Go(c, "failed")
  /\ UNCHANGED <<owner, sites, events, maker>>

Next ==
  \/ DeleteSite
  \/ \E c \in Calls : \/ BeginImport(c) \/ ReadSites(c) \/ FinishImport(c) \/ CreateSite(c)
                      \/ BeginOnboarding(c) \/ FinishOnboarding(c) \/ Abort(c)

Spec == Init /\ [][Next]_vars

-----------------------------------------------------------------------------

TypeOK ==
  /\ owner \subseteq Calls /\ sites \subseteq Urls /\ maker \subseteq Urls \X Calls
  /\ \A e \in events : e \in [by: Calls, imported: Nat, skipped: Nat]
  /\ \A c \in Calls : /\ call[c].kind \in {"none", "import", "create", "onboard"}
                      /\ call[c].pc \in Outside \cup {"locked", "read"}
                      /\ call[c].file \in Files \cup {<<url>> : url \in Urls} \cup {<<>>}
                      /\ call[c].existing \subseteq Urls

\* An import leaves a true record, whatever is created and deleted beside it.
\* One that failed has created nothing and left no event; the event of one
\* that succeeded counts the sites it created, and the other lines as skipped.
ImportsAreRecorded ==
  \A c \in {d \in Calls : call[d].kind = "import"} :
    LET made == {url \in Urls : <<url, c>> \in maker}
        recorded == {e \in events : e.by = c}
    IN  IF call[c].pc = "done"
        THEN recorded = {[by |-> c, imported |-> Cardinality(made),
                          skipped |-> Len(call[c].file) - Cardinality(made)]}
        ELSE recorded = {} /\ made = {}

\* What the locks are for: no import fails because of another one, but only
\* because of a site created alone while it ran; and a user who calls twice
\* owns one organization.
LocksHold ==
  /\ Cardinality(owner) <= 1
  /\ \A c \in Calls : call[c].kind = "import" /\ call[c].pc = "read" =>
       \A url \in ToCreate(c) \cap sites :
         \E d \in Calls : call[d].kind = "create" /\ <<url, d>> \in maker
=============================================================================
