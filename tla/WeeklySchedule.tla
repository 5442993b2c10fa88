--------------------------- MODULE WeeklySchedule ---------------------------
(***************************************************************************)
(* The weekly schedule of a site and the cursor to its next run.  People   *)
(* save it by the clock of the database; the coordinator of every worker   *)
(* ticks by its own clock, read once at the beginning of the tick.  The    *)
(* cursor is a moment, the schedule a day and a time on the wall of a      *)
(* place whose clocks are put forward and back; wall time that is skipped  *)
(* or repeated is read as PostgreSQL does.                                 *)
(***************************************************************************)
EXTENDS Naturals, Sequences, FiniteSetsExt

CONSTANTS Workers,    \* worker processes
          Days,       \* days of a week
          Day,        \* length of a day
          Spring,     \* the moment when the clocks are put forward ...
          Fall,       \* ... and back
          Shift,      \* by how much
          Slots,      \* days and times of the day that people choose
          Skew,       \* how far the clock of a worker may be ahead
          MaxTime, MaxSaves   \* bounds

VARIABLES now,        \* the time, and the clock of the database
          row,        \* the row of scan_schedules
          since,      \* history: the moment the cursor was computed from
          tick,       \* the ticks of the workers
          runs,       \* the scans of the schedule, by their scheduled_for
          saves       \* how often people saved the schedule

vars == <<now, row, since, tick, runs, saves>>

Moments == 0..MaxTime + 2 * Days * Day
None == MaxTime + 2 * Days * Day + 1      \* a cursor that is null

-----------------------------------------------------------------------------
(* Time zones.                                                             *)

Wall(t) == IF Spring <= t /\ t < Fall THEN t + Shift ELSE t

\* AT TIME ZONE of a wall time: of two moments the later one, and a time that
\* was skipped by the clock before the change.
Moment(w) ==
  LET meant == {t \in {w - Shift, w} \cap Moments : Wall(t) = w}
  IN  IF meant = {} THEN w ELSE Max(meant)

\* next_weekly_scan_run: the slot of this week, counted from the beginning of
\* the day, if the wall has not reached it, else that of the next week.
LaterOrNow(w, v) == w >= v
Later(w, v) == w > v
NextRun(slot, after) ==
  LET wall == Wall(after)
      weekday == (wall \div Day) % Days
      ahead == ((slot.day + Days) - weekday) % Days
      candidate == (wall - (wall % Day)) + ahead * Day + slot.time
  IN  Moment(IF Later(candidate, wall) THEN candidate ELSE candidate + Days * Day)

-----------------------------------------------------------------------------

NoTick == {}
Init ==
  /\ now = 0 /\ since = 0 /\ saves = 0 /\ runs = <<>>
  /\ row \in [enabled: {TRUE}, slot: Slots, next: {None}]    \* of an older release
  /\ tick = [w \in Workers |-> NoTick]

Pass == /\ now < MaxTime /\ now' = now + 1
        /\ UNCHANGED <<row, since, tick, runs, saves>>

\* setWeeklyScanScheduleForSite, for a site with a proof or to disable it.
Save ==
  /\ saves < MaxSaves /\ saves' = saves + 1
  /\ \E slot \in Slots, enabled \in BOOLEAN :
       row' = [enabled |-> enabled, slot |-> slot,
               next |-> IF enabled THEN NextRun(slot, now) ELSE None]
  /\ since' = now /\ UNCHANGED <<now, tick, runs>>

\* runScheduledScanTick reads the clock ...
Begin(w) ==
  /\ tick[w] = NoTick
  /\ \E ahead \in 0..Skew : tick' = [tick EXCEPT ![w] = {[at |-> now + ahead, pc |-> "initialize"]}]
  /\ UNCHANGED <<now, row, since, runs, saves>>

\* ... computes cursors that are missing ...
Initialize(w) ==
  /\ \E t \in tick[w] :
       /\ t.pc = "initialize" /\ tick' = [tick EXCEPT ![w] = {[t EXCEPT !.pc = "claim"]}]
       /\ IF row.enabled /\ row.next = None
          THEN row' = [row EXCEPT !.next = NextRun(row.slot, t.at)] /\ since' = t.at
          ELSE UNCHANGED <<row, since>>
  /\ UNCHANGED <<now, runs, saves>>

\* ... and claims what is due.  The proof of ownership, of which a module of
\* its own tells, may be lapsed: then the cursor stays for the next tick.  Else
\* it moves on, and a scan is created unless the site has no proof or an active
\* scan, or the slot has its scan (scans_schedule_occurrence_unique).
NotTaken(slot) == FALSE
Taken(slot) == \E i \in DOMAIN runs : runs[i] = slot
Claim(w) ==
  /\ \E t \in tick[w] :
       /\ t.pc = "claim"
       /\ \/ UNCHANGED <<row, since, runs>>
          \/ /\ row.enabled /\ row.next <= t.at
             /\ row' = [row EXCEPT !.next = NextRun(row.slot, t.at)] /\ since' = t.at
             /\ \/ UNCHANGED runs
                \/ ~Taken(row.next) /\ runs' = Append(runs, row.next)
  /\ tick' = [tick EXCEPT ![w] = NoTick]
  /\ UNCHANGED <<now, saves>>

\* The process ends; what its transaction had not committed is undone.
Die(w) == tick[w] # NoTick /\ tick' = [tick EXCEPT ![w] = NoTick]
          /\ UNCHANGED <<now, row, since, runs, saves>>

Next == \/ Pass \/ Save
        \/ \E w \in Workers : Begin(w) \/ Initialize(w) \/ Claim(w) \/ Die(w)

-----------------------------------------------------------------------------

TypeOK ==
  /\ now \in 0..MaxTime /\ since \in 0..MaxTime + Skew /\ saves \in 0..MaxSaves
  /\ row \in [enabled: BOOLEAN, slot: Slots, next: Moments \cup {None}]
  /\ \A w \in Workers : \A t \in tick[w] :
       t.at \in 0..MaxTime + Skew /\ t.pc \in {"initialize", "claim"}
  /\ \A i \in DOMAIN runs : runs[i] \in 0..MaxTime + Skew

\* The cursor is the first slot on the wall after the time it was computed
\* from, and later than that also across the changes of the clocks; a slot has
\* one scan, whichever workers tick, however their clocks differ and whatever
\* people save meanwhile; and scans are created in the order of their slots.
SlotsOf(slot) == {week * Days * Day + slot.day * Day + slot.time : week \in 0..(None \div (Days * Day))}
SlotsRunOnce ==
  /\ row.next # None =>
       /\ row.next > since
       /\ row.next = Moment(Min({s \in SlotsOf(row.slot) : s > Wall(since)}))
  /\ \A i, j \in DOMAIN runs : i < j => runs[i] < runs[j]
=============================================================================
