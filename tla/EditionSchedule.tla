---------------------------- MODULE EditionSchedule ----------------------------
(***************************************************************************)
(* Which editions there are and what is in them: the times of the schedule *)
(* in a time zone (src/src/scheduler/schedule.ts), the runs the schedulers *)
(* of several processes insert (digest-scheduler.ts), the runs asked for   *)
(* on demand, and the choice of top stories that were not in the edition   *)
(* before (src/src/ingestion/top-stories.ts).                              *)
(*                                                                         *)
(* Time is counted in hours of UTC, from a midnight; a zone adds an offset *)
(* to it, which may change once.  A wall time is the hours since the local *)
(* midnight of day 0.  What a run goes through is DigestPipeline's; here   *)
(* it is pending, collected, and complete or failed.                       *)
(***************************************************************************)
EXTENDS Integers, Sequences, FiniteSets, SequencesExt

CONSTANTS
    Schedulers,
    Zones,             \* functions from hours to offsets
    Hours,             \* the hours Zones are defined for
    DayHours,          \* hours of a day
    EditionTimes,      \* hours of the day, as configured
    LookBackDays,      \* a week in the code
    MissedRunGrace,
    TopStories,        \* the ranking, a sequence of stories
    StoryCount,
    Gone,              \* the sets of stories that may be unavailable
    FirstHour, LastHour   \* bounds of the clock

ASSUME ScheduleAssumption ==
    /\ {DayHours, MissedRunGrace, StoryCount} \subseteq Nat \ {0}
    /\ LookBackDays \in Nat /\ MissedRunGrace <= LookBackDays * DayHours
    /\ EditionTimes \subseteq 0 .. DayHours - 1
    /\ Hours \subseteq Int /\ FirstHour .. LastHour \subseteq Hours
    /\ FirstHour \in Hours /\ LastHour \in Int /\ FirstHour <= LastHour
    /\ TopStories \in Seq(ToSet(TopStories))
    /\ \A z \in Zones : DOMAIN z = Hours /\ \A h \in Hours : z[h] \in Int

VARIABLES
    zone,
    clock,
    scheduler,    \* by process, what its tick is about to do
    editions,     \* scheduled runs by slot, a day and a time
    demand        \* requests for a run on demand: one waits, one run may be active

scheduleVars == <<zone, clock, scheduler, editions, demand>>

-----------------------------------------------------------------------------
(* schedule.ts                                                             *)

Wall(hour) == hour + zone[hour]

DayOf(wall) == wall \div DayHours

Slot(day, time) == <<day, time>>

WallOf(slot) == slot[1] * DayHours + slot[2]

Rounds == 0 .. 3

\* localDateTimeToUtc: the wall time as if it were UTC, then moved by what the
\* clocks there are wrong
Guesses(wall) ==
    LET guess[n \in Rounds] ==
            IF n = 0 THEN wall ELSE guess[n - 1] + wall - Wall(guess[n - 1])
    IN  guess

\* without one, the RangeError
Exact(wall) ==
    {n \in Rounds : Guesses(wall)[n] \in Hours /\ Wall(Guesses(wall)[n]) = wall}

ToUtc(wall) == Guesses(wall)[CHOOSE n \in Exact(wall) : \A m \in Exact(wall) : n <= m]

\* mutant: only today's times are looked at
RecentSlotsToday == {Slot(DayOf(Wall(clock)), t) : t \in EditionTimes}

RecentSlots ==
    {Slot(DayOf(Wall(clock)) - back, t) : back \in 0 .. LookBackDays, t \in EditionTimes}

NoSuchTime == \E slot \in RecentSlots : Exact(WallOf(slot)) = {}

EligibleSlots ==
    {slot \in RecentSlots : clock - ToUtc(WallOf(slot)) \in 0 .. MissedRunGrace}

LatestSlot == CHOOSE slot \in EligibleSlots : \A other \in EligibleSlots :
                  ToUtc(WallOf(other)) <= ToUtc(WallOf(slot))

-----------------------------------------------------------------------------

\* before: the editions that were complete when this one was collected
Edition == [status : {"pending", "collected", "complete", "failed"},
            for : Hours, stories : SUBSET ToSet(TopStories),
            before : SUBSET (Int \X EditionTimes)]

Ticks == [at : {"idle", "insert", "find", "scheduled", "none", "thrown"},
          slot : Int \X (EditionTimes \cup {0}), read : Hours]

ScheduleTypeOK ==
    /\ zone \in Zones /\ clock \in FirstHour .. LastHour
    /\ scheduler \in [Schedulers -> Ticks]
    /\ DOMAIN editions \subseteq Int \X EditionTimes
    /\ \A e \in DOMAIN editions :
          /\ editions[e] \in Edition
          /\ Cardinality(editions[e].stories) <= StoryCount
    /\ demand \in [active : BOOLEAN, at : {"idle", "refused", "answered", "error"},
                   ended : BOOLEAN]

Done(outcome, read) == [at |-> outcome, slot |-> Slot(0, 0), read |-> read]

ScheduleInit ==
    /\ zone \in Zones
    /\ clock = FirstHour
    /\ scheduler = [s \in Schedulers |-> Done("idle", FirstHour)]
    /\ editions = <<>>
    /\ demand = [active |-> FALSE, at |-> "idle", ended |-> FALSE]

HourPasses ==
    /\ clock < LastHour
    /\ clock' = clock + 1
    /\ UNCHANGED <<zone, scheduler, editions, demand>>

\* the slot is looked for with the time read when the tick began
BeginTick(s) ==
    /\ scheduler[s].at \notin {"insert", "find"}
    /\ scheduler' = [scheduler EXCEPT ![s] =
          IF NoSuchTime THEN Done("thrown", clock)
          ELSE IF EligibleSlots = {} THEN Done("none", clock)
          ELSE [at |-> "insert", slot |-> LatestSlot, read |-> clock]]
    /\ UNCHANGED <<zone, clock, editions, demand>>

\* the schedule key is unique
IsNew(slot) == slot \notin DOMAIN editions

InsertRun(s) ==
    LET slot == scheduler[s].slot
        run  == [status |-> "pending", for |-> ToUtc(WallOf(slot)),
                 stories |-> {}, before |-> {}]
    IN
    /\ scheduler[s].at = "insert"
    /\ editions' = IF IsNew(slot)
                   THEN [e \in DOMAIN editions \cup {slot} |->
                            IF e = slot THEN run ELSE editions[e]]
                   ELSE editions
    /\ scheduler' = [scheduler EXCEPT ![s] =
          IF IsNew(slot) THEN Done("scheduled", @.read) ELSE [@ EXCEPT !.at = "find"]]
    /\ UNCHANGED <<zone, clock, demand>>

FindRun(s) ==
    /\ scheduler[s].at = "find"
    /\ scheduler[s].slot \in DOMAIN editions
    /\ scheduler' = [scheduler EXCEPT ![s] = Done("scheduled", @.read)]
    /\ UNCHANGED <<zone, clock, editions, demand>>

-----------------------------------------------------------------------------
(* top-stories.ts                                                          *)

Complete == {e \in DOMAIN editions : editions[e].status = "complete"}

\* mutant: the stories of the edition that was completed at last, even a later
PreviousAny(edition) == Complete \ {edition}

PreviousEditions(edition) ==
    {e \in Complete : editions[e].for < editions[edition].for}

Excluded(edition) ==
    LET previous == PreviousEditions(edition) IN
    IF previous = {} THEN {}
    ELSE editions[CHOOSE e \in previous : \A o \in previous :
                     editions[o].for <= editions[e].for].stories

\* down the ranking, past those that are excluded, gone or too little discussed
Chosen(edition, gone) ==
    LET free == {i \in DOMAIN TopStories :
                    TopStories[i] \notin Excluded(edition) \cup gone}
    IN  {TopStories[i] : i \in {k \in free : Cardinality(free \cap 1 .. k) <= StoryCount}}

CollectEdition(edition) ==
    /\ editions[edition].status = "pending"
    /\ \E gone \in Gone :
          editions' = [editions EXCEPT ![edition].status = "collected",
                          ![edition].stories = Chosen(edition, gone),
                          ![edition].before = Complete]
    /\ UNCHANGED <<zone, clock, scheduler, demand>>

\* complete stands for partial, too
EndEdition(edition) ==
    /\ editions[edition].status = "collected"
    /\ \E status \in {"complete", "failed"} :
          editions' = [editions EXCEPT ![edition].status = status]
    /\ UNCHANGED <<zone, clock, scheduler, demand>>

\* createRun: one run on demand is active at most
AskForRun ==
    /\ demand.at \in {"idle", "answered", "error"}
    /\ demand' = IF demand.active THEN [demand EXCEPT !.at = "refused", !.ended = FALSE]
                 ELSE [active |-> TRUE, at |-> "answered", ended |-> FALSE]
    /\ UNCHANGED <<zone, clock, scheduler, editions>>

FoundActiveRun == [demand EXCEPT !.at = IF demand.active THEN "answered" ELSE "error"]

\* the run that was in the way is named to who asked, if it still is
FindActiveRun ==
    /\ demand.at = "refused"
    /\ demand' = FoundActiveRun
    /\ UNCHANGED <<zone, clock, scheduler, editions>>

EndRunOnDemand ==
    /\ demand.active
    /\ demand' = [demand EXCEPT !.active = FALSE, !.ended = TRUE]
    /\ UNCHANGED <<zone, clock, scheduler, editions>>

ScheduleNext ==
    \/ HourPasses
    \/ \E s \in Schedulers : BeginTick(s) \/ InsertRun(s) \/ FindRun(s)
    \/ \E e \in DOMAIN editions : CollectEdition(e) \/ EndEdition(e)

DemandNext == AskForRun \/ FindActiveRun \/ EndRunOnDemand

ScheduleSpec == ScheduleInit /\ [][ScheduleNext \/ DemandNext]_scheduleVars

-----------------------------------------------------------------------------

\* the hours of an interval at which clocks show an edition's time
EditionHours(from, to) == {h \in from .. to : Wall(h) % DayHours \in EditionTimes}

SlotAt(hour) == Slot(DayOf(Wall(hour)), Wall(hour) % DayHours)

DueEditions(read) == EditionHours(read - MissedRunGrace + 1, read)

LastEdition(read) ==
    SlotAt(CHOOSE h \in DueEditions(read) : \A o \in DueEditions(read) : o <= h)

IsShownAgain(slot, read) ==
    \E h \in EditionHours(read + 1, read + DayHours) : SlotAt(h) = slot

\* a time of the week before
IsNeverShown(read) ==
    \E back \in 0 .. LookBackDays, t \in EditionTimes : \A h \in Hours :
        Wall(h) # WallOf(Slot(DayOf(Wall(read)) - back, t))

\* Once a scheduler has looked, there is a run for the last edition that was
\* due within the grace period, across midnight and the change of clocks; it
\* fails only in the week after a time the clocks there never showed.
EditionsAreScheduled ==
    \A s \in Schedulers :
        LET read == scheduler[s].read IN
        /\ scheduler[s].at \in {"scheduled", "none"} /\ DueEditions(read) # {}
              => LastEdition(read) \in DOMAIN editions \/ IsShownAgain(LastEdition(read), read)
        /\ scheduler[s].at = "thrown" => IsNeverShown(read)

\* What the clocks of a zone show differs from UTC by no more than an hour more
\* at one time than at another, and Hours has every hour that is looked at.
SteadyClocks ==
    \A z \in Zones :
        /\ \A g, h \in Hours : z[g] - z[h] \in -1 .. 1
        /\ \A read \in FirstHour .. LastHour :
              /\ read - MissedRunGrace + 1 .. read \subseteq Hours
              /\ \A back \in 0 .. LookBackDays, t \in EditionTimes :
                    LET wall == WallOf(Slot(DayOf(read + z[read]) - back, t)) IN
                    wall \in Hours /\ wall - z[wall] \in Hours

\* A run is for the hour its slot names there, is not begun before that hour,
\* and there are no two for the same hour.
RunsAreInTime ==
    \A e \in DOMAIN editions :
        /\ Wall(editions[e].for) = WallOf(e)
        /\ editions[e].for <= clock
        /\ \A o \in DOMAIN editions : editions[o].for = editions[e].for => o = e

\* An edition has no story of the one before it: of the latest of those that
\* are for an earlier hour and were complete when the stories were chosen, also
\* if schedulers were slow and editions were collected out of order.
NoStoryTwiceInARow ==
    \A e \in DOMAIN editions : \A b \in editions[e].before :
        (/\ editions[b].for < editions[e].for
         /\ \A o \in editions[e].before :
               editions[o].for \notin editions[b].for + 1 .. editions[e].for - 1)
            => editions[e].stories \cap editions[b].stories = {}

\* A scheduled run is begun once: it is never set back, and never forgotten.
RunsAreKept ==
    [][\A e \in DOMAIN editions :
          /\ e \in DOMAIN editions'
          /\ editions[e].status # "pending" =>
                editions'[e].status # "pending"
                /\ editions'[e].stories = editions[e].stories]_scheduleVars

\* A request on demand is turned down without naming the run in its way only
\* if that run ended meanwhile.
RefusalsNameTheRun == demand.at = "error" => demand.ended

\* Every edition is made once and for its hour, and whoever asks for a run that
\* is there is told of it (ensureScheduledDigestRun, createRun).
EditionsAreMade ==
    /\ [](ScheduleTypeOK /\ EditionsAreScheduled /\ RunsAreInTime /\ RefusalsNameTheRun)
    /\ RunsAreKept

==============================================================================
