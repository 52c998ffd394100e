----------------------- MODULE EditionsAndLimits_proofs ------------------------
(*****************************************************************************)
(* Proofs about what goes by the clock: the editions there are, for any      *)
(* zones, times and rankings, any number of schedulers and any bounds of     *)
(* the clock, and the limits on requests, for any requests, identities,      *)
(* limits and windows.                                                       *)
(*                                                                           *)
(* A row of a limit that a request has written and not committed is locked,  *)
(* so what is committed for that identity stays what the request read: its   *)
(* count is one more, or the first of a window that ends later than any      *)
(* that was counted in.  The second needs that a transaction is shorter      *)
(* than a window: a request that works with an old time opens a window that  *)
(* is not over, whereas those of the rows that were deleted are.             *)
(*****************************************************************************)
EXTENDS EditionSchedule, RequestLimits, FiniteSetTheorems, WellFoundedInduction, TLAPS

Slots == Int \X EditionTimes

\* A slot a run may be inserted for: its time was shown, and has come.
IsDue(slot) ==
    /\ slot \in Slots
    /\ Exact(WallOf(slot)) # {}
    /\ ToUtc(WallOf(slot)) <= clock

-----------------------------------------------------------------------------
(* Time.                                                                   *)

LEMMA LeastOfNaturals ==
    ASSUME NEW B, B \subseteq Nat, B # {}
    PROVE  \E m \in B : \A n \in B : m <= n
<1>1. PICK m \in B : \A n \in B : ~ (<<n, m>> \in OpToRel(<, Nat))
  BY NatLessThanWellFounded, WFMin
<1>2. \A n \in B : ~ (n < m)
  BY <1>1 DEF OpToRel
<1> QED
  BY <1>2

LEMMA ClockIsHour ==
    ASSUME ScheduleTypeOK
    PROVE  /\ clock \in Hours /\ clock \in Int
           /\ Wall(clock) \in Int
<1>1. clock \in Hours /\ clock \in Int
  BY ScheduleAssumption DEF ScheduleTypeOK
<1>2. zone[clock] \in Int
  BY <1>1, ScheduleAssumption DEF ScheduleTypeOK
<1> QED
  BY <1>1, <1>2 DEF Wall

\* localDateTimeToUtc: what it finds is an hour the clocks show that time at.
LEMMA UtcOfWall ==
    ASSUME NEW wall, Exact(wall) # {}
    PROVE  ToUtc(wall) \in Hours /\ Wall(ToUtc(wall)) = wall
<1>1. Exact(wall) \subseteq Nat
  BY DEF Exact, Rounds
<1>2. \E n \in Exact(wall) : \A m \in Exact(wall) : n <= m
  BY <1>1, LeastOfNaturals
<1> DEFINE k == CHOOSE n \in Exact(wall) : \A m \in Exact(wall) : n <= m
<1>3. k \in Exact(wall)
  BY <1>2
<1>4. ToUtc(wall) = Guesses(wall)[k]
  BY DEF ToUtc
<1> QED
  BY <1>3, <1>4 DEF Exact

LEMMA RecentAreSlots ==
    ASSUME ScheduleTypeOK
    PROVE  RecentSlots \subseteq Slots
<1>1. DayOf(Wall(clock)) \in Int
  BY ClockIsHour, ScheduleAssumption DEF DayOf
<1>2. \A back \in 0 .. LookBackDays : DayOf(Wall(clock)) - back \in Int
  BY <1>1, ScheduleAssumption
<1> QED
  BY <1>2 DEF RecentSlots, Slots, Slot

\* The last of some hours in a bounded past.
LEMMA LastOfHours ==
    ASSUME NEW S, NEW to \in Int, S \subseteq Int, \A h \in S : h <= to, S # {}
    PROVE  \E h \in S : \A o \in S : o <= h
<1> DEFINE Ages == {to - h : h \in S}
<1>1. Ages \subseteq Nat /\ Ages # {}
  <2>1. \A h \in S : to - h \in Nat
    OBVIOUS
  <2> QED
    BY <2>1
<1>2. PICK least \in Ages : \A age \in Ages : least <= age
  BY <1>1, LeastOfNaturals
<1>3. PICK h \in S : least = to - h
  BY <1>2
<1>4. \A o \in S : to - h <= to - o
  BY <1>2, <1>3
<1> QED
  BY <1>4

\* latestEligibleRun: of the slots that are eligible the latest is found.
LEMMA LatestIsLatest ==
    ASSUME ScheduleTypeOK, ~NoSuchTime, EligibleSlots # {}
    PROVE  /\ LatestSlot \in EligibleSlots
           /\ \A other \in EligibleSlots :
                 ToUtc(WallOf(other)) <= ToUtc(WallOf(LatestSlot))
<1> DEFINE Utcs == {ToUtc(WallOf(slot)) : slot \in EligibleSlots}
<1>1. \A slot \in EligibleSlots :
          /\ slot \in RecentSlots /\ Exact(WallOf(slot)) # {}
          /\ clock - ToUtc(WallOf(slot)) \in Nat
  BY ScheduleAssumption DEF EligibleSlots, NoSuchTime
<1>2. clock \in Int /\ Hours \subseteq Int
  BY ClockIsHour, ScheduleAssumption
<1>3. \A slot \in EligibleSlots : ToUtc(WallOf(slot)) \in Int
  BY <1>1, <1>2, UtcOfWall
<1>4. Utcs \subseteq Int /\ \A u \in Utcs : u <= clock
  BY <1>1, <1>2, <1>3
<1>5. PICK u \in Utcs : \A v \in Utcs : v <= u
  BY <1>2, <1>4, LastOfHours
<1> QED
  BY <1>5 DEF LatestSlot

LEMMA LatestIsDue ==
    ASSUME ScheduleTypeOK, ~NoSuchTime, EligibleSlots # {}
    PROVE  IsDue(LatestSlot)
<1>1. LatestSlot \in RecentSlots /\ clock - ToUtc(WallOf(LatestSlot)) \in Nat
  BY LatestIsLatest, ScheduleAssumption DEF EligibleSlots
<1>2. LatestSlot \in Slots /\ Exact(WallOf(LatestSlot)) # {}
  BY <1>1, RecentAreSlots DEF NoSuchTime
<1>3. clock \in Int /\ ToUtc(WallOf(LatestSlot)) \in Int
  BY <1>2, ClockIsHour, UtcOfWall, ScheduleAssumption
<1> QED
  BY <1>1, <1>2, <1>3 DEF IsDue

\* Two slots are for the same wall time only if they are one.
LEMMA SlotsDiffer ==
    ASSUME NEW a \in Slots, NEW b \in Slots, WallOf(a) = WallOf(b)
    PROVE  a = b
<1>1. /\ a[1] \in Int /\ b[1] \in Int
      /\ a[2] \in 0 .. DayHours - 1 /\ b[2] \in 0 .. DayHours - 1
      /\ DayHours \in Nat \ {0}
  BY ScheduleAssumption DEF Slots
<1>2. \A h \in Nat \ {0} : \A d, e \in Int : d + 1 <= e => d * h + h <= e * h
  OBVIOUS
<1>3. \A h \in Nat \ {0} : \A d, e \in Int : \A t, u \in 0 .. h - 1 :
          d < e => d * h + t < e * h + u
  <2> TAKE h \in Nat \ {0}
  <2> TAKE d, e \in Int
  <2> TAKE t, u \in 0 .. h - 1
  <2> HAVE d < e
  <2>1. d * h + h <= e * h
    BY <1>2
  <2>2. d * h \in Int /\ e * h \in Int
    OBVIOUS
  <2>3. \A x, y \in Int : x + h <= y => x + t < y + u
    OBVIOUS
  <2> QED
    BY <2>1, <2>2, <2>3
<1>4. a[1] * DayHours + a[2] = b[1] * DayHours + b[2]
  BY DEF WallOf
<1>5. ~(a[1] < b[1])
  <2> SUFFICES ASSUME a[1] < b[1] PROVE FALSE
    OBVIOUS
  <2>1. a[1] * DayHours + a[2] < b[1] * DayHours + b[2]
    BY <1>1, <1>3
  <2> QED
    BY <1>1, <1>4, <2>1
<1>6. ~(b[1] < a[1])
  <2> SUFFICES ASSUME b[1] < a[1] PROVE FALSE
    OBVIOUS
  <2>1. b[1] * DayHours + b[2] < a[1] * DayHours + a[2]
    BY <1>1, <1>3
  <2> QED
    BY <1>1, <1>4, <2>1
<1>7. a[1] = b[1]
  BY <1>1, <1>5, <1>6
<1>8. a[2] = b[2]
  BY <1>1, <1>4, <1>7
<1>9. a = <<a[1], a[2]>> /\ b = <<b[1], b[2]>>
  BY DEF Slots
<1> QED
  BY <1>7, <1>8, <1>9

-----------------------------------------------------------------------------
(* The choice of stories.                                                  *)

\* ingestTopStories: an edition gets stories of the ranking, none that is
\* excluded, and no more than were asked for.
LEMMA ChosenStories ==
    ASSUME NEW edition, NEW gone
    PROVE  /\ Chosen(edition, gone) \subseteq ToSet(TopStories)
           /\ Chosen(edition, gone) \cap Excluded(edition) = {}
           /\ IsFiniteSet(Chosen(edition, gone))
           /\ Cardinality(Chosen(edition, gone)) <= StoryCount
<1> DEFINE free == {i \in DOMAIN TopStories :
                        TopStories[i] \notin Excluded(edition) \cup gone}
           first == {k \in free : Cardinality(free \cap 1 .. k) <= StoryCount}
           Story(i) == TopStories[i]
<1>1. Chosen(edition, gone) = {Story(i) : i \in first}
  BY DEF Chosen
<1>2. Chosen(edition, gone) \subseteq ToSet(TopStories)
  BY <1>1 DEF ToSet
<1>3. Chosen(edition, gone) \cap Excluded(edition) = {}
  BY <1>1
<1>4. Len(TopStories) \in Nat /\ DOMAIN TopStories = 1 .. Len(TopStories)
  BY ScheduleAssumption
<1>5. IsFiniteSet(first) /\ IsFiniteSet(free) /\ first \subseteq 1 .. Len(TopStories)
  <2>1. IsFiniteSet(1 .. Len(TopStories))
    BY <1>4, FS_Interval
  <2>2. free \in SUBSET (1 .. Len(TopStories)) /\ first \in SUBSET (1 .. Len(TopStories))
    BY <1>4
  <2> QED
    BY <2>1, <2>2, FS_Subset
<1>6. Cardinality(first) <= StoryCount
  <2>1. CASE first = {}
    <3> HIDE DEF first
    <3>1. StoryCount \in Nat
      BY ScheduleAssumption
    <3> QED
      BY <2>1, <3>1, FS_EmptySet
  <2>2. CASE first # {}
    <3> DEFINE Behind == {Len(TopStories) - k : k \in first}
    <3>1. Behind \subseteq Nat /\ Behind # {}
      <4> HIDE DEF first
      <4>1. \A n \in Nat : \A k \in 1 .. n : n - k \in Nat
        OBVIOUS
      <4>2. \A k \in first : Len(TopStories) - k \in Nat
        BY <1>4, <1>5, <4>1
      <4> QED
        BY <2>2, <4>2
    <3>2. PICK l \in Behind : \A m \in Behind : l <= m
      BY <3>1, LeastOfNaturals
    <3>3. PICK last \in first : l = Len(TopStories) - last
      BY <3>2
    <3>4. \A k \in first : k \in 1 .. last
      <4> TAKE k \in first
      <4>1. Len(TopStories) - last <= Len(TopStories) - k
        BY <3>2, <3>3
      <4>2. \A n, a, b \in Nat : n - a <= n - b => b <= a
        OBVIOUS
      <4>3. last \in Nat /\ k \in Nat /\ k >= 1
        BY <1>5
      <4> HIDE DEF first
      <4> QED
        BY <1>4, <4>1, <4>2, <4>3
    <3>5. first \in SUBSET (free \cap 1 .. last)
      BY <3>4
    <3>6. IsFiniteSet(free \cap 1 .. last)
      BY <1>5, FS_Intersection
    <3>7. Cardinality(first) <= Cardinality(free \cap 1 .. last)
      BY <3>5, <3>6, FS_Subset
    <3>8. Cardinality(free \cap 1 .. last) <= StoryCount
      BY <3>3
    <3>9. /\ Cardinality(first) \in Nat /\ Cardinality(free \cap 1 .. last) \in Nat
          /\ StoryCount \in Nat
      BY <1>5, <3>6, FS_CardinalityType, ScheduleAssumption
    <3> HIDE DEF first, free
    <3> QED
      BY <3>7, <3>8, <3>9
  <2> QED
    BY <2>1, <2>2
<1>7. /\ IsFiniteSet({Story(i) : i \in first})
      /\ Cardinality({Story(i) : i \in first}) <= Cardinality(first)
  <2> DEFINE f == [i \in first |-> Story(i)]
             T == {Story(i) : i \in first}
  <2>1. f \in Surjection(first, T)
    BY DEF Surjection
  <2> HIDE DEF f
  <2> QED
    BY <1>5, <2>1, FS_Surjection
<1>8. /\ Cardinality(first) \in Nat /\ Cardinality({Story(i) : i \in first}) \in Nat
      /\ StoryCount \in Nat
  BY <1>5, <1>7, FS_CardinalityType, ScheduleAssumption
<1> HIDE DEF first, Story
<1>9. Cardinality({Story(i) : i \in first}) <= StoryCount
  BY <1>6, <1>7, <1>8
<1> QED
  BY <1>1, <1>2, <1>3, <1>7, <1>9

-----------------------------------------------------------------------------
(* The invariant.                                                          *)

\* The edition e of all of them has no story of the one before it.
Apart(all, e) ==
    \A b \in all[e].before :
        (/\ all[b].for < all[e].for
         /\ \A o \in all[e].before : all[o].for \notin all[b].for + 1 .. all[e].for - 1)
            => all[e].stories \cap all[b].stories = {}

\* An edition is for its slot, which was due when it was inserted; and those
\* that were before it when its stories were chosen are still what they were.
EditionOK(all, e) ==
    /\ all[e].for = ToUtc(WallOf(e))
    /\ all[e].status = "pending" => all[e].before = {}
    /\ all[e].before \subseteq {o \in DOMAIN all : all[o].status = "complete"}
    /\ Apart(all, e)

EditionInv ==
    /\ ScheduleTypeOK
    /\ \A s \in Schedulers : scheduler[s].at = "insert" => IsDue(scheduler[s].slot)
    /\ \A e \in DOMAIN editions : IsDue(e) /\ EditionOK(editions, e)
    /\ demand.at = "refused" /\ ~demand.active => demand.ended
    /\ RefusalsNameTheRun

LEMMA EditionsInitially == ScheduleInit => EditionInv
<1> SUFFICES ASSUME ScheduleInit PROVE EditionInv
  OBVIOUS
<1>1. FirstHour \in FirstHour .. LastHour /\ FirstHour \in Hours
  BY ScheduleAssumption
<1>2. Done("idle", FirstHour) \in Ticks /\ Done("idle", FirstHour).at = "idle"
  BY <1>1 DEF Done, Ticks, Slot
<1>3. scheduler \in [Schedulers -> Ticks]
      /\ \A s \in Schedulers : scheduler[s].at = "idle"
  BY <1>2 DEF ScheduleInit
<1>4. DOMAIN editions = {}
  BY DEF ScheduleInit
<1>5. ScheduleTypeOK
  BY <1>1, <1>3, <1>4 DEF ScheduleInit, ScheduleTypeOK
<1> QED
  BY <1>3, <1>4, <1>5 DEF EditionInv, ScheduleInit, RefusalsNameTheRun

LEMMA SlotsStayDue ==
    ASSUME NEW slot, IsDue(slot), ScheduleTypeOK, UNCHANGED zone,
           clock' \in Int, clock <= clock'
    PROVE  IsDue(slot)'
<1>1. ToUtc(WallOf(slot)) \in Int
  BY UtcOfWall, ScheduleAssumption DEF IsDue
<1>2. /\ ToUtc(WallOf(slot))' = ToUtc(WallOf(slot))
      /\ Exact(WallOf(slot))' = Exact(WallOf(slot))
  BY DEF ToUtc, Exact, Guesses, Wall
<1>3. clock \in Int
  BY ClockIsHour
<1>4. \A u, c, d \in Int : u <= c /\ c <= d => u <= d
  OBVIOUS
<1>5. ToUtc(WallOf(slot)) <= clock'
  BY <1>1, <1>3, <1>4 DEF IsDue
<1> QED
  BY <1>2, <1>5 DEF IsDue

\* The slot a tick has after a step is due then if it was due before.
LEMMA TicksStayDue ==
    ASSUME NEW r \in Schedulers, NEW slot, slot = scheduler'[r].slot,
           IsDue(slot), ScheduleTypeOK, UNCHANGED zone, clock' \in Int, clock <= clock'
    PROVE  IsDue(scheduler[r].slot)'
<1>1. IsDue(slot)'
  BY SlotsStayDue
<1>2. WallOf(scheduler[r].slot)' = WallOf(slot)
  BY DEF WallOf
<1>3. Guesses(WallOf(scheduler[r].slot))' = Guesses(WallOf(slot))'
  BY <1>2 DEF Guesses, WallOf, Wall
<1>4. Exact(WallOf(scheduler[r].slot))' = Exact(WallOf(slot))'
  BY <1>2, <1>3 DEF Exact, WallOf, Wall
<1>5. ToUtc(WallOf(scheduler[r].slot))' = ToUtc(WallOf(slot))'
  BY <1>3, <1>4 DEF ToUtc
<1> QED
  BY <1>1, <1>4, <1>5 DEF IsDue

\* What there is of editions while the clock, a tick or a request moves.
LEMMA EditionsStay ==
    ASSUME EditionInv, UNCHANGED <<zone, editions>>, clock' \in Int, clock <= clock'
    PROVE  \A e \in DOMAIN editions' : IsDue(e)' /\ EditionOK(editions, e)'
<1>1. UNCHANGED zone /\ UNCHANGED editions
  OBVIOUS
<1> SUFFICES ASSUME NEW e \in DOMAIN editions
             PROVE  IsDue(e)' /\ EditionOK(editions, e)'
  BY <1>1
<1>2. IsDue(e)'
  BY <1>1, SlotsStayDue DEF EditionInv
<1>3. ToUtc(WallOf(e))' = ToUtc(WallOf(e))
  BY <1>1 DEF ToUtc, Exact, Guesses, Wall
<1>4. EditionOK(editions, e)
  BY DEF EditionInv
<1> QED
  BY <1>1, <1>2, <1>3, <1>4 DEF EditionOK, Apart

LEMMA HourPassesIsOK ==
    ASSUME EditionInv, HourPasses PROVE EditionInv'
<1>1. UNCHANGED zone /\ UNCHANGED scheduler /\ UNCHANGED editions /\ UNCHANGED demand
      /\ clock' = clock + 1 /\ clock < LastHour
  BY DEF HourPasses
<1>2. clock' \in FirstHour .. LastHour /\ clock' \in Int /\ clock <= clock'
  BY <1>1, ScheduleAssumption DEF EditionInv, ScheduleTypeOK
<1>3. ScheduleTypeOK'
  BY <1>1, <1>2 DEF EditionInv, ScheduleTypeOK
<1>4. (\A s \in Schedulers : scheduler[s].at = "insert" => IsDue(scheduler[s].slot))'
  <2> SUFFICES ASSUME NEW s \in Schedulers, scheduler[s].at = "insert"
               PROVE  IsDue(scheduler[s].slot)'
    BY <1>1
  <2>1. IsDue(scheduler[s].slot) /\ scheduler'[s].slot = scheduler[s].slot
    BY <1>1 DEF EditionInv
  <2> QED
    BY <1>1, <1>2, <2>1, TicksStayDue DEF EditionInv
<1>5. (\A e \in DOMAIN editions : IsDue(e) /\ EditionOK(editions, e))'
  BY <1>1, <1>2, EditionsStay
<1> QED
  BY <1>1, <1>3, <1>4, <1>5 DEF EditionInv, RefusalsNameTheRun

\* What a tick does to its own state alone.
LEMMA TickIsOK ==
    ASSUME EditionInv, NEW s \in Schedulers, NEW tick \in Ticks,
           tick.at = "insert" => IsDue(tick.slot),
           scheduler' = [scheduler EXCEPT ![s] = tick],
           UNCHANGED <<zone, clock, editions, demand>>
    PROVE  EditionInv'
<1>1. UNCHANGED zone /\ UNCHANGED clock /\ UNCHANGED editions /\ UNCHANGED demand
  OBVIOUS
<1>2. clock' \in Int /\ clock <= clock'
  BY <1>1, ClockIsHour DEF EditionInv
<1>3. ScheduleTypeOK'
  BY <1>1 DEF EditionInv, ScheduleTypeOK
<1>4. (\A r \in Schedulers : scheduler[r].at = "insert" => IsDue(scheduler[r].slot))'
  <2> SUFFICES ASSUME NEW r \in Schedulers, scheduler'[r].at = "insert"
               PROVE  IsDue(scheduler[r].slot)'
    OBVIOUS
  <2>1. IsDue(scheduler'[r].slot)
    BY DEF EditionInv, ScheduleTypeOK
  <2> QED
    BY <1>1, <1>2, <2>1, TicksStayDue DEF EditionInv
<1>5. (\A e \in DOMAIN editions : IsDue(e) /\ EditionOK(editions, e))'
  BY <1>1, <1>2, EditionsStay
<1> QED
  BY <1>1, <1>3, <1>4, <1>5 DEF EditionInv, RefusalsNameTheRun

\* An outcome of a tick.
LEMMA DoneIsTick ==
    ASSUME NEW outcome \in {"idle", "scheduled", "none", "thrown"}, NEW read \in Hours
    PROVE  Done(outcome, read) \in Ticks /\ Done(outcome, read).at # "insert"
BY DEF Done, Ticks, Slot

LEMMA BeginTickIsOK ==
    ASSUME EditionInv, NEW s \in Schedulers, BeginTick(s) PROVE EditionInv'
<1>1. ScheduleTypeOK /\ clock \in Hours
  BY ClockIsHour DEF EditionInv
<1>2. UNCHANGED <<zone, clock, editions, demand>>
  BY DEF BeginTick
<1>3. CASE NoSuchTime
  <2>1. scheduler' = [scheduler EXCEPT ![s] = Done("thrown", clock)]
    BY <1>3 DEF BeginTick
  <2> QED
    BY <1>1, <1>2, <2>1, DoneIsTick, TickIsOK
<1>4. CASE ~NoSuchTime /\ EligibleSlots = {}
  <2>1. scheduler' = [scheduler EXCEPT ![s] = Done("none", clock)]
    BY <1>4 DEF BeginTick
  <2> QED
    BY <1>1, <1>2, <2>1, DoneIsTick, TickIsOK
<1>5. CASE ~NoSuchTime /\ EligibleSlots # {}
  <2> DEFINE tick == [at |-> "insert", slot |-> LatestSlot, read |-> clock]
  <2>1. scheduler' = [scheduler EXCEPT ![s] = tick]
    BY <1>5 DEF BeginTick
  <2>2. IsDue(LatestSlot)
    BY <1>1, <1>5, LatestIsDue
  <2>3. tick \in Ticks
    BY <1>1, <2>2 DEF Ticks, IsDue, Slots
  <2>4. tick.slot = LatestSlot
    OBVIOUS
  <2> HIDE DEF tick
  <2> QED
    BY <1>2, <2>1, <2>2, <2>3, <2>4, TickIsOK
<1> QED
  BY <1>3, <1>4, <1>5

LEMMA FindRunIsOK ==
    ASSUME EditionInv, NEW s \in Schedulers, FindRun(s) PROVE EditionInv'
<1>1. scheduler[s] \in Ticks
  BY DEF EditionInv, ScheduleTypeOK
<1>2. scheduler[s].read \in Hours
  BY <1>1 DEF Ticks
<1>3. /\ scheduler' = [scheduler EXCEPT ![s] = Done("scheduled", scheduler[s].read)]
      /\ UNCHANGED <<zone, clock, editions, demand>>
  BY DEF FindRun
<1> QED
  BY <1>2, <1>3, DoneIsTick, TickIsOK

\* The row a scheduler inserts.
Begun(slot) == [status |-> "pending", for |-> ToUtc(WallOf(slot)),
                stories |-> {}, before |-> {}]

LEMMA BegunIsOK ==
    ASSUME NEW slot, IsDue(slot)
    PROVE  /\ Begun(slot) \in Edition
           /\ Begun(slot).status = "pending" /\ Begun(slot).before = {}
           /\ Begun(slot).for = ToUtc(WallOf(slot))
           /\ Cardinality(Begun(slot).stories) <= StoryCount
<1>1. ToUtc(WallOf(slot)) \in Hours
  BY UtcOfWall DEF IsDue
<1>2. Begun(slot) \in Edition
  BY <1>1 DEF Begun, Edition
<1>3. Begun(slot).stories = {} /\ StoryCount \in Nat
  BY ScheduleAssumption DEF Begun
<1> QED
  BY <1>2, <1>3, FS_EmptySet DEF Begun

LEMMA InsertRunIsOK ==
    ASSUME EditionInv, NEW s \in Schedulers, InsertRun(s) PROVE EditionInv'
<1> DEFINE slot == scheduler[s].slot
<1>1. UNCHANGED zone /\ UNCHANGED clock /\ UNCHANGED demand
  BY DEF InsertRun
<1>2. IsDue(slot) /\ scheduler[s] \in Ticks
  BY DEF InsertRun, EditionInv, ScheduleTypeOK
<1>3. CASE ~IsNew(slot)
  <2> DEFINE tick == [scheduler[s] EXCEPT !.at = "find"]
  <2>1. scheduler' = [scheduler EXCEPT ![s] = tick] /\ UNCHANGED editions
    BY <1>3 DEF InsertRun
  <2>2. tick \in Ticks /\ tick.at = "find"
    BY <1>2 DEF Ticks
  <2> HIDE DEF tick
  <2> QED
    BY <1>1, <2>1, <2>2, TickIsOK
<1>4. CASE IsNew(slot)
  <2> DEFINE tick == Done("scheduled", scheduler[s].read)
  <2>1. scheduler' = [scheduler EXCEPT ![s] = tick]
    BY <1>4 DEF InsertRun
  <2>2. editions' = [e \in DOMAIN editions \cup {slot} |->
                        IF e = slot THEN Begun(slot) ELSE editions[e]]
    BY <1>4 DEF InsertRun, Begun
  <2>3. tick \in Ticks /\ tick.at # "insert"
    BY <1>2, DoneIsTick DEF Ticks
  <2>4. slot \notin DOMAIN editions
    BY <1>4 DEF IsNew
  <2> HIDE DEF tick, slot
  <2>5. /\ DOMAIN editions' = DOMAIN editions \cup {slot}
        /\ editions'[slot] = Begun(slot)
        /\ \A e \in DOMAIN editions : editions'[e] = editions[e]
    BY <2>2, <2>4
  <2>6. slot \in Slots
    BY <1>2 DEF IsDue
  <2>7. ScheduleTypeOK'
    <3>1. (scheduler \in [Schedulers -> Ticks])'
      BY <2>1, <2>3 DEF EditionInv, ScheduleTypeOK
    <3>2. (DOMAIN editions \subseteq Int \X EditionTimes)'
      BY <2>5, <2>6 DEF EditionInv, ScheduleTypeOK, Slots
    <3>3. ASSUME NEW e \in DOMAIN editions'
          PROVE  editions'[e] \in Edition /\ Cardinality(editions'[e].stories) <= StoryCount
      BY <1>2, <2>5, BegunIsOK DEF EditionInv, ScheduleTypeOK
    <3> QED
      BY <1>1, <3>1, <3>2, <3>3 DEF EditionInv, ScheduleTypeOK
  <2>8. (\A r \in Schedulers : scheduler[r].at = "insert" => IsDue(scheduler[r].slot))'
    <3> SUFFICES ASSUME NEW r \in Schedulers, scheduler'[r].at = "insert"
                 PROVE  IsDue(scheduler[r].slot)'
      OBVIOUS
    <3>1. scheduler'[r] = scheduler[r]
      BY <2>1, <2>3 DEF EditionInv, ScheduleTypeOK
    <3>2. IsDue(scheduler'[r].slot)
      BY <3>1 DEF EditionInv
    <3>3. clock' \in Int /\ clock <= clock'
      BY <1>1, ClockIsHour DEF EditionInv
    <3> QED
      BY <1>1, <3>2, <3>3, TicksStayDue DEF EditionInv
  <2>9. ASSUME NEW e \in DOMAIN editions'
        PROVE  IsDue(e)' /\ EditionOK(editions, e)'
    <3>1. ToUtc(WallOf(e))' = ToUtc(WallOf(e))
      BY <1>1 DEF ToUtc, Exact, Guesses, Wall
    <3>2. IsDue(e)
      BY <1>2, <2>5 DEF EditionInv
    <3>3. clock \in Int /\ clock' = clock
      BY <1>1, ClockIsHour DEF EditionInv
    <3>4. clock <= clock' /\ clock' \in Int
      BY <3>3
    <3>5. IsDue(e)'
      BY <1>1, <3>2, <3>4, SlotsStayDue DEF EditionInv
    <3>6. CASE e = slot
      BY <1>2, <2>5, <3>1, <3>5, <3>6, BegunIsOK DEF EditionOK, Apart
    <3>7. CASE e \in DOMAIN editions
      <4>1. EditionOK(editions, e)
        BY <3>7 DEF EditionInv
      <4>2. editions'[e] = editions[e]
        BY <2>5, <3>7
      <4>3. \A b \in editions[e].before : editions'[b] = editions[b] /\ b \in DOMAIN editions'
        BY <2>5, <4>1 DEF EditionOK
      <4> QED
        BY <2>5, <3>1, <3>5, <4>1, <4>2, <4>3 DEF EditionOK, Apart
    <3> QED
      BY <2>5, <3>6, <3>7
  <2> QED
    BY <1>1, <2>7, <2>8, <2>9 DEF EditionInv, RefusalsNameTheRun
<1> QED
  BY <1>3, <1>4

\* An edition that was not complete changes to another row for the same hour.
LEMMA ChangeIsOK ==
    ASSUME EditionInv, NEW e \in DOMAIN editions, NEW r \in Edition,
           editions[e].status # "complete",
           r.for = editions[e].for, r.status # "pending",
           Cardinality(r.stories) <= StoryCount,
           r.before \subseteq Complete,
           \A b \in r.before :
              (/\ editions[b].for < r.for
               /\ \A o \in r.before : editions[o].for \notin editions[b].for + 1 .. r.for - 1)
                  => r.stories \cap editions[b].stories = {},
           editions' = [editions EXCEPT ![e] = r],
           UNCHANGED <<zone, clock, scheduler, demand>>
    PROVE  EditionInv'
<1>1. UNCHANGED zone /\ UNCHANGED clock /\ UNCHANGED scheduler /\ UNCHANGED demand
  OBVIOUS
<1>2. clock' \in Int /\ clock <= clock'
  BY <1>1, ClockIsHour DEF EditionInv
<1>3. /\ DOMAIN editions' = DOMAIN editions
      /\ editions'[e] = r
      /\ \A o \in DOMAIN editions \ {e} : editions'[o] = editions[o]
  OBVIOUS
<1>4. ScheduleTypeOK'
  <2>1. ASSUME NEW o \in DOMAIN editions
        PROVE  editions'[o] \in Edition /\ Cardinality(editions'[o].stories) <= StoryCount
    BY <1>3 DEF EditionInv, ScheduleTypeOK
  <2> QED
    BY <1>1, <1>3, <2>1 DEF EditionInv, ScheduleTypeOK
<1>5. ASSUME NEW s \in Schedulers, scheduler'[s].at = "insert"
      PROVE  IsDue(scheduler[s].slot)'
  <2>1. IsDue(scheduler'[s].slot)
    BY <1>1, <1>5 DEF EditionInv
  <2> QED
    BY <1>1, <1>2, <2>1, TicksStayDue DEF EditionInv
<1>6. \A o \in Complete : o \in DOMAIN editions' /\ editions'[o] = editions[o]
  BY <1>3 DEF Complete
<1>7. ASSUME NEW o \in DOMAIN editions
      PROVE  IsDue(o)' /\ EditionOK(editions, o)'
  <2>1. ToUtc(WallOf(o))' = ToUtc(WallOf(o))
    BY <1>1 DEF ToUtc, Exact, Guesses, Wall
  <2>2. IsDue(o) /\ EditionOK(editions, o)
    BY DEF EditionInv
  <2>3. IsDue(o)'
    BY <1>1, <1>2, <2>2, SlotsStayDue DEF EditionInv
  <2>4. CASE o = e
    <3>1. editions'[o].for = ToUtc(WallOf(o))
      BY <1>3, <2>2, <2>4 DEF EditionOK
    <3>2. editions'[o].before \subseteq {x \in DOMAIN editions' : editions'[x].status = "complete"}
      BY <1>3, <1>6, <2>4 DEF Complete
    <3>3. Apart(editions', o)
      BY <1>3, <1>6, <2>4 DEF Apart
    <3> QED
      BY <1>3, <2>1, <2>3, <2>4, <3>1, <3>2, <3>3 DEF EditionOK, Apart
  <2>5. CASE o # e
    <3>1. editions'[o] = editions[o]
      BY <1>3, <2>5
    <3>2. editions[o].before \subseteq Complete
      BY <2>2 DEF EditionOK, Complete
    <3>3. editions[o].before \subseteq {x \in DOMAIN editions' : editions'[x].status = "complete"}
      BY <1>6, <3>2 DEF Complete
    <3>4. Apart(editions', o)
      BY <1>6, <2>2, <3>1, <3>2 DEF EditionOK, Apart
    <3> QED
      BY <2>1, <2>2, <2>3, <3>1, <3>3, <3>4 DEF EditionOK, Apart
  <2> QED
    BY <2>4, <2>5
<1> QED
  BY <1>1, <1>3, <1>4, <1>5, <1>7 DEF EditionInv, RefusalsNameTheRun

\* getPreviousScheduledStoryIds: the stories of the latest edition before this
\* one are excluded; no other is for the same hour.
LEMMA ExcludedStories ==
    ASSUME EditionInv, NEW e \in DOMAIN editions, NEW b \in Complete,
           editions[b].for < editions[e].for,
           \A o \in Complete : editions[o].for \notin editions[b].for + 1 .. editions[e].for - 1
    PROVE  Excluded(e) = editions[b].stories
<1>1. \A o \in DOMAIN editions : editions[o].for \in Int
  BY ScheduleAssumption DEF EditionInv, ScheduleTypeOK, Edition
<1>2. b \in PreviousEditions(e) /\ PreviousEditions(e) \subseteq DOMAIN editions
  BY DEF PreviousEditions, Complete
<1>3. \A o \in PreviousEditions(e) : editions[o].for <= editions[b].for
  <2> TAKE o \in PreviousEditions(e)
  <2>1. /\ editions[o].for < editions[e].for
        /\ editions[o].for \notin editions[b].for + 1 .. editions[e].for - 1
    BY DEF PreviousEditions
  <2>2. \A x, y, z \in Int : x < z /\ x \notin y + 1 .. z - 1 => x <= y
    OBVIOUS
  <2>3. editions[o].for \in Int /\ editions[b].for \in Int /\ editions[e].for \in Int
    BY <1>1, <1>2
  <2> QED
    BY <2>1, <2>2, <2>3
<1> DEFINE c == CHOOSE x \in PreviousEditions(e) : \A o \in PreviousEditions(e) :
                    editions[o].for <= editions[x].for
<1>4. c \in PreviousEditions(e) /\ editions[b].for <= editions[c].for
  BY <1>2, <1>3
<1>5. editions[c].for = editions[b].for
  <2>1. editions[c].for \in Int /\ editions[b].for \in Int
    BY <1>1, <1>2, <1>4
  <2>2. editions[c].for <= editions[b].for
    BY <1>3, <1>4
  <2> HIDE DEF c
  <2> QED
    BY <1>4, <2>1, <2>2
<1>6. c = b
  <2> HIDE DEF c
  <2>1. c \in DOMAIN editions /\ b \in DOMAIN editions
    BY <1>2, <1>4
  <2>2. /\ IsDue(c) /\ editions[c].for = ToUtc(WallOf(c))
        /\ IsDue(b) /\ editions[b].for = ToUtc(WallOf(b))
    BY <2>1 DEF EditionInv, EditionOK
  <2>3. Wall(ToUtc(WallOf(c))) = WallOf(c) /\ Wall(ToUtc(WallOf(b))) = WallOf(b)
    BY <2>2, UtcOfWall DEF IsDue
  <2>4. WallOf(c) = WallOf(b)
    BY <1>5, <2>2, <2>3
  <2> QED
    BY <2>2, <2>4, SlotsDiffer DEF IsDue
<1>7. Excluded(e) = editions[c].stories
  BY <1>2 DEF Excluded
<1> QED
  BY <1>6, <1>7

LEMMA CollectEditionIsOK ==
    ASSUME EditionInv, NEW e \in DOMAIN editions, CollectEdition(e) PROVE EditionInv'
<1>1. PICK gone \in Gone :
          editions' = [editions EXCEPT ![e].status = "collected",
                          ![e].stories = Chosen(e, gone), ![e].before = Complete]
  BY DEF CollectEdition
<1> DEFINE r == [editions[e] EXCEPT !.status = "collected",
                    !.stories = Chosen(e, gone), !.before = Complete]
<1>2. editions' = [editions EXCEPT ![e] = r]
  BY <1>1
<1>3. editions[e] \in Edition /\ editions[e].status = "pending"
      /\ DOMAIN editions \subseteq Int \X EditionTimes
  BY DEF EditionInv, ScheduleTypeOK, CollectEdition
<1>4. /\ Chosen(e, gone) \in SUBSET ToSet(TopStories)
      /\ Complete \in SUBSET (Int \X EditionTimes)
  BY <1>3, ChosenStories DEF Complete
<1>5. /\ r \in Edition /\ r.for = editions[e].for /\ r.status = "collected"
      /\ r.stories = Chosen(e, gone) /\ r.before = Complete
  BY <1>3, <1>4 DEF Edition
<1> HIDE DEF r
<1>6. Cardinality(r.stories) <= StoryCount
  BY <1>5, ChosenStories
<1>7. ASSUME NEW b \in r.before, editions[b].for < r.for,
             \A o \in r.before : editions[o].for \notin editions[b].for + 1 .. r.for - 1
      PROVE  r.stories \cap editions[b].stories = {}
  <2>1. Excluded(e) = editions[b].stories
    BY <1>5, <1>7, ExcludedStories
  <2> QED
    BY <1>5, <2>1, ChosenStories
<1> QED
  BY <1>2, <1>3, <1>5, <1>6, <1>7, ChangeIsOK DEF CollectEdition

LEMMA EndEditionIsOK ==
    ASSUME EditionInv, NEW e \in DOMAIN editions, EndEdition(e) PROVE EditionInv'
<1>1. PICK status \in {"complete", "failed"} :
          editions' = [editions EXCEPT ![e].status = status]
  BY DEF EndEdition
<1> DEFINE r == [editions[e] EXCEPT !.status = status]
<1>2. editions' = [editions EXCEPT ![e] = r]
  BY <1>1
<1>3. editions[e] \in Edition /\ editions[e].status = "collected"
      /\ Cardinality(editions[e].stories) <= StoryCount
  BY DEF EditionInv, ScheduleTypeOK, EndEdition
<1>4. /\ r \in Edition /\ r.for = editions[e].for /\ r.status # "pending"
      /\ r.stories = editions[e].stories /\ r.before = editions[e].before
  BY <1>3 DEF Edition
<1> HIDE DEF r
<1>5. r.before \subseteq Complete /\ Apart(editions, e)
  BY <1>4 DEF EditionInv, EditionOK, Complete
<1>6. \A b \in r.before :
         (/\ editions[b].for < r.for
          /\ \A o \in r.before : editions[o].for \notin editions[b].for + 1 .. r.for - 1)
             => r.stories \cap editions[b].stories = {}
  BY <1>4, <1>5 DEF Apart
<1> QED
  BY <1>2, <1>3, <1>4, <1>5, <1>6, ChangeIsOK DEF EndEdition

LEMMA DemandIsOK ==
    ASSUME EditionInv, DemandNext PROVE EditionInv'
<1>1. UNCHANGED zone /\ UNCHANGED clock /\ UNCHANGED scheduler /\ UNCHANGED editions
  BY DEF DemandNext, AskForRun, FindActiveRun, EndRunOnDemand
<1>2. clock' \in Int /\ clock <= clock'
  BY <1>1, ClockIsHour DEF EditionInv
<1>3. demand \in [active : BOOLEAN, at : {"idle", "refused", "answered", "error"},
                  ended : BOOLEAN]
  BY DEF EditionInv, ScheduleTypeOK
<1>4. /\ demand' \in [active : BOOLEAN, at : {"idle", "refused", "answered", "error"},
                      ended : BOOLEAN]
      /\ demand'.at = "refused" /\ ~demand'.active => demand'.ended
      /\ demand'.at = "error" => demand'.ended
  <2>1. CASE AskForRun
    BY <1>3, <2>1 DEF AskForRun
  <2>2. CASE FindActiveRun
    BY <1>3, <2>2 DEF FindActiveRun, FoundActiveRun, EditionInv
  <2>3. CASE EndRunOnDemand
    BY <1>3, <2>3 DEF EndRunOnDemand
  <2> QED
    BY <2>1, <2>2, <2>3 DEF DemandNext
<1>5. ScheduleTypeOK'
  BY <1>1, <1>4 DEF EditionInv, ScheduleTypeOK
<1>6. ASSUME NEW s \in Schedulers, scheduler'[s].at = "insert"
      PROVE  IsDue(scheduler[s].slot)'
  <2>1. IsDue(scheduler'[s].slot)
    BY <1>1, <1>6 DEF EditionInv
  <2> QED
    BY <1>1, <1>2, <2>1, TicksStayDue DEF EditionInv
<1>7. (\A e \in DOMAIN editions : IsDue(e) /\ EditionOK(editions, e))'
  BY <1>1, <1>2, EditionsStay
<1> QED
  BY <1>1, <1>4, <1>5, <1>6, <1>7 DEF EditionInv, RefusalsNameTheRun

LEMMA EditionsStutter ==
    ASSUME EditionInv, UNCHANGED scheduleVars PROVE EditionInv'
<1>1. UNCHANGED zone /\ UNCHANGED clock /\ UNCHANGED scheduler /\ UNCHANGED editions
      /\ UNCHANGED demand
  BY DEF scheduleVars
<1>2. clock' \in Int /\ clock <= clock'
  BY <1>1, ClockIsHour DEF EditionInv
<1>3. ScheduleTypeOK'
  BY <1>1 DEF EditionInv, ScheduleTypeOK
<1>4. ASSUME NEW s \in Schedulers, scheduler'[s].at = "insert"
      PROVE  IsDue(scheduler[s].slot)'
  <2>1. IsDue(scheduler'[s].slot)
    BY <1>1, <1>4 DEF EditionInv
  <2> QED
    BY <1>1, <1>2, <2>1, TicksStayDue DEF EditionInv
<1>5. (\A e \in DOMAIN editions : IsDue(e) /\ EditionOK(editions, e))'
  BY <1>1, <1>2, EditionsStay
<1> QED
  BY <1>1, <1>3, <1>4, <1>5 DEF EditionInv, RefusalsNameTheRun

-----------------------------------------------------------------------------
(* No edition is missed.                                                   *)

LEMMA DaysAndTimes ==
    ASSUME NEW x \in Int, NEW n \in Nat \ {0}
    PROVE  /\ x \div n \in Int /\ x % n \in 0 .. n - 1
           /\ x = (x \div n) * n + (x % n)
OBVIOUS

LEMMA DaysGrow ==
    ASSUME NEW n \in Nat \ {0}, NEW x \in Int, NEW y \in Int, x <= y
    PROVE  x \div n <= y \div n
OBVIOUS

LEMMA DaysBack ==
    ASSUME NEW n \in Nat \ {0}, NEW x \in Int, NEW y \in Int, NEW k \in Nat,
           y <= x + k * n
    PROVE  y \div n <= x \div n + k
OBVIOUS

LEMMA WallIsTime ==
    ASSUME ScheduleTypeOK, NEW h \in Hours
    PROVE  h \in Int /\ zone[h] \in Int /\ Wall(h) \in Int /\ Wall(h) = h + zone[h]
BY ScheduleAssumption DEF ScheduleTypeOK, Wall

\* The slot of an hour is for what the clocks show then.
LEMMA SlotOfHour ==
    ASSUME ScheduleTypeOK, NEW h \in Hours
    PROVE  WallOf(SlotAt(h)) = Wall(h)
<1>1. /\ Wall(h) \in Int /\ DayHours \in Nat \ {0}
  BY WallIsTime, ScheduleAssumption
<1> QED
  BY <1>1, DaysAndTimes DEF WallOf, SlotAt, Slot, DayOf

\* Hours at which the clocks show the same are next to each other.
LEMMA SameTimeIsNear ==
    ASSUME SteadyClocks, ScheduleTypeOK, NEW g \in Hours, NEW h \in Hours,
           Wall(g) = Wall(h)
    PROVE  h - 1 <= g /\ g <= h + 1
<1>1. zone[g] - zone[h] \in -1 .. 1
  BY DEF SteadyClocks, ScheduleTypeOK
<1> QED
  BY <1>1, WallIsTime

LEMMA GuessesAreThere ==
    ASSUME NEW wall
    PROVE  \E g : g = [n \in Rounds |->
                          IF n = 0 THEN wall ELSE g[n - 1] + wall - Wall(g[n - 1])]
<1> DEFINE first  == wall + wall - Wall(wall)
           second == first + wall - Wall(first)
           third  == second + wall - Wall(second)
           g == [n \in Rounds |-> IF n = 0 THEN wall ELSE IF n = 1 THEN first
                                  ELSE IF n = 2 THEN second ELSE third]
<1>1. g[0] = wall /\ g[1] = first /\ g[2] = second /\ g[3] = third
  BY DEF Rounds
<1>2. \A n \in Rounds : g[n] = IF n = 0 THEN wall ELSE g[n - 1] + wall - Wall(g[n - 1])
  <2> TAKE n \in Rounds
  <2>1. n = 0 \/ n = 1 \/ n = 2 \/ n = 3
    BY DEF Rounds
  <2>2. 1 - 1 = 0 /\ 2 - 1 = 1 /\ 3 - 1 = 2
    OBVIOUS
  <2> HIDE DEF g
  <2> QED
    BY <1>1, <2>1, <2>2
<1>3. g = [n \in Rounds |-> g[n]]
  OBVIOUS
<1> HIDE DEF g
<1>4. g = [n \in Rounds |-> IF n = 0 THEN wall ELSE g[n - 1] + wall - Wall(g[n - 1])]
  BY <1>2, <1>3, Zenon
<1> QED
  BY <1>4

LEMMA GuessesAreMoved ==
    ASSUME NEW wall
    PROVE  /\ Guesses(wall)[0] = wall
           /\ \A n \in 1 .. 3 : Guesses(wall)[n] =
                 Guesses(wall)[n - 1] + wall - Wall(Guesses(wall)[n - 1])
<1>1. Guesses(wall) = [n \in Rounds |-> IF n = 0 THEN wall
          ELSE Guesses(wall)[n - 1] + wall - Wall(Guesses(wall)[n - 1])]
  BY GuessesAreThere DEF Guesses
<1>2. 0 \in Rounds /\ \A n \in 1 .. 3 : n \in Rounds /\ n # 0
  BY DEF Rounds
<1> QED
  BY <1>1, <1>2

\* localDateTimeToUtc: two guesses are enough for a time the clocks show, as
\* they are wrong by one of two numbers.
LEMMA ShownIsFound ==
    ASSUME SteadyClocks, ScheduleTypeOK, NEW wall \in Hours,
           wall - zone[wall] \in Hours, NEW h \in Hours, Wall(h) = wall
    PROVE  Exact(wall) # {}
<1> DEFINE first == wall - zone[wall]
<1>1. Guesses(wall)[1] = first
  BY GuessesAreMoved, WallIsTime
<1>2. Guesses(wall)[2] = wall - zone[first]
  BY <1>1, GuessesAreMoved, WallIsTime
<1>3. first = h \/ zone[first] = zone[h] \/ Wall(first) = wall
  <2>1. /\ zone[first] - zone[h] \in -1 .. 1 /\ zone[wall] - zone[h] \in -1 .. 1
        /\ zone[first] - zone[wall] \in -1 .. 1
    BY DEF SteadyClocks, ScheduleTypeOK
  <2> QED
    BY <2>1, WallIsTime
<1>4. CASE Wall(first) = wall
  BY <1>1, <1>4 DEF Exact, Rounds
<1>5. CASE zone[first] = zone[h]
  <2>1. Guesses(wall)[2] = h
    BY <1>2, <1>5, WallIsTime
  <2> QED
    BY <2>1 DEF Exact, Rounds
<1> QED
  BY <1>3, <1>4, <1>5
\* A tick that throws has a reason: a time of that week was never shown.
LEMMA ThrownForReason ==
    ASSUME SteadyClocks, ScheduleTypeOK, NoSuchTime
    PROVE  IsNeverShown(clock)
<1>1. PICK back \in 0 .. LookBackDays, t \in EditionTimes :
          Exact(WallOf(Slot(DayOf(Wall(clock)) - back, t))) = {}
  BY DEF NoSuchTime, RecentSlots
<1> DEFINE wall == WallOf(Slot(DayOf(Wall(clock)) - back, t))
<1>2. clock \in FirstHour .. LastHour /\ zone \in Zones /\ clock \in Hours
  BY ClockIsHour DEF ScheduleTypeOK
<1>3. wall \in Hours /\ wall - zone[wall] \in Hours
  BY <1>2 DEF SteadyClocks, Wall
<1> HIDE DEF wall
<1>4. \A h \in Hours : Wall(h) # wall
  BY <1>1, <1>3, ShownIsFound DEF wall
<1> QED
  BY <1>4 DEF IsNeverShown, wall

LastDue(read) == CHOOSE h \in DueEditions(read) : \A o \in DueEditions(read) : o <= h

LEMMA LastIsDue ==
    ASSUME SteadyClocks, ScheduleTypeOK, DueEditions(clock) # {}
    PROVE  /\ LastDue(clock) \in DueEditions(clock)
           /\ \A h \in DueEditions(clock) : h <= LastDue(clock)
           /\ LastDue(clock) \in clock - MissedRunGrace + 1 .. clock
           /\ LastDue(clock) \in Hours /\ clock \in Int
           /\ Wall(LastDue(clock)) % DayHours \in EditionTimes
           /\ LastEdition(clock) = SlotAt(LastDue(clock))
<1>1. clock \in Int /\ MissedRunGrace \in Nat
  BY ClockIsHour, ScheduleAssumption
<1>2. DueEditions(clock) \subseteq Int /\ \A h \in DueEditions(clock) : h <= clock
  BY <1>1 DEF DueEditions, EditionHours
<1>3. \E h \in DueEditions(clock) : \A o \in DueEditions(clock) : o <= h
  BY <1>1, <1>2, LastOfHours
<1>4. /\ LastDue(clock) \in DueEditions(clock)
      /\ \A h \in DueEditions(clock) : h <= LastDue(clock)
  BY <1>3 DEF LastDue
<1>5. clock - MissedRunGrace + 1 .. clock \subseteq Hours
  BY DEF SteadyClocks, ScheduleTypeOK
<1> QED
  BY <1>1, <1>4, <1>5 DEF DueEditions, EditionHours, LastEdition, LastDue

LEMMA LastIsRecent ==
    ASSUME SteadyClocks, ScheduleTypeOK, DueEditions(clock) # {}
    PROVE  LastEdition(clock) \in RecentSlots
<1> DEFINE last == LastDue(clock)
<1>1. /\ last \in Hours /\ last \in clock - MissedRunGrace + 1 .. clock /\ clock \in Hours
      /\ Wall(last) % DayHours \in EditionTimes
      /\ LastEdition(clock) = SlotAt(last)
  BY LastIsDue, ClockIsHour
<1>2. /\ DayHours \in Nat \ {0} /\ MissedRunGrace \in Nat \ {0} /\ LookBackDays \in Nat
      /\ MissedRunGrace <= LookBackDays * DayHours
  BY ScheduleAssumption
<1>3. zone[clock] - zone[last] \in -1 .. 1
  BY <1>1 DEF SteadyClocks, ScheduleTypeOK
<1> HIDE DEF last
<1>4. /\ last \in Int /\ clock \in Int /\ zone[last] \in Int /\ zone[clock] \in Int
      /\ Wall(last) = last + zone[last] /\ Wall(clock) = clock + zone[clock]
  BY <1>1, WallIsTime
<1>5. Wall(last) <= Wall(clock)
  <2>1. CASE last = clock
    BY <1>4, <2>1
  <2>2. CASE last # clock
    BY <1>1, <1>3, <1>4, <2>2
  <2> QED
    BY <2>1, <2>2
<1>6. Wall(clock) <= Wall(last) + MissedRunGrace
  BY <1>1, <1>2, <1>3, <1>4
<1>7. Wall(clock) <= Wall(last) + LookBackDays * DayHours
  <2>1. LookBackDays * DayHours \in Int
    BY <1>2
  <2>2. \A a, b, c, d \in Int : a <= b + c /\ c <= d => a <= b + d
    OBVIOUS
  <2> QED
    BY <1>2, <1>4, <1>6, <2>1, <2>2
<1>8. /\ Wall(last) \in Int /\ Wall(clock) \in Int
  BY <1>4
<1>9. DayOf(Wall(last)) <= DayOf(Wall(clock))
  BY <1>2, <1>5, <1>8, DaysGrow DEF DayOf
<1>10. DayOf(Wall(clock)) <= DayOf(Wall(last)) + LookBackDays
  BY <1>2, <1>7, <1>8, DaysBack DEF DayOf
<1>11. DayOf(Wall(last)) \in Int /\ DayOf(Wall(clock)) \in Int
  BY <1>2, <1>8, DaysAndTimes DEF DayOf
<1>12. /\ DayOf(Wall(clock)) - DayOf(Wall(last)) \in 0 .. LookBackDays
       /\ DayOf(Wall(last)) = DayOf(Wall(clock)) - (DayOf(Wall(clock)) - DayOf(Wall(last)))
  BY <1>2, <1>9, <1>10, <1>11
<1> HIDE DEF last
<1> QED
  BY <1>1, <1>12 DEF RecentSlots, SlotAt
LEMMA TimeOfSlot ==
    ASSUME NEW slot \in Slots
    PROVE  WallOf(slot) % DayHours \in EditionTimes
<1>1. /\ slot[1] \in Int /\ slot[2] \in EditionTimes
      /\ slot[2] \in 0 .. DayHours - 1 /\ DayHours \in Nat \ {0}
  BY ScheduleAssumption DEF Slots
<1>2. \A n \in Nat \ {0} : \A d \in Int : \A t \in 0 .. n - 1 : (d * n + t) % n = t
  OBVIOUS
<1>3. WallOf(slot) % DayHours = slot[2]
  BY <1>1, <1>2 DEF WallOf
<1> QED
  BY <1>1, <1>3

\* latestEligibleRun: a tick that finds a slot finds that of the last edition
\* that was due, and one that finds none has missed no edition, but for an
\* edition whose time will be shown again.
LEMMA LastIsFound ==
    ASSUME SteadyClocks, ScheduleTypeOK, ~NoSuchTime, DueEditions(clock) # {},
           ~IsShownAgain(LastEdition(clock), clock)
    PROVE  EligibleSlots # {} /\ LatestSlot = LastEdition(clock)
<1> DEFINE last == LastDue(clock)
           slot == LastEdition(clock)
           Utc(s) == ToUtc(WallOf(s))
           h == Utc(slot)
<1>1. /\ last \in Hours /\ last \in clock - MissedRunGrace + 1 .. clock /\ clock \in Int
      /\ \A o \in DueEditions(clock) : o <= last
      /\ Wall(last) % DayHours \in EditionTimes /\ slot = SlotAt(last)
  BY LastIsDue
<1>2. /\ DayHours \in Nat \ {0} /\ MissedRunGrace \in Nat \ {0} /\ Hours \subseteq Int
  BY ScheduleAssumption
<1>3. slot \in RecentSlots /\ slot \in Slots
  BY LastIsRecent, RecentAreSlots
<1>4. \A s \in RecentSlots : /\ s \in Slots /\ Utc(s) \in Hours
                             /\ Wall(Utc(s)) = WallOf(s)
  BY RecentAreSlots, UtcOfWall DEF NoSuchTime
<1>5. WallOf(slot) = Wall(last)
  BY <1>1, SlotOfHour
<1>6. h \in Hours /\ Wall(h) = Wall(last)
  BY <1>3, <1>4, <1>5
<1>7. last - 1 <= h /\ h <= last + 1
  BY <1>1, <1>6, SameTimeIsNear
<1>8. /\ SlotAt(h) = slot /\ Wall(h) % DayHours \in EditionTimes
      /\ ~IsShownAgain(slot, clock)
  BY <1>1, <1>6 DEF SlotAt
<1> HIDE DEF last, slot, Utc, h
\* an hour of an edition that is not later than the clock is not after the last
<1>9. ASSUME NEW o \in Hours, o <= clock, Wall(o) % DayHours \in EditionTimes
      PROVE  o <= last
  <2> SUFFICES ASSUME o > last PROVE FALSE
    BY <1>1, <1>2
  <2>1. o \in clock - MissedRunGrace + 1 .. clock
    BY <1>1, <1>2, <1>9
  <2>2. o \in DueEditions(clock)
    BY <1>9, <2>1 DEF DueEditions, EditionHours
  <2> QED
    BY <1>1, <1>2, <2>2
<1>10. h <= clock
  <2> SUFFICES ASSUME h > clock PROVE FALSE
    BY <1>1, <1>2, <1>6
  <2>1. h \in clock + 1 .. clock + DayHours
    BY <1>1, <1>2, <1>6, <1>7
  <2>2. IsShownAgain(slot, clock)
    BY <1>8, <2>1 DEF IsShownAgain, EditionHours
  <2> QED
    BY <1>8, <2>2
<1>11. clock - h \in 0 .. MissedRunGrace
  BY <1>1, <1>2, <1>6, <1>7, <1>10
<1>12. slot \in EligibleSlots
  BY <1>3, <1>11 DEF EligibleSlots, Utc, h
<1> DEFINE latest == LatestSlot
<1>13. /\ latest \in EligibleSlots
       /\ \A s \in EligibleSlots : Utc(s) <= Utc(latest)
  BY <1>12, LatestIsLatest DEF Utc
<1>14. /\ latest \in RecentSlots /\ clock - Utc(latest) \in 0 .. MissedRunGrace
       /\ h <= Utc(latest)
  BY <1>12, <1>13 DEF EligibleSlots, Utc, h
<1> HIDE DEF latest
<1>15. /\ latest \in Slots /\ Utc(latest) \in Hours /\ Utc(latest) \in Int
       /\ Wall(Utc(latest)) = WallOf(latest)
  BY <1>2, <1>4, <1>14
<1>16. Utc(latest) <= clock
  BY <1>1, <1>2, <1>14, <1>15
<1>17. WallOf(latest) % DayHours \in EditionTimes
  BY <1>15, TimeOfSlot
<1>18. Utc(latest) <= last
  BY <1>9, <1>15, <1>16, <1>17
<1>19. Utc(latest) = last \/ Utc(latest) = h
  BY <1>1, <1>2, <1>6, <1>7, <1>14, <1>15, <1>18
<1>20. WallOf(latest) = WallOf(slot)
  BY <1>5, <1>6, <1>15, <1>19
<1>21. latest = slot
  BY <1>3, <1>15, <1>20, SlotsDiffer
<1> QED
  BY <1>12, <1>21 DEF latest, slot
\* What an outcome of a tick promises, or the slot it is about to begin.
Plans(slot, read) ==
    DueEditions(read) # {} => slot = LastEdition(read) \/ IsShownAgain(LastEdition(read), read)

OutcomeOK(tick) ==
    /\ tick.at \in {"insert", "find"} => Plans(tick.slot, tick.read)
    /\ tick.at \in {"scheduled", "none"} /\ DueEditions(tick.read) # {} =>
          LastEdition(tick.read) \in DOMAIN editions
          \/ IsShownAgain(LastEdition(tick.read), tick.read)
    /\ tick.at = "thrown" => IsNeverShown(tick.read)

PlanInv == \A s \in Schedulers : \A tick \in Ticks : scheduler[s] = tick => OutcomeOK(tick)

LEMMA OutcomesStay ==
    ASSUME NEW tick, OutcomeOK(tick), UNCHANGED zone, DOMAIN editions \subseteq DOMAIN editions'
    PROVE  OutcomeOK(tick)'
<1>1. /\ DueEditions(tick.read)' = DueEditions(tick.read)
      /\ LastEdition(tick.read)' = LastEdition(tick.read)
      /\ IsShownAgain(LastEdition(tick.read), tick.read)'
            <=> IsShownAgain(LastEdition(tick.read), tick.read)
      /\ IsNeverShown(tick.read)' <=> IsNeverShown(tick.read)
  BY DEF DueEditions, LastEdition, IsShownAgain, IsNeverShown, EditionHours, SlotAt, Slot,
         DayOf, Wall, WallOf
<1> QED
  BY <1>1 DEF OutcomeOK, Plans

\* A tick that goes on, while no edition is lost.
LEMMA TicksGoOn ==
    ASSUME PlanInv, ScheduleTypeOK, UNCHANGED zone, DOMAIN editions \subseteq DOMAIN editions',
           NEW s \in Schedulers, NEW tick \in Ticks, OutcomeOK(tick)',
           scheduler' = [scheduler EXCEPT ![s] = tick]
    PROVE  PlanInv'
<1> SUFFICES ASSUME NEW r \in Schedulers, NEW next \in Ticks, scheduler'[r] = next
             PROVE  OutcomeOK(next)'
  BY DEF PlanInv
<1>1. CASE r = s
  <2>1. next = tick
    BY <1>1 DEF ScheduleTypeOK
  <2> QED
    BY <2>1
<1>2. CASE r # s
  <2>1. scheduler[r] = next
    BY <1>2 DEF ScheduleTypeOK
  <2>2. OutcomeOK(next)
    BY <2>1 DEF PlanInv
  <2> QED
    BY <2>2, OutcomesStay
<1> QED
  BY <1>1, <1>2

\* Ticks that wait, while no edition is lost.
LEMMA TicksWait ==
    ASSUME PlanInv, UNCHANGED zone, UNCHANGED scheduler, DOMAIN editions \subseteq DOMAIN editions'
    PROVE  PlanInv'
<1> SUFFICES ASSUME NEW s \in Schedulers, NEW tick \in Ticks, scheduler[s] = tick
             PROVE  OutcomeOK(tick)'
  BY DEF PlanInv
<1>1. OutcomeOK(tick)
  BY DEF PlanInv
<1> QED
  BY <1>1, OutcomesStay

LEMMA OutcomeOfDone ==
    ASSUME NEW outcome, NEW read
    PROVE  Done(outcome, read).at = outcome /\ Done(outcome, read).read = read
BY DEF Done

LEMMA BeginTickPlans ==
    ASSUME SteadyClocks, PlanInv, ScheduleTypeOK, NEW s \in Schedulers, BeginTick(s)
    PROVE  PlanInv'
<1>1. UNCHANGED zone /\ UNCHANGED editions /\ clock \in Hours
  BY ClockIsHour DEF BeginTick
<1>2. ASSUME NEW tick \in Ticks, OutcomeOK(tick), scheduler' = [scheduler EXCEPT ![s] = tick]
      PROVE  PlanInv'
  BY <1>1, <1>2, OutcomesStay, TicksGoOn
<1>3. CASE NoSuchTime
  <2> DEFINE tick == Done("thrown", clock)
  <2>1. scheduler' = [scheduler EXCEPT ![s] = tick]
    BY <1>3 DEF BeginTick
  <2>2. tick \in Ticks /\ tick.at = "thrown" /\ tick.read = clock
    BY <1>1, DoneIsTick, OutcomeOfDone
  <2> HIDE DEF tick
  <2>3. OutcomeOK(tick)
    BY <1>3, <2>2, ThrownForReason DEF OutcomeOK
  <2> QED
    BY <1>2, <2>1, <2>2, <2>3
<1>4. CASE ~NoSuchTime /\ EligibleSlots = {}
  <2> DEFINE tick == Done("none", clock)
  <2>1. scheduler' = [scheduler EXCEPT ![s] = tick]
    BY <1>4 DEF BeginTick
  <2>2. tick \in Ticks /\ tick.at = "none" /\ tick.read = clock
    BY <1>1, DoneIsTick, OutcomeOfDone
  <2> HIDE DEF tick
  <2>3. OutcomeOK(tick)
    BY <1>4, <2>2, LastIsFound DEF OutcomeOK
  <2> QED
    BY <1>2, <2>1, <2>2, <2>3
<1>5. CASE ~NoSuchTime /\ EligibleSlots # {}
  <2> DEFINE tick == [at |-> "insert", slot |-> LatestSlot, read |-> clock]
  <2>1. scheduler' = [scheduler EXCEPT ![s] = tick]
    BY <1>5 DEF BeginTick
  <2>2. IsDue(LatestSlot)
    BY <1>5, LatestIsDue
  <2>3. tick \in Ticks /\ tick.at = "insert" /\ tick.slot = LatestSlot /\ tick.read = clock
    BY <1>1, <2>2 DEF Ticks, IsDue, Slots
  <2> HIDE DEF tick
  <2>4. Plans(LatestSlot, clock)
    BY <1>5, LastIsFound DEF Plans
  <2>5. OutcomeOK(tick)
    BY <2>3, <2>4 DEF OutcomeOK
  <2> QED
    BY <1>2, <2>1, <2>3, <2>5
<1> QED
  BY <1>3, <1>4, <1>5

\* ensureScheduledDigestRun: what was planned is there.
LEMMA PlannedIsThere ==
    ASSUME NEW slot, NEW tick, tick.at = "scheduled", Plans(slot, tick.read),
           UNCHANGED zone, slot \in DOMAIN editions'
    PROVE  OutcomeOK(tick)'
<1>1. /\ DueEditions(tick.read)' = DueEditions(tick.read)
      /\ LastEdition(tick.read)' = LastEdition(tick.read)
      /\ IsShownAgain(LastEdition(tick.read), tick.read)'
            <=> IsShownAgain(LastEdition(tick.read), tick.read)
  BY DEF DueEditions, LastEdition, IsShownAgain, EditionHours, SlotAt, Slot, DayOf, Wall
<1> QED
  BY <1>1 DEF OutcomeOK, Plans

LEMMA InsertRunPlans ==
    ASSUME PlanInv, ScheduleTypeOK, NEW s \in Schedulers, InsertRun(s) \/ FindRun(s)
    PROVE  PlanInv'
<1>1. PICK now \in Ticks : now = scheduler[s]
  BY DEF ScheduleTypeOK
<1>2. /\ now.at \in {"insert", "find"} /\ UNCHANGED zone
      /\ DOMAIN editions \subseteq DOMAIN editions'
  BY <1>1 DEF InsertRun, FindRun
<1>3. OutcomeOK(now) /\ Plans(now.slot, now.read)
  BY <1>1, <1>2 DEF PlanInv, OutcomeOK
<1> DEFINE done == Done("scheduled", now.read)
           find == [now EXCEPT !.at = "find"]
<1>4. \/ scheduler' = [scheduler EXCEPT ![s] = done] /\ now.slot \in DOMAIN editions'
      \/ scheduler' = [scheduler EXCEPT ![s] = find] /\ now.at = "insert"
  BY <1>1 DEF InsertRun, FindRun, IsNew
<1>5. done \in Ticks /\ done.at = "scheduled" /\ done.read = now.read
  BY DoneIsTick, OutcomeOfDone DEF Ticks
<1>6. find \in Ticks /\ find.at = "find" /\ find.read = now.read /\ find.slot = now.slot
  BY DEF Ticks
<1> HIDE DEF done, find
<1>7. CASE scheduler' = [scheduler EXCEPT ![s] = done] /\ now.slot \in DOMAIN editions'
  <2>1. OutcomeOK(done)'
    BY <1>2, <1>3, <1>5, <1>7, PlannedIsThere
  <2> QED
    BY <1>2, <1>5, <1>7, <2>1, TicksGoOn
<1>8. CASE scheduler' = [scheduler EXCEPT ![s] = find] /\ now.at = "insert"
  <2>1. OutcomeOK(find)
    BY <1>3, <1>6 DEF OutcomeOK
  <2> QED
    BY <1>2, <1>6, <1>8, <2>1, OutcomesStay, TicksGoOn
<1> QED
  BY <1>4, <1>7, <1>8

-----------------------------------------------------------------------------
(* The theorems.                                                           *)

\* The inductive invariant of the schedule: a tick that is about to insert a
\* run, and every run there is, has a slot whose hour has come; what was chosen
\* for an edition still differs from the edition that was before it then.
THEOREM EditionsAlways == ScheduleSpec => []EditionInv
<1>1. ScheduleInit => EditionInv
  BY EditionsInitially
<1>2. EditionInv /\ [ScheduleNext \/ DemandNext]_scheduleVars => EditionInv'
  <2> SUFFICES ASSUME EditionInv, [ScheduleNext \/ DemandNext]_scheduleVars
               PROVE  EditionInv'
    OBVIOUS
  <2>1. CASE HourPasses
    BY <2>1, HourPassesIsOK
  <2>2. CASE \E s \in Schedulers : BeginTick(s) \/ InsertRun(s) \/ FindRun(s)
    BY <2>2, BeginTickIsOK, InsertRunIsOK, FindRunIsOK
  <2>3. CASE \E e \in DOMAIN editions : CollectEdition(e) \/ EndEdition(e)
    BY <2>3, CollectEditionIsOK, EndEditionIsOK
  <2>4. CASE DemandNext
    BY <2>4, DemandIsOK
  <2>5. CASE UNCHANGED scheduleVars
    BY <2>5, EditionsStutter
  <2> QED
    BY <2>1, <2>2, <2>3, <2>4, <2>5 DEF ScheduleNext
<1> QED
  BY <1>1, <1>2, PTL DEF ScheduleSpec

\* A reader does not find a story of the last edition again
\* (getPreviousScheduledStoryIds, ingestTopStories), however late editions are
\* collected and whichever scheduler began them.
THEOREM EditionsDiffer == ScheduleSpec => []NoStoryTwiceInARow
<1>1. EditionInv => NoStoryTwiceInARow
  BY DEF EditionInv, EditionOK, Apart, NoStoryTwiceInARow
<1> QED
  BY <1>1, EditionsAlways, PTL

\* Every run is for the hour its slot names, is not begun before it, and is the
\* only one for it (localDateTimeToUtc, latestEligibleRun,
\* ensureScheduledDigestRun), in every time zone.
THEOREM RunsHaveTheirHour == ScheduleSpec => []RunsAreInTime
<1>1. EditionInv => RunsAreInTime
  <2> SUFFICES ASSUME EditionInv, NEW e \in DOMAIN editions
               PROVE  /\ Wall(editions[e].for) = WallOf(e)
                      /\ editions[e].for <= clock
                      /\ \A o \in DOMAIN editions :
                            editions[o].for = editions[e].for => o = e
    BY DEF RunsAreInTime
  <2>1. \A o \in DOMAIN editions : IsDue(o) /\ editions[o].for = ToUtc(WallOf(o))
    BY DEF EditionInv, EditionOK
  <2>2. \A o \in DOMAIN editions : Wall(editions[o].for) = WallOf(o)
    BY <2>1, UtcOfWall DEF IsDue
  <2>3. \A o \in DOMAIN editions : editions[o].for = editions[e].for => o = e
    BY <2>1, <2>2, SlotsDiffer DEF IsDue
  <2> QED
    BY <2>1, <2>2, <2>3 DEF IsDue
<1> QED
  BY <1>1, EditionsAlways, PTL

\* No step takes a run back or forgets it: the insert that finds the schedule
\* key taken changes nothing (ensureScheduledDigestRun), and a run is collected
\* once.
THEOREM RunsStay == ScheduleSpec => RunsAreKept
<1> DEFINE Kept == \A e \in DOMAIN editions :
                      /\ e \in DOMAIN editions'
                      /\ editions[e].status # "pending" =>
                            editions'[e].status # "pending"
                            /\ editions'[e].stories = editions[e].stories
<1>1. EditionInv /\ [ScheduleNext \/ DemandNext]_scheduleVars => [Kept]_scheduleVars
  <2> SUFFICES ASSUME EditionInv, ScheduleNext \/ DemandNext
               PROVE  Kept
    OBVIOUS
  <2>1. CASE HourPasses
    BY <2>1 DEF HourPasses
  <2>2. CASE \E s \in Schedulers : BeginTick(s) \/ FindRun(s)
    BY <2>2 DEF BeginTick, FindRun
  <2>3. ASSUME NEW s \in Schedulers, InsertRun(s)
        PROVE  Kept
    BY <2>3 DEF InsertRun, IsNew
  <2>4. ASSUME NEW e \in DOMAIN editions, CollectEdition(e)
        PROVE  Kept
    <3>1. editions[e].status = "pending"
      BY <2>4 DEF CollectEdition
    <3>2. DOMAIN editions' = DOMAIN editions
          /\ \A o \in DOMAIN editions \ {e} : editions'[o] = editions[o]
      BY <2>4 DEF CollectEdition
    <3> QED
      BY <3>1, <3>2
  <2>5. ASSUME NEW e \in DOMAIN editions, EndEdition(e)
        PROVE  Kept
    <3>1. PICK status \in {"complete", "failed"} :
              editions' = [editions EXCEPT ![e].status = status]
      BY <2>5 DEF EndEdition
    <3>2. editions[e] \in Edition
      BY DEF EditionInv, ScheduleTypeOK
    <3>3. /\ DOMAIN editions' = DOMAIN editions
          /\ \A o \in DOMAIN editions \ {e} : editions'[o] = editions[o]
          /\ editions'[e].stories = editions[e].stories
          /\ editions'[e].status = status
      BY <3>1, <3>2 DEF Edition
    <3> QED
      BY <3>3
  <2>6. CASE DemandNext
    BY <2>6 DEF DemandNext, AskForRun, FindActiveRun, EndRunOnDemand
  <2> QED
    BY <2>1, <2>2, <2>3, <2>4, <2>5, <2>6 DEF ScheduleNext
<1> QED
  BY <1>1, EditionsAlways, PTL DEF ScheduleSpec, RunsAreKept

\* The inductive invariant of what ticks promise, in zones whose clocks are
\* steady.
THEOREM PlansAlways == ASSUME SteadyClocks PROVE ScheduleSpec => []PlanInv
<1>1. ScheduleInit => PlanInv
  <2> SUFFICES ASSUME ScheduleInit, NEW s \in Schedulers, NEW tick \in Ticks,
                      scheduler[s] = tick
               PROVE  OutcomeOK(tick)
    BY DEF PlanInv
  <2>1. tick.at = "idle"
    BY DEF ScheduleInit, Done
  <2> QED
    BY <2>1 DEF OutcomeOK
<1>2. EditionInv /\ PlanInv /\ [ScheduleNext \/ DemandNext]_scheduleVars => PlanInv'
  <2> SUFFICES ASSUME EditionInv, PlanInv, [ScheduleNext \/ DemandNext]_scheduleVars
               PROVE  PlanInv'
    OBVIOUS
  <2>1. ScheduleTypeOK
    BY DEF EditionInv
  <2>2. CASE HourPasses
    BY <2>2, TicksWait DEF HourPasses
  <2>3. ASSUME NEW s \in Schedulers, BeginTick(s)
        PROVE  PlanInv'
    BY <2>1, <2>3, BeginTickPlans
  <2>4. ASSUME NEW s \in Schedulers, InsertRun(s) \/ FindRun(s)
        PROVE  PlanInv'
    BY <2>1, <2>4, InsertRunPlans
  <2>5. ASSUME NEW e \in DOMAIN editions, CollectEdition(e) \/ EndEdition(e)
        PROVE  PlanInv'
    BY <2>5, TicksWait DEF CollectEdition, EndEdition
  <2>6. CASE DemandNext
    BY <2>6, TicksWait DEF DemandNext, AskForRun, FindActiveRun, EndRunOnDemand
  <2>7. CASE UNCHANGED scheduleVars
    BY <2>7, TicksWait DEF scheduleVars
  <2> QED
    BY <2>2, <2>3, <2>4, <2>5, <2>6, <2>7 DEF ScheduleNext
<1> QED
  BY <1>1, <1>2, EditionsAlways, PTL DEF ScheduleSpec

\* No edition is missed (findLatestEligibleSlot, ensureScheduledDigestRun):
\* once a scheduler has looked, the last edition that was due is there, in any
\* zone whose clocks are never more than an hour apart.
THEOREM EditionsAreThere ==
    ASSUME SteadyClocks PROVE ScheduleSpec => []EditionsAreScheduled
<1>1. EditionInv /\ PlanInv => EditionsAreScheduled
  <2> SUFFICES ASSUME EditionInv, PlanInv, NEW s \in Schedulers
               PROVE  OutcomeOK(scheduler[s])
    BY DEF EditionsAreScheduled, OutcomeOK, IsNeverShown
  <2>1. scheduler[s] \in Ticks
    BY DEF EditionInv, ScheduleTypeOK
  <2> QED
    BY <2>1 DEF PlanInv
<1> QED
  BY <1>1, EditionsAlways, PlansAlways, PTL

\* Who is told that no run is in the way of another (createRun) asked while one
\* was that ended meanwhile.
THEOREM RefusersAreTold == ScheduleSpec => []RefusalsNameTheRun
<1>1. EditionInv => RefusalsNameTheRun
  BY DEF EditionInv
<1> QED
  BY <1>1, EditionsAlways, PTL

\* What EditionsAreMade promises, altogether.
THEOREM EditionsAreMadeAlways ==
    ASSUME SteadyClocks PROVE ScheduleSpec => EditionsAreMade
<1>1. EditionInv => ScheduleTypeOK
  BY DEF EditionInv
<1> QED
  BY <1>1, EditionsAlways, EditionsAreThere, RunsHaveTheirHour, RefusersAreTold, RunsStay, PTL
     DEF EditionsAreMade

-----------------------------------------------------------------------------
Answered == Decided({"allowed", "refused"})

\* What r has counted for k and not committed: one more in the window of the
\* row that is committed, or the first in a new one.
CountedOK(r, k) ==
    LET q == requests[r]
        w == q.writes[k]
    IN
    /\ q.windows[k] = w.expires /\ q.now < w.expires
    /\ \/ /\ IsThere(limits[k])
          /\ w.count = limits[k].count + 1 /\ w.expires = limits[k].expires
       \/ /\ w.count = 1 /\ w.expires = q.now + Window
          /\ IsThere(limits[k]) => limits[k].expires <= q.now

\* A transaction holds the rows it wrote; it has deleted rows that had expired,
\* and counted for identities that are not left.
TransactionOK(r) ==
    LET q == requests[r] IN
    /\ q.now <= moment
    /\ \A k \in DOMAIN q.writes : r \in rowLock[k]
    /\ DOMAIN q.windows \subseteq DOMAIN q.writes
    /\ \A k \in DOMAIN q.writes \ DOMAIN q.windows :
          q.writes[k] = NoLimit /\ limits[k].expires < q.now
    /\ \A k \in DOMAIN q.windows : CountedOK(r, k)
    /\ q.allowed <=> \A k \in DOMAIN q.windows : Within(q.writes[k].count)
    /\ IsInjective(q.left)
    /\ \A i \in DOMAIN q.left :
          q.left[i] \in ToSet(IdentitiesOf[r]) \ DOMAIN q.windows
    /\ q.at = "counting" => q.left # <<>>

RequestOK(r) ==
    LET q == requests[r] IN
    /\ DOMAIN q.windows \subseteq ToSet(IdentitiesOf[r])
    /\ q.at \in {"idle", "deleting"} => DOMAIN q.windows = {}
    /\ q.at = "idle" => DOMAIN q.writes = {} /\ q.allowed
    /\ InTransaction(r) => TransactionOK(r)

\* A row counts the answered requests of its window, the latest there was.
RowOK(k) ==
    /\ IsThere(limits[k]) =>
          limits[k].count = Cardinality(CountedIn(k, limits[k].expires))
    /\ \A r \in Answered : k \in DOMAIN requests[r].windows =>
          requests[r].windows[k] <= IF IsThere(limits[k]) THEN limits[k].expires ELSE moment

\* The inductive invariant.
LimitsInv ==
    /\ LimitsTypeOK
    /\ \A r \in Requests : RequestOK(r)
    /\ \A k \in Identities : RowOK(k)
    /\ LimitIsKept
    /\ RefusedForCause

-----------------------------------------------------------------------------
(* Locks and columns.                                                      *)

LEMMA OneHolder ==
    ASSUME NEW S, IsFiniteSet(S), Cardinality(S) <= 1, NEW a \in S, NEW b \in S
    PROVE  a = b
<1>1. SUFFICES ASSUME a # b PROVE FALSE
  OBVIOUS
<1>2. /\ IsFiniteSet(S \ {a}) /\ Cardinality(S \ {a}) = Cardinality(S) - 1
      /\ IsFiniteSet((S \ {a}) \ {b})
      /\ Cardinality((S \ {a}) \ {b}) = Cardinality(S \ {a}) - 1
  BY <1>1, FS_RemoveElement
<1>3. Cardinality(S) \in Nat /\ Cardinality((S \ {a}) \ {b}) \in Nat
  BY <1>2, FS_CardinalityType
<1> QED
  BY <1>2, <1>3

LEMMA FewHolders ==
    ASSUME NEW S, NEW r, S \subseteq {r}
    PROVE  Cardinality(S) <= 1
BY FS_EmptySet, FS_Singleton

LEMMA FewerHolders ==
    ASSUME NEW S, IsFiniteSet(S), Cardinality(S) <= 1, NEW T, T \subseteq S
    PROVE  Cardinality(T) <= 1
<1>1. Cardinality(T) <= Cardinality(S) /\ Cardinality(S) \in Nat /\ Cardinality(T) \in Nat
  BY FS_Subset, FS_CardinalityType
<1> QED
  BY <1>1

LEMMA LocksReleased ==
    ASSUME LimitsTypeOK, NEW r, NEW k \in Identities
    PROVE  Cardinality(rowLock[k] \ {r}) <= 1 /\ Cardinality(identityLock[k] \ {r}) <= 1
<1>1. /\ rowLock[k] \subseteq Requests /\ Cardinality(rowLock[k]) <= 1
      /\ identityLock[k] \subseteq Requests /\ Cardinality(identityLock[k]) <= 1
  BY DEF LimitsTypeOK
<1>2. IsFiniteSet(rowLock[k]) /\ IsFiniteSet(identityLock[k])
  BY <1>1, FS_Subset, LimitsAssumption
<1> QED
  BY <1>1, <1>2, FewerHolders

\* Two requests never wrote the same row.
LEMMA RowsAreExclusive ==
    ASSUME LimitsTypeOK, NEW k \in Identities, NEW r \in rowLock[k], NEW s \in rowLock[k]
    PROVE  r = s
<1>1. rowLock[k] \subseteq Requests /\ Cardinality(rowLock[k]) <= 1
  BY DEF LimitsTypeOK
<1>2. IsFiniteSet(rowLock[k])
  BY <1>1, FS_Subset, LimitsAssumption
<1> QED
  BY <1>1, <1>2, OneHolder

LEMMA WrittenColumns ==
    ASSUME NEW f, NEW S
    PROVE  f \in UNION {[D -> S] : D \in SUBSET Identities}
              <=> /\ f = [k \in DOMAIN f |-> f[k]] /\ DOMAIN f \subseteq Identities
                  /\ \A k \in DOMAIN f : f[k] \in S
OBVIOUS

LEMMA RequestColumns ==
    ASSUME LimitsTypeOK, NEW r \in Requests
    PROVE  LET q == requests[r] IN
           /\ q \in LimitedRequest
           /\ q.at \in {"idle", "deleting", "locking", "counting", "allowed", "refused",
                        "aborted"}
           /\ q.now \in 0 .. LastMoment /\ q.left \in Seq(Identities)
           /\ q.allowed \in BOOLEAN
           /\ q.writes \in WrittenRows /\ q.windows \in CountedWindows
           /\ DOMAIN q.writes \subseteq Identities /\ DOMAIN q.windows \subseteq Identities
           /\ \A k \in DOMAIN q.writes : q.writes[k] \in LimitRow
           /\ \A k \in DOMAIN q.windows : q.windows[k] \in 1 .. LastMoment + Window
<1>1. requests[r] \in LimitedRequest
  BY DEF LimitsTypeOK
<1>2. requests[r].writes \in WrittenRows /\ requests[r].windows \in CountedWindows
  BY <1>1 DEF LimitedRequest
<1>3. /\ DOMAIN requests[r].writes \subseteq Identities
      /\ \A k \in DOMAIN requests[r].writes : requests[r].writes[k] \in LimitRow
  BY <1>2, WrittenColumns DEF WrittenRows
<1>4. /\ DOMAIN requests[r].windows \subseteq Identities
      /\ \A k \in DOMAIN requests[r].windows :
            requests[r].windows[k] \in 1 .. LastMoment + Window
  BY <1>2, WrittenColumns DEF CountedWindows
<1> QED
  BY <1>1, <1>2, <1>3, <1>4 DEF LimitedRequest

LEMMA NumbersAreThere ==
    /\ Limit \in Nat \ {0} /\ Window \in Nat \ {0}
    /\ MaxDelay \in Nat \ {0} /\ LastMoment \in Nat \ {0} /\ MaxDelay < Window
    /\ Cardinality(Requests) \in Nat
BY LimitsAssumption, FS_CardinalityType

LEMMA RowColumns ==
    ASSUME LimitsTypeOK, NEW k \in Identities
    PROVE  /\ limits[k] \in LimitRow
           /\ limits[k].count \in Nat /\ limits[k].expires \in Nat
           /\ NoLimit \in LimitRow /\ ~IsThere(NoLimit)
<1>1. limits[k] \in LimitRow
  BY DEF LimitsTypeOK
<1>2. \A row \in LimitRow : row.count \in Nat /\ row.expires \in Nat
  BY NumbersAreThere DEF LimitRow
<1>3. NoLimit \in LimitRow
  BY NumbersAreThere DEF NoLimit, LimitRow
<1> QED
  BY <1>1, <1>2, <1>3 DEF NoLimit, IsThere

LEMMA WriteAdded ==
    ASSUME NEW f \in WrittenRows, NEW k \in Identities, NEW v \in LimitRow,
           NEW g, g = [i \in DOMAIN g |-> g[i]], DOMAIN g = DOMAIN f \cup {k},
           \A i \in DOMAIN g : g[i] = IF i = k THEN v ELSE f[i]
    PROVE  /\ g \in WrittenRows
           /\ DOMAIN g = DOMAIN f \cup {k} /\ g[k] = v
           /\ \A i \in DOMAIN f \ {k} : g[i] = f[i]
<1>1. /\ DOMAIN g = DOMAIN f \cup {k} /\ g[k] = v
      /\ \A i \in DOMAIN f \ {k} : g[i] = f[i]
      /\ g = [i \in DOMAIN g |-> g[i]]
  OBVIOUS
<1>2. DOMAIN f \subseteq Identities /\ \A i \in DOMAIN f : f[i] \in LimitRow
  BY WrittenColumns DEF WrittenRows
<1>3. DOMAIN g \subseteq Identities /\ \A i \in DOMAIN g : g[i] \in LimitRow
  BY <1>1, <1>2
<1>4. g \in WrittenRows
  BY <1>1, <1>3, WrittenColumns DEF WrittenRows
<1> QED
  BY <1>1, <1>4

LEMMA WindowAdded ==
    ASSUME NEW f \in CountedWindows, NEW k \in Identities, NEW v \in 1 .. LastMoment + Window,
           NEW g, g = [i \in DOMAIN g |-> g[i]], DOMAIN g = DOMAIN f \cup {k},
           \A i \in DOMAIN g : g[i] = IF i = k THEN v ELSE f[i]
    PROVE  /\ g \in CountedWindows
           /\ DOMAIN g = DOMAIN f \cup {k} /\ g[k] = v
           /\ \A i \in DOMAIN f \ {k} : g[i] = f[i]
<1>1. /\ DOMAIN g = DOMAIN f \cup {k} /\ g[k] = v
      /\ \A i \in DOMAIN f \ {k} : g[i] = f[i]
      /\ g = [i \in DOMAIN g |-> g[i]]
  OBVIOUS
<1>2. DOMAIN f \subseteq Identities /\ \A i \in DOMAIN f : f[i] \in 1 .. LastMoment + Window
  BY WrittenColumns DEF CountedWindows
<1>3. DOMAIN g \subseteq Identities /\ \A i \in DOMAIN g : g[i] \in 1 .. LastMoment + Window
  BY <1>1, <1>2
<1>4. g \in CountedWindows
  BY <1>1, <1>3, WrittenColumns DEF CountedWindows
<1> QED
  BY <1>1, <1>4

-----------------------------------------------------------------------------
(* Requests that others take steps beside.                                 *)

LEMMA OthersStay ==
    ASSUME LimitsInv, NEW s \in Requests,
           requests'[s] = requests[s], moment <= moment', moment' \in Nat,
           InTransaction(s) =>
              \A k \in DOMAIN requests[s].writes : s \in rowLock'[k] /\ limits'[k] = limits[k]
    PROVE  RequestOK(s)'
<1>1. RequestOK(s)
  BY DEF LimitsInv
<1>2. /\ requests[s].now \in Nat /\ moment \in Nat
  BY RequestColumns, NumbersAreThere DEF LimitsInv, LimitsTypeOK
<1>3. InTransaction(s)' <=> InTransaction(s)
  BY DEF InTransaction
<1>4. ASSUME InTransaction(s) PROVE TransactionOK(s)'
  <2>1. TransactionOK(s)
    BY <1>1, <1>4 DEF RequestOK
  <2>2. requests[s].now <= moment'
    BY <1>2, <2>1 DEF TransactionOK
  <2>3. \A k \in DOMAIN requests[s].windows : limits'[k] = limits[k]
    BY <1>4, <2>1 DEF TransactionOK
  <2>4. \A k \in DOMAIN requests[s].windows : CountedOK(s, k)'
    BY <2>1, <2>3 DEF TransactionOK, CountedOK
  <2> QED
    BY <1>4, <2>1, <2>2, <2>4 DEF TransactionOK
<1> QED
  BY <1>1, <1>3, <1>4 DEF RequestOK

\* The windows that were counted in change only when a request is answered.
LEMMA SameAnswers ==
    ASSUME \A s \in Requests :
              \/ requests'[s] = requests[s]
              \/ /\ requests[s].at \notin {"allowed", "refused"}
                 /\ requests'[s].at \notin {"allowed", "refused"}
    PROVE  /\ \A outcomes \in SUBSET {"allowed", "refused"} :
                 Decided(outcomes)' = Decided(outcomes)
           /\ Answered' = Answered
           /\ \A s \in Answered : requests'[s] = requests[s]
           /\ \A k, end : CountedIn(k, end)' = CountedIn(k, end)
<1>1. \A outcomes \in SUBSET {"allowed", "refused"} :
          {r \in Requests : requests'[r].at \in outcomes}
             = {r \in Requests : requests[r].at \in outcomes}
  OBVIOUS
<1>2. /\ \A outcomes \in SUBSET {"allowed", "refused"} :
             Decided(outcomes)' = Decided(outcomes)
      /\ Answered' = Answered
  BY <1>1 DEF Decided, Answered
<1>3. \A s \in Answered : requests'[s] = requests[s]
  BY DEF Answered, Decided
<1>4. \A k, end : CountedIn(k, end)' = CountedIn(k, end)
  BY <1>2, <1>3 DEF CountedIn, Answered
<1> QED
  BY <1>2, <1>3, <1>4

LEMMA AnswersAreCounted ==
    ASSUME LimitsInv, UNCHANGED limits, moment <= moment', moment' \in Nat,
           \A s \in Requests :
              \/ requests'[s] = requests[s]
              \/ /\ requests[s].at \notin {"allowed", "refused"}
                 /\ requests'[s].at \notin {"allowed", "refused"}
    PROVE  (\A k \in Identities : RowOK(k)') /\ LimitIsKept' /\ RefusedForCause'
<1>1. /\ Answered' = Answered
      /\ Decided({"allowed"})' = Decided({"allowed"})
      /\ Decided({"refused"})' = Decided({"refused"})
      /\ \A s \in Answered : requests'[s] = requests[s]
      /\ \A k, end : CountedIn(k, end)' = CountedIn(k, end)
  BY SameAnswers
<1>2. ASSUME NEW k \in Identities PROVE RowOK(k)'
  <2>1. RowOK(k)
    BY DEF LimitsInv
  <2>2. \A r \in Answered : k \in DOMAIN requests[r].windows =>
            requests[r].windows[k] \in Nat
    BY RequestColumns, NumbersAreThere DEF LimitsInv, Answered, Decided
  <2>3. moment \in Nat
    BY NumbersAreThere DEF LimitsInv, LimitsTypeOK
  <2>4. \A r \in Answered' : k \in DOMAIN requests'[r].windows =>
            requests'[r].windows[k]
               <= IF IsThere(limits'[k]) THEN limits'[k].expires ELSE moment'
    BY <1>1, <2>1, <2>2, <2>3 DEF RowOK
  <2> QED
    BY <1>1, <2>1, <2>4 DEF RowOK
<1>3. LimitIsKept'
  BY <1>1 DEF LimitIsKept, LimitsInv
<1>4. Decided({"refused"}) \subseteq Answered
  BY DEF Answered, Decided
<1>5. RefusedForCause'
  BY <1>1, <1>4 DEF RefusedForCause, LimitsInv
<1> QED
  BY <1>2, <1>3, <1>5

\* A step of r that neither commits nor takes time.
LEMMA StepKeepsInv ==
    ASSUME LimitsInv, NEW r \in Requests, NEW new \in LimitedRequest,
           requests' = [requests EXCEPT ![r] = new],
           requests[r].at \notin {"allowed", "refused"},
           new.at \notin {"allowed", "refused"},
           UNCHANGED <<moment, limits>>,
           {rowLock', identityLock'} \subseteq [Identities -> SUBSET Requests],
           \A k \in Identities :
              /\ Cardinality(rowLock'[k]) <= 1 /\ Cardinality(identityLock'[k]) <= 1
              /\ rowLock[k] \ {r} \subseteq rowLock'[k],
           RequestOK(r)',
           InTransaction(r)' => moment - new.now <= MaxDelay
    PROVE  LimitsInv'
<1>1. /\ requests' \in [Requests -> LimitedRequest] /\ requests'[r] = new
      /\ \A s \in Requests \ {r} : requests'[s] = requests[s]
  BY DEF LimitsInv, LimitsTypeOK
<1>2. moment \in Nat
  BY NumbersAreThere DEF LimitsInv, LimitsTypeOK
<1>3. LimitsTypeOK'
  BY <1>1 DEF LimitsInv, LimitsTypeOK, InTransaction
<1>4. ASSUME NEW s \in Requests \ {r} PROVE RequestOK(s)'
  <2>1. InTransaction(s) =>
            \A k \in DOMAIN requests[s].writes : k \in Identities /\ s \in rowLock[k]
    BY RequestColumns DEF LimitsInv, RequestOK, TransactionOK
  <2> QED
    BY <1>1, <1>2, <2>1, OthersStay
<1>5. (\A k \in Identities : RowOK(k)') /\ LimitIsKept' /\ RefusedForCause'
  BY <1>1, <1>2, AnswersAreCounted
<1> QED
  BY <1>3, <1>4, <1>5 DEF LimitsInv

-----------------------------------------------------------------------------
(* The steps.                                                              *)

LEMMA LimitsInitially == LimitsInit => LimitsInv
<1> SUFFICES ASSUME LimitsInit PROVE LimitsInv
  OBVIOUS
<1>1. /\ moment \in 0 .. LastMoment /\ NoLimit \in LimitRow /\ ~IsThere(NoLimit)
      /\ limits \in [Identities -> LimitRow]
  BY NumbersAreThere DEF LimitsInit, NoLimit, LimitRow, IsThere
<1>2. /\ {rowLock, identityLock} \subseteq [Identities -> SUBSET Requests]
      /\ \A k \in Identities :
            Cardinality(rowLock[k]) <= 1 /\ Cardinality(identityLock[k]) <= 1
  BY FS_EmptySet DEF LimitsInit
<1>3. <<>> \in WrittenRows /\ <<>> \in CountedWindows
  <2>1. <<>> \in [{} -> LimitRow] /\ <<>> \in [{} -> 1 .. LastMoment + Window]
    OBVIOUS
  <2> QED
    BY <2>1 DEF WrittenRows, CountedWindows
<1>4. \A r \in Requests : /\ requests[r].at = "idle" /\ requests[r].allowed
                          /\ requests[r].windows = <<>> /\ requests[r].writes = <<>>
  BY DEF LimitsInit
<1>5. requests \in [Requests -> LimitedRequest]
  <2>1. [at |-> "idle", now |-> 0, left |-> <<>>, allowed |-> TRUE,
         writes |-> <<>>, windows |-> <<>>] \in LimitedRequest
    BY <1>3, NumbersAreThere DEF LimitedRequest
  <2> QED
    BY <2>1 DEF LimitsInit
<1>6. LimitsTypeOK
  BY <1>1, <1>2, <1>4, <1>5 DEF LimitsTypeOK, InTransaction
<1>7. \A r \in Requests : RequestOK(r)
  BY <1>4 DEF RequestOK, InTransaction
<1>8. \A outcomes \in SUBSET {"allowed", "refused"} : Decided(outcomes) = {}
  BY <1>4 DEF Decided
<1>9. \A k \in Identities : RowOK(k)
  BY <1>1, <1>8 DEF RowOK, Answered, LimitsInit
<1>10. LimitIsKept /\ RefusedForCause
  <2>1. \A k \in Identities : ~IsThere(limits[k])
    BY <1>1 DEF LimitsInit
  <2>2. \A k, end : CountedIn(k, end) \cap Decided({"allowed"}) = {}
    BY <1>8
  <2>3. Cardinality({}) <= Limit
    BY FS_EmptySet, NumbersAreThere
  <2>4. RefusedForCause
    BY <1>8 DEF RefusedForCause
  <2> QED
    BY <2>1, <2>2, <2>3, <2>4 DEF LimitIsKept
<1> QED
  BY <1>6, <1>7, <1>9, <1>10 DEF LimitsInv

LEMMA MomentIsOK == LimitsInv /\ MomentPasses => LimitsInv'
<1> SUFFICES ASSUME LimitsInv, MomentPasses PROVE LimitsInv'
  OBVIOUS
<1>1. moment \in Nat /\ moment' \in 0 .. LastMoment /\ moment' = moment + 1
  BY NumbersAreThere DEF LimitsInv, LimitsTypeOK, MomentPasses
<1>2. \A r \in Requests : InTransaction(r)' => moment' - requests[r].now <= MaxDelay
  BY <1>1, RequestColumns, NumbersAreThere DEF LimitsInv, MomentPasses, InTransaction
<1>3. LimitsTypeOK'
  BY <1>1, <1>2 DEF LimitsInv, LimitsTypeOK, MomentPasses
<1>4. ASSUME NEW r \in Requests PROVE RequestOK(r)'
  <2>1. InTransaction(r) =>
            \A k \in DOMAIN requests[r].writes : r \in rowLock[k]
    BY DEF LimitsInv, RequestOK, TransactionOK
  <2> QED
    BY <1>1, <2>1, OthersStay DEF MomentPasses
<1>5. (\A k \in Identities : RowOK(k)') /\ LimitIsKept' /\ RefusedForCause'
  BY <1>1, AnswersAreCounted DEF MomentPasses
<1> QED
  BY <1>3, <1>4, <1>5 DEF LimitsInv

LEMMA BeginIsOK ==
    ASSUME LimitsInv, NEW r \in Requests, BeginRequest(r)
    PROVE  LimitsInv'
<1> DEFINE q == requests[r]
           new == [q EXCEPT !.at = "deleting", !.now = moment, !.left = IdentitiesOf[r]]
<1>1. IdentitiesOf[r] \in Seq(Identities) /\ IsInjective(IdentitiesOf[r])
      /\ \A i \in DOMAIN IdentitiesOf[r] : IdentitiesOf[r][i] \in ToSet(IdentitiesOf[r])
  <2>1. IdentitiesOf[r] \in Seq(ToSet(IdentitiesOf[r])) /\ IsInjective(IdentitiesOf[r])
    BY LimitsAssumption
  <2>2. ToSet(IdentitiesOf[r]) \subseteq Identities
    BY DEF Identities
  <2>3. \A S, T : S \subseteq T => Seq(S) \subseteq Seq(T)
    OBVIOUS
  <2> QED
    BY <2>1, <2>2, <2>3 DEF ToSet
<1>2. q \in LimitedRequest /\ q.at = "idle"
      /\ DOMAIN q.writes = {} /\ DOMAIN q.windows = {} /\ q.allowed
  BY RequestColumns DEF BeginRequest, LimitsInv, RequestOK
<1>3. moment \in 0 .. LastMoment
  BY DEF LimitsInv, LimitsTypeOK
<1>4. /\ new \in LimitedRequest
      /\ new.at = "deleting" /\ new.now = moment /\ new.left = IdentitiesOf[r]
      /\ new.writes = q.writes /\ new.windows = q.windows /\ new.allowed = q.allowed
  BY <1>1, <1>2, <1>3 DEF LimitedRequest
<1>5. requests' = [requests EXCEPT ![r] = new] /\ requests'[r] = new
  <2>1. requests' = [requests EXCEPT ![r] = new]
    BY DEF BeginRequest
  <2> HIDE DEF new
  <2> QED
    BY <2>1 DEF LimitsInv, LimitsTypeOK
<1> HIDE DEF new
<1>6. RequestOK(r)'
  <2>1. /\ DOMAIN requests'[r].writes = {} /\ DOMAIN requests'[r].windows = {}
        /\ requests'[r].allowed /\ requests'[r].now = moment /\ moment' = moment
        /\ requests'[r].left = IdentitiesOf[r] /\ requests'[r].at = "deleting"
    BY <1>2, <1>4, <1>5 DEF BeginRequest
  <2>2. moment <= moment
    BY <1>3, NumbersAreThere
  <2>3. TransactionOK(r)'
    BY <1>1, <2>1, <2>2 DEF TransactionOK
  <2> QED
    BY <2>1, <2>3 DEF RequestOK
<1>7. moment - new.now <= MaxDelay
  BY <1>3, <1>4, NumbersAreThere
<1>8. /\ {rowLock', identityLock'} \subseteq [Identities -> SUBSET Requests]
      /\ \A k \in Identities :
            /\ Cardinality(rowLock'[k]) <= 1 /\ Cardinality(identityLock'[k]) <= 1
            /\ rowLock[k] \ {r} \subseteq rowLock'[k]
  BY DEF BeginRequest, LimitsInv, LimitsTypeOK
<1>9. UNCHANGED <<moment, limits>> /\ q.at \notin {"allowed", "refused"}
      /\ new.at \notin {"allowed", "refused"}
  BY <1>2, <1>4 DEF BeginRequest
<1> QED
  BY <1>4, <1>5, <1>6, <1>7, <1>8, <1>9, StepKeepsInv

\* A lock taken while no other has it.
LEMMA LockTaken ==
    ASSUME LimitsTypeOK, NEW lock, lock \in [Identities -> SUBSET Requests],
           \A i \in Identities : Cardinality(lock[i]) <= 1,
           NEW k \in Identities, NEW r \in Requests, OthersWith(lock, r, k) = {},
           NEW new, new = [lock EXCEPT ![k] = @ \cup {r}]
    PROVE  /\ new \in [Identities -> SUBSET Requests]
           /\ r \in new[k]
           /\ \A i \in Identities : Cardinality(new[i]) <= 1 /\ lock[i] \subseteq new[i]
<1>1. new[k] = lock[k] \cup {r} /\ \A i \in Identities \ {k} : new[i] = lock[i]
  OBVIOUS
<1>2. new[k] \subseteq {r}
  BY <1>1 DEF OthersWith
<1>3. Cardinality(new[k]) <= 1
  BY <1>2, FewHolders
<1> QED
  BY <1>1, <1>3

\* What is there to delete is what is committed, and had expired.
LEMMA DeletedHadExpired ==
    ASSUME LimitsInv, NEW r \in Requests, requests[r].at = "deleting", NEW k \in ToDelete(r)
    PROVE  /\ k \in Identities /\ limits[k].expires < requests[r].now
<1>1. k \in Identities /\ IsThere(Row(r, k)) /\ Row(r, k).expires < requests[r].now
  BY DEF ToDelete
<1>2. \A i \in DOMAIN requests[r].writes : requests[r].writes[i] = NoLimit
  BY DEF LimitsInv, RequestOK, TransactionOK, InTransaction
<1>3. k \notin DOMAIN requests[r].writes
  BY <1>1, <1>2, RowColumns DEF Row, LimitsInv
<1> QED
  BY <1>1, <1>3 DEF Row

LEMMA DeleteIsOK ==
    ASSUME LimitsInv, NEW r \in Requests, DeleteExpired(r)
    PROVE  LimitsInv'
<1> DEFINE q == requests[r]
<1>1. /\ q \in LimitedRequest /\ q.at = "deleting" /\ q.writes \in WrittenRows
      /\ InTransaction(r) /\ TransactionOK(r) /\ DOMAIN q.windows = {}
      /\ moment - q.now <= MaxDelay
  BY RequestColumns DEF DeleteExpired, LimitsInv, LimitsTypeOK, RequestOK, InTransaction
<1>2. UNCHANGED <<moment, limits, identityLock>>
  BY DEF DeleteExpired
<1>3. CASE ToDelete(r) = {}
  <2> DEFINE new == [q EXCEPT !.at = "locking"]
  <2>1. /\ new \in LimitedRequest
        /\ new.at = "locking" /\ new.now = q.now /\ new.left = q.left
        /\ new.writes = q.writes /\ new.windows = q.windows /\ new.allowed = q.allowed
    BY <1>1 DEF LimitedRequest
  <2>2. requests' = [requests EXCEPT ![r] = new] /\ rowLock' = rowLock
    BY <1>3 DEF DeleteExpired
  <2> HIDE DEF new
  <2>3. requests'[r] = new
    BY <2>2 DEF LimitsInv, LimitsTypeOK
  <2>4. TransactionOK(r)'
    BY <1>1, <1>2, <2>1, <2>2, <2>3 DEF TransactionOK
  <2>5. RequestOK(r)'
    BY <1>1, <2>1, <2>3, <2>4 DEF RequestOK
  <2>6. /\ {rowLock', identityLock'} \subseteq [Identities -> SUBSET Requests]
        /\ \A k \in Identities :
              /\ Cardinality(rowLock'[k]) <= 1 /\ Cardinality(identityLock'[k]) <= 1
              /\ rowLock[k] \ {r} \subseteq rowLock'[k]
    BY <1>2, <2>2 DEF LimitsInv, LimitsTypeOK
  <2> QED
    BY <1>1, <1>2, <2>1, <2>2, <2>5, <2>6, StepKeepsInv
<1>4. CASE ToDelete(r) # {}
  <2>1. PICK k \in ToDelete(r) :
            /\ OthersWith(rowLock, r, k) = {}
            /\ requests' = [requests EXCEPT ![r].writes = With(@, k, NoLimit)]
            /\ rowLock' = [rowLock EXCEPT ![k] = @ \cup {r}]
    BY <1>4 DEF DeleteExpired
  <2> DEFINE written == With(q.writes, k, NoLimit)
             new == [q EXCEPT !.writes = written]
  <2>2. k \in Identities /\ limits[k].expires < q.now
    BY <1>1, DeletedHadExpired
  <2>3. NoLimit \in LimitRow
    BY <2>2, RowColumns DEF LimitsInv
  <2>4. /\ written \in WrittenRows
        /\ DOMAIN written = DOMAIN q.writes \cup {k} /\ written[k] = NoLimit
        /\ \A i \in DOMAIN q.writes \ {k} : written[i] = q.writes[i]
    <3>1. /\ written = [i \in DOMAIN written |-> written[i]]
          /\ DOMAIN written = DOMAIN q.writes \cup {k}
          /\ \A i \in DOMAIN written : written[i] = IF i = k THEN NoLimit ELSE q.writes[i]
      BY DEF With
    <3> HIDE DEF written
    <3>2. q.writes \in WrittenRows /\ k \in Identities /\ NoLimit \in LimitRow
      BY <1>1, <2>2, <2>3
    <3> HIDE DEF q
    <3> QED
      BY <3>1, <3>2, WriteAdded
  <2>5. /\ new \in LimitedRequest
        /\ new.at = "deleting" /\ new.now = q.now /\ new.left = q.left
        /\ new.windows = q.windows /\ new.allowed = q.allowed
        /\ new.writes = written
    <3> HIDE DEF written
    <3> QED
      BY <1>1, <2>4 DEF LimitedRequest
  <2>6. requests' = [requests EXCEPT ![r] = new]
    BY <2>1
  <2> HIDE DEF new, written
  <2>7. requests'[r] = new
    BY <2>6 DEF LimitsInv, LimitsTypeOK
  <2>8. /\ rowLock' \in [Identities -> SUBSET Requests]
        /\ r \in rowLock'[k]
        /\ \A i \in Identities :
              Cardinality(rowLock'[i]) <= 1 /\ rowLock[i] \subseteq rowLock'[i]
    BY <2>1, <2>2, LockTaken DEF LimitsInv, LimitsTypeOK
  <2>9. TransactionOK(r)'
    <3>1. \A i \in DOMAIN new.writes : r \in rowLock'[i]
      BY <1>1, <2>4, <2>5, <2>8, RequestColumns DEF TransactionOK, LimitsInv
    <3>2. \A i \in DOMAIN new.writes :
              new.writes[i] = NoLimit /\ limits'[i].expires < new.now
      BY <1>1, <1>2, <2>2, <2>4, <2>5 DEF TransactionOK
    <3>3. /\ DOMAIN new.windows = {} /\ DOMAIN new.windows \subseteq DOMAIN new.writes
          /\ new.now <= moment' /\ new.allowed /\ new.at # "counting"
      BY <1>1, <1>2, <2>5 DEF TransactionOK
    <3>4. /\ IsInjective(new.left)
          /\ \A i \in DOMAIN new.left :
                new.left[i] \in ToSet(IdentitiesOf[r]) \ DOMAIN new.windows
      BY <1>1, <2>5, <3>3 DEF TransactionOK
    <3> QED
      BY <2>7, <3>1, <3>2, <3>3, <3>4 DEF TransactionOK
  <2>10. RequestOK(r)'
    BY <1>1, <2>5, <2>7, <2>9 DEF RequestOK
  <2>11. /\ {rowLock', identityLock'} \subseteq [Identities -> SUBSET Requests]
         /\ \A i \in Identities :
               /\ Cardinality(rowLock'[i]) <= 1 /\ Cardinality(identityLock'[i]) <= 1
               /\ rowLock[i] \ {r} \subseteq rowLock'[i]
    BY <1>2, <2>8 DEF LimitsInv, LimitsTypeOK
  <2> QED
    BY <1>1, <1>2, <2>5, <2>6, <2>10, <2>11, StepKeepsInv
<1> QED
  BY <1>3, <1>4

LEMMA LockIsOK ==
    ASSUME LimitsInv, NEW r \in Requests, LockIdentity(r)
    PROVE  LimitsInv'
<1> DEFINE q == requests[r]
           k == Head(q.left)
           new == [q EXCEPT !.at = "counting"]
<1>1. /\ q \in LimitedRequest /\ q.at = "locking" /\ q.left # <<>>
      /\ q.left \in Seq(Identities)
      /\ InTransaction(r) /\ TransactionOK(r) /\ DOMAIN q.windows \subseteq ToSet(IdentitiesOf[r])
      /\ moment - q.now <= MaxDelay
  BY RequestColumns DEF LockIdentity, LimitsInv, LimitsTypeOK, RequestOK, InTransaction
<1>2. UNCHANGED <<moment, limits, rowLock>> /\ k \in Identities
  BY <1>1 DEF LockIdentity
<1>3. /\ new \in LimitedRequest
      /\ new.at = "counting" /\ new.now = q.now /\ new.left = q.left
      /\ new.writes = q.writes /\ new.windows = q.windows /\ new.allowed = q.allowed
  BY <1>1 DEF LimitedRequest
<1>4. requests' = [requests EXCEPT ![r] = new]
  BY DEF LockIdentity
<1> HIDE DEF new
<1>5. requests'[r] = new
  BY <1>4 DEF LimitsInv, LimitsTypeOK
<1>6. /\ identityLock' \in [Identities -> SUBSET Requests]
      /\ \A i \in Identities : Cardinality(identityLock'[i]) <= 1
  BY <1>2, LockTaken DEF LockIdentity, LimitsInv, LimitsTypeOK
<1>7. TransactionOK(r)'
  <2>1. \A i \in DOMAIN q.windows : CountedOK(r, i)'
    BY <1>1, <1>2, <1>3, <1>5 DEF TransactionOK, CountedOK
  <2> QED
    BY <1>1, <1>2, <1>3, <1>5, <2>1 DEF TransactionOK
<1>8. RequestOK(r)'
  BY <1>1, <1>3, <1>5, <1>7 DEF RequestOK
<1>9. /\ {rowLock', identityLock'} \subseteq [Identities -> SUBSET Requests]
      /\ \A i \in Identities :
            /\ Cardinality(rowLock'[i]) <= 1 /\ Cardinality(identityLock'[i]) <= 1
            /\ rowLock[i] \ {r} \subseteq rowLock'[i]
  BY <1>2, <1>6 DEF LimitsInv, LimitsTypeOK
<1> QED
  BY <1>1, <1>2, <1>3, <1>4, <1>8, <1>9, StepKeepsInv

LEMMA AbortIsOK ==
    ASSUME LimitsInv, NEW r \in Requests, Abort(r)
    PROVE  LimitsInv'
<1> DEFINE q == requests[r]
           new == [q EXCEPT !.at = "aborted", !.writes = <<>>, !.windows = <<>>]
<1>1. InTransaction(r)
  <2>1. Blockers(r) # {}
    BY DEF Abort, IsDeadlocked
  <2> QED
    BY <2>1 DEF Blockers, InTransaction
<1>2. <<>> \in WrittenRows /\ <<>> \in CountedWindows
  <2>1. <<>> \in [{} -> LimitRow] /\ <<>> \in [{} -> 1 .. LastMoment + Window]
    OBVIOUS
  <2> QED
    BY <2>1 DEF WrittenRows, CountedWindows
<1>3. q \in LimitedRequest
  BY RequestColumns DEF LimitsInv
<1>4. new \in LimitedRequest /\ new.at = "aborted" /\ new.windows = <<>>
  BY <1>2, <1>3 DEF LimitedRequest
<1>5. requests' = [requests EXCEPT ![r] = new] /\ UNCHANGED <<moment, limits>>
  BY DEF Abort
<1> HIDE DEF new
<1>6. requests'[r] = new
  BY <1>5 DEF LimitsInv, LimitsTypeOK
<1>7. RequestOK(r)' /\ ~InTransaction(r)'
  BY <1>4, <1>6 DEF RequestOK, InTransaction
<1>8. /\ rowLock' = [k \in Identities |-> rowLock[k] \ {r}]
      /\ identityLock' = [k \in Identities |-> identityLock[k] \ {r}]
  BY DEF Abort, Released
<1>9. /\ {rowLock', identityLock'} \subseteq [Identities -> SUBSET Requests]
      /\ \A i \in Identities : rowLock[i] \ {r} \subseteq rowLock'[i]
  BY <1>8 DEF LimitsInv, LimitsTypeOK
<1>10. \A i \in Identities :
          Cardinality(rowLock'[i]) <= 1 /\ Cardinality(identityLock'[i]) <= 1
  BY <1>8, LocksReleased DEF LimitsInv
<1> QED
  BY <1>1, <1>4, <1>5, <1>7, <1>9, <1>10, StepKeepsInv DEF InTransaction

\* How many requests were counted in a window: not r, which is not answered.
LEMMA OthersCounted ==
    ASSUME NEW r \in Requests, r \notin Answered, NEW k, NEW end
    PROVE  /\ IsFiniteSet(CountedIn(k, end)) /\ r \notin CountedIn(k, end)
           /\ Cardinality(CountedIn(k, end)) \in Nat
           /\ Cardinality(CountedIn(k, end)) + 1 <= Cardinality(Requests)
<1>1. CountedIn(k, end) \subseteq Requests \ {r}
  BY DEF CountedIn, Answered, Decided
<1>2. /\ IsFiniteSet(Requests \ {r})
      /\ Cardinality(Requests \ {r}) = Cardinality(Requests) - 1
  BY LimitsAssumption, FS_RemoveElement
<1>3. /\ IsFiniteSet(CountedIn(k, end))
      /\ Cardinality(CountedIn(k, end)) <= Cardinality(Requests \ {r})
  BY <1>1, <1>2, FS_Subset
<1>4. Cardinality(CountedIn(k, end)) \in Nat /\ Cardinality(Requests) \in Nat
  BY <1>3, NumbersAreThere, FS_CardinalityType
<1> QED
  BY <1>1, <1>2, <1>3, <1>4

\* What a request makes of the row it reads.
LEMMA CountIsRight ==
    ASSUME LimitsInv, NEW r \in Requests, requests[r].at = "counting",
           NEW k, k = Head(requests[r].left),
           NEW row, row = Counted(Row(r, k), requests[r].now)
    PROVE  /\ row \in LimitRow /\ row.expires \in 1 .. LastMoment + Window
           /\ requests[r].now < row.expires
           /\ \/ /\ IsThere(limits[k])
                 /\ row.count = limits[k].count + 1 /\ row.expires = limits[k].expires
              \/ /\ row.count = 1 /\ row.expires = requests[r].now + Window
                 /\ IsThere(limits[k]) => limits[k].expires <= requests[r].now
<1> DEFINE q == requests[r]
<1>1. /\ TransactionOK(r) /\ q.left # <<>> /\ q.left \in Seq(Identities)
      /\ q.now \in 0 .. LastMoment
  BY RequestColumns DEF LimitsInv, RequestOK, InTransaction, TransactionOK
<1>2. k \in Identities /\ k = q.left[1] /\ 1 \in DOMAIN q.left
  BY <1>1
<1>3. k \notin DOMAIN q.windows
  BY <1>1, <1>2 DEF TransactionOK
<1>4. /\ limits[k] \in LimitRow /\ limits[k].count \in Nat /\ limits[k].expires \in Nat
      /\ ~IsThere(NoLimit)
  BY <1>2, RowColumns DEF LimitsInv
<1>5. k \in DOMAIN q.writes => q.writes[k] = NoLimit /\ limits[k].expires < q.now
  BY <1>1, <1>3 DEF TransactionOK
<1>6. CASE ~IsThere(Row(r, k)) \/ IsOver(Row(r, k), q.now)
  <2>1. row = [count |-> 1, expires |-> q.now + Window]
    BY <1>6 DEF Counted
  <2>2. q.now + Window \in 1 .. LastMoment + Window /\ q.now < q.now + Window
    BY <1>1, NumbersAreThere
  <2>3. 1 \in 0 .. Cardinality(Requests)
    <3>1. Cardinality(Requests) # 0
      BY FS_EmptySet, LimitsAssumption
    <3> QED
      BY <3>1, NumbersAreThere
  <2>4. row \in LimitRow
    BY <2>1, <2>2, <2>3, <1>1, NumbersAreThere DEF LimitRow
  <2>5. IsThere(limits[k]) => limits[k].expires <= q.now
    BY <1>1, <1>4, <1>5, <1>6 DEF Row, IsOver
  <2> QED
    BY <2>1, <2>2, <2>4, <2>5
<1>7. CASE IsThere(Row(r, k)) /\ ~IsOver(Row(r, k), q.now)
  <2>1. Row(r, k) = limits[k]
    BY <1>4, <1>5, <1>7 DEF Row
  <2>2. row = [limits[k] EXCEPT !.count = @ + 1]
    BY <1>7, <2>1 DEF Counted
  <2>3. row.count = limits[k].count + 1 /\ row.expires = limits[k].expires
    BY <1>4, <2>2 DEF LimitRow
  <2>4. q.now < row.expires
    BY <1>1, <1>4, <1>7, <2>1, <2>3 DEF IsOver
  <2>5. limits[k].count = Cardinality(CountedIn(k, limits[k].expires))
    BY <1>2, <1>7, <2>1 DEF LimitsInv, RowOK
  <2>6. r \notin Answered
    BY DEF Answered, Decided
  <2>7. row.count \in 0 .. Cardinality(Requests)
    BY <1>4, <2>3, <2>5, <2>6, OthersCounted, NumbersAreThere
  <2>8. row \in LimitRow
    BY <1>4, <2>2, <2>3, <2>7 DEF LimitRow
  <2>9. row.expires \in 1 .. LastMoment + Window
    BY <1>1, <2>4, <2>8, NumbersAreThere DEF LimitRow
  <2> QED
    BY <1>7, <2>1, <2>3, <2>4, <2>8, <2>9
<1> QED
  BY <1>6, <1>7

LEMMA CountIsOK ==
    ASSUME LimitsInv, NEW r \in Requests, Count(r)
    PROVE  LimitsInv'
<1> DEFINE q == requests[r]
           k == Head(q.left)
           row == Counted(Row(r, k), q.now)
           written == With(q.writes, k, row)
           ends == With(q.windows, k, row.expires)
           new == [q EXCEPT !.at = "locking", !.left = Tail(q.left), !.writes = written,
                            !.windows = ends, !.allowed = q.allowed /\ Within(row.count)]
<1>1. /\ q \in LimitedRequest /\ q.at = "counting" /\ q.left # <<>>
      /\ q.left \in Seq(Identities) /\ q.allowed \in BOOLEAN
      /\ q.writes \in WrittenRows /\ q.windows \in CountedWindows
      /\ InTransaction(r) /\ TransactionOK(r)
      /\ DOMAIN q.windows \subseteq ToSet(IdentitiesOf[r])
      /\ moment - q.now <= MaxDelay
  BY RequestColumns DEF Count, LimitsInv, LimitsTypeOK, RequestOK, InTransaction, TransactionOK
<1>2. /\ OthersWith(rowLock, r, k) = {}
      /\ rowLock' = [rowLock EXCEPT ![k] = @ \cup {r}]
      /\ requests' = [requests EXCEPT ![r] = new]
      /\ UNCHANGED <<moment, limits, identityLock>>
  BY DEF Count
<1>3. /\ row \in LimitRow /\ row.expires \in 1 .. LastMoment + Window
      /\ q.now < row.expires
      /\ \/ /\ IsThere(limits[k])
            /\ row.count = limits[k].count + 1 /\ row.expires = limits[k].expires
         \/ /\ row.count = 1 /\ row.expires = q.now + Window
            /\ IsThere(limits[k]) => limits[k].expires <= q.now
  BY <1>1, CountIsRight
<1>4. /\ written = [i \in DOMAIN written |-> written[i]]
      /\ DOMAIN written = DOMAIN q.writes \cup {k}
      /\ \A i \in DOMAIN written : written[i] = IF i = k THEN row ELSE q.writes[i]
  BY DEF With
<1>5. /\ ends = [i \in DOMAIN ends |-> ends[i]]
      /\ DOMAIN ends = DOMAIN q.windows \cup {k}
      /\ \A i \in DOMAIN ends : ends[i] = IF i = k THEN row.expires ELSE q.windows[i]
  BY DEF With
<1>6. /\ k \in Identities /\ k = q.left[1] /\ 1 \in DOMAIN q.left
      /\ Tail(q.left) \in Seq(Identities) /\ Len(q.left) \in Nat
      /\ DOMAIN q.left = 1 .. Len(q.left)
      /\ DOMAIN Tail(q.left) = 1 .. Len(q.left) - 1
      /\ \A i \in DOMAIN Tail(q.left) : Tail(q.left)[i] = q.left[i + 1]
  BY <1>1
<1>7. k \in ToSet(IdentitiesOf[r]) \ DOMAIN q.windows
  BY <1>1, <1>6 DEF TransactionOK
<1> DEFINE rest == Tail(q.left)
<1>8. /\ IsInjective(rest)
      /\ \A i \in DOMAIN rest : rest[i] \in ToSet(IdentitiesOf[r]) \ (DOMAIN q.windows \cup {k})
  <2>1. /\ \A i, j \in DOMAIN q.left : q.left[i] = q.left[j] => i = j
        /\ \A i \in DOMAIN q.left : q.left[i] \in ToSet(IdentitiesOf[r]) \ DOMAIN q.windows
    BY <1>1 DEF TransactionOK, IsInjective
  <2>2. \A i \in DOMAIN rest :
            i + 1 \in DOMAIN q.left /\ i + 1 # 1 /\ rest[i] = q.left[i + 1]
    BY <1>6
  <2>3. \A i, j \in DOMAIN rest : i + 1 = j + 1 => i = j
    BY <1>6
  <2>4. \A i, j \in DOMAIN rest : rest[i] = rest[j] => i = j
    BY <2>1, <2>2, <2>3
  <2>5. \A i \in DOMAIN rest : rest[i] # k
    BY <1>6, <2>1, <2>2
  <2> HIDE DEF rest
  <2> QED
    BY <2>1, <2>2, <2>4, <2>5 DEF IsInjective
<1> HIDE DEF row, written, ends, k, rest
<1>9. /\ written \in WrittenRows /\ ends \in CountedWindows
      /\ written[k] = row /\ ends[k] = row.expires
      /\ \A i \in DOMAIN q.writes \ {k} : written[i] = q.writes[i]
      /\ \A i \in DOMAIN q.windows \ {k} : ends[i] = q.windows[i]
  <2> HIDE DEF q
  <2>1. /\ written \in WrittenRows /\ written[k] = row
        /\ \A i \in DOMAIN q.writes \ {k} : written[i] = q.writes[i]
    <3>1. q.writes \in WrittenRows /\ k \in Identities /\ row \in LimitRow
      BY <1>1, <1>3, <1>6
    <3> QED
      BY <3>1, <1>4, WriteAdded
  <2> DEFINE end == row.expires
  <2>2. end \in 1 .. LastMoment + Window
    BY <1>3
  <2>3. \A i \in DOMAIN ends : ends[i] = IF i = k THEN end ELSE q.windows[i]
    BY <1>5
  <2> HIDE DEF end
  <2>4. /\ ends \in CountedWindows /\ ends[k] = end
        /\ \A i \in DOMAIN q.windows \ {k} : ends[i] = q.windows[i]
    <3>1. q.windows \in CountedWindows /\ k \in Identities
      BY <1>1, <1>6
    <3> QED
      BY <3>1, <1>5, <2>2, <2>3, WindowAdded
  <2> QED
    BY <2>1, <2>4 DEF end
<1>10. Within(row.count) \in BOOLEAN
  BY DEF Within
<1>11. /\ new \in LimitedRequest
       /\ new.at = "locking" /\ new.now = q.now /\ new.left = rest
       /\ new.writes = written /\ new.windows = ends
       /\ new.allowed = (q.allowed /\ Within(row.count))
  BY <1>1, <1>6, <1>9, <1>10 DEF LimitedRequest, rest
<1> HIDE DEF new
<1>12. requests'[r] = new
  BY <1>2 DEF LimitsInv, LimitsTypeOK
<1>13. /\ rowLock' \in [Identities -> SUBSET Requests]
       /\ r \in rowLock'[k]
       /\ \A i \in Identities :
             Cardinality(rowLock'[i]) <= 1 /\ rowLock[i] \subseteq rowLock'[i]
  <2>1. /\ LimitsTypeOK /\ rowLock \in [Identities -> SUBSET Requests]
        /\ \A i \in Identities : Cardinality(rowLock[i]) <= 1
    BY DEF LimitsInv, LimitsTypeOK
  <2>2. k \in Identities
    BY <1>6
  <2>3. OthersWith(rowLock, r, k) = {} /\ rowLock' = [rowLock EXCEPT ![k] = @ \cup {r}]
    BY <1>2
  <2> QED
    BY <2>1, <2>2, <2>3, LockTaken
<1>14. TransactionOK(r)'
  <2>1. \A i \in DOMAIN written : r \in rowLock'[i]
    BY <1>1, <1>4, <1>13, RequestColumns DEF TransactionOK, LimitsInv
  <2>2. DOMAIN ends \subseteq DOMAIN written
    BY <1>1, <1>4, <1>5 DEF TransactionOK
  <2>3. \A i \in DOMAIN written \ DOMAIN ends :
            written[i] = NoLimit /\ limits'[i].expires < q.now
    BY <1>1, <1>2, <1>4, <1>5 DEF TransactionOK
  <2>4. ASSUME NEW i \in DOMAIN ends PROVE CountedOK(r, i)'
    <3>1. CASE i = k
      BY <1>2, <1>3, <1>9, <1>11, <1>12, <3>1 DEF CountedOK
    <3>2. CASE i # k
      <4>1. i \in DOMAIN q.windows /\ i \in DOMAIN q.writes /\ CountedOK(r, i)
        BY <1>1, <1>5, <3>2 DEF TransactionOK
      <4>2. written[i] = q.writes[i] /\ ends[i] = q.windows[i]
        BY <1>9, <3>2, <4>1
      <4> QED
        BY <1>2, <1>11, <1>12, <4>1, <4>2 DEF CountedOK
    <3> QED
      BY <3>1, <3>2
  <2>5. (q.allowed /\ Within(row.count))
           <=> \A i \in DOMAIN ends : Within(written[i].count)
    <3>1. q.allowed <=> \A i \in DOMAIN q.windows : Within(q.writes[i].count)
      BY <1>1 DEF TransactionOK
    <3>2. \A i \in DOMAIN q.windows : i # k /\ written[i] = q.writes[i]
      BY <1>1, <1>7, <1>9 DEF TransactionOK
    <3> QED
      BY <1>5, <1>9, <3>1, <3>2
  <2>6. \A i \in DOMAIN rest : rest[i] \in ToSet(IdentitiesOf[r]) \ DOMAIN ends
    BY <1>5, <1>8
  <2>7. q.now <= moment'
    BY <1>1, <1>2 DEF TransactionOK
  <2> QED
    BY <1>8, <1>11, <1>12, <2>1, <2>2, <2>3, <2>4, <2>5, <2>6, <2>7 DEF TransactionOK
<1>15. RequestOK(r)'
  BY <1>1, <1>5, <1>7, <1>11, <1>12, <1>14 DEF RequestOK
<1>16. /\ {rowLock', identityLock'} \subseteq [Identities -> SUBSET Requests]
       /\ \A i \in Identities :
             /\ Cardinality(rowLock'[i]) <= 1 /\ Cardinality(identityLock'[i]) <= 1
             /\ rowLock[i] \ {r} \subseteq rowLock'[i]
  BY <1>2, <1>13 DEF LimitsInv, LimitsTypeOK
<1>17. moment - new.now <= MaxDelay
  BY <1>1, <1>11
<1> QED
  BY <1>1, <1>2, <1>11, <1>15, <1>16, <1>17, StepKeepsInv

-----------------------------------------------------------------------------
(* The commit.                                                             *)

\* What a commit does to the rows, and to the answers that were counted.
LEMMA CommitMoves ==
    ASSUME LimitsInv, NEW r \in Requests, Commit(r)
    PROVE  LET q == requests[r] IN
           /\ InTransaction(r) /\ TransactionOK(r) /\ r \notin Answered
           /\ moment' = moment /\ moment \in Nat /\ q.now \in Nat
           /\ q.now <= moment /\ moment < q.now + Window
           /\ q.allowed \in BOOLEAN
           /\ \A k \in DOMAIN q.writes : k \in Identities /\ limits'[k] = q.writes[k]
           /\ \A k \in Identities \ DOMAIN q.writes : limits'[k] = limits[k]
           /\ requests'[r].windows = q.windows /\ requests'[r].now = q.now
           /\ requests'[r].writes = <<>>
           /\ requests'[r].at = IF q.allowed THEN "allowed" ELSE "refused"
           /\ \A s \in Requests \ {r} : requests'[s] = requests[s]
           /\ requests' \in [Requests -> LimitedRequest]
           /\ limits' \in [Identities -> LimitRow]
<1> DEFINE q == requests[r]
           new == [q EXCEPT !.at = IF q.allowed THEN "allowed" ELSE "refused",
                            !.writes = <<>>]
<1>1. /\ q \in LimitedRequest /\ q.at = "locking" /\ InTransaction(r) /\ TransactionOK(r)
      /\ moment - q.now <= MaxDelay /\ r \notin Answered
      /\ q.now \in 0 .. LastMoment /\ q.allowed \in BOOLEAN /\ moment \in 0 .. LastMoment
      /\ DOMAIN q.writes \subseteq Identities
      /\ \A k \in DOMAIN q.writes : q.writes[k] \in LimitRow
  BY RequestColumns
     DEF Commit, LimitsInv, LimitsTypeOK, RequestOK, InTransaction, Answered, Decided
<1>2. /\ moment' = moment /\ requests' = [requests EXCEPT ![r] = new]
      /\ limits' = [k \in Identities |-> Row(r, k)]
  BY DEF Commit
<1>3. <<>> \in WrittenRows
  <2>1. <<>> \in [{} -> LimitRow]
    OBVIOUS
  <2> QED
    BY <2>1 DEF WrittenRows
<1>4. /\ new \in LimitedRequest /\ new.windows = q.windows /\ new.writes = <<>>
      /\ new.now = q.now /\ new.at = IF q.allowed THEN "allowed" ELSE "refused"
  BY <1>1, <1>3 DEF LimitedRequest
<1> HIDE DEF new
<1>5. /\ requests'[r] = new /\ \A s \in Requests \ {r} : requests'[s] = requests[s]
      /\ requests' \in [Requests -> LimitedRequest]
  BY <1>2, <1>4 DEF LimitsInv, LimitsTypeOK
<1>6. /\ \A k \in DOMAIN q.writes : k \in Identities /\ limits'[k] = q.writes[k]
      /\ \A k \in Identities \ DOMAIN q.writes : limits'[k] = limits[k]
  BY <1>1, <1>2 DEF Row
<1>7. limits' \in [Identities -> LimitRow]
  <2>1. \A k \in Identities : limits'[k] \in LimitRow
    BY <1>1, <1>6 DEF LimitsInv, LimitsTypeOK
  <2> QED
    BY <1>2, <2>1
<1>8. /\ moment \in Nat /\ q.now \in Nat /\ q.now <= moment /\ moment < q.now + Window
  BY <1>1, NumbersAreThere DEF TransactionOK
<1> QED
  BY <1>1, <1>2, <1>4, <1>5, <1>6, <1>7, <1>8

LEMMA CommitCounts ==
    ASSUME LimitsInv, NEW r \in Requests, Commit(r)
    PROVE  LET q == requests[r] IN
           /\ Answered' = Answered \cup {r}
           /\ Decided({"allowed"})'
                 = Decided({"allowed"}) \cup (IF q.allowed THEN {r} ELSE {})
           /\ Decided({"refused"})'
                 = Decided({"refused"}) \cup (IF q.allowed THEN {} ELSE {r})
           /\ \A k, end : CountedIn(k, end)'
                 = CountedIn(k, end) \cup (IF k \in DOMAIN q.windows /\ q.windows[k] = end
                                          THEN {r} ELSE {})
<1> DEFINE q == requests[r]
<1>1. /\ r \notin Answered /\ requests'[r].windows = q.windows
      /\ requests'[r].at = IF q.allowed THEN "allowed" ELSE "refused"
      /\ \A s \in Requests \ {r} : requests'[s] = requests[s]
  BY CommitMoves
<1>2. r \notin Decided({"allowed"}) /\ r \notin Decided({"refused"})
  BY <1>1 DEF Answered, Decided
<1>3. /\ Answered' = Answered \cup {r}
      /\ Decided({"allowed"})'
            = Decided({"allowed"}) \cup (IF q.allowed THEN {r} ELSE {})
      /\ Decided({"refused"})'
            = Decided({"refused"}) \cup (IF q.allowed THEN {} ELSE {r})
  BY <1>1, <1>2 DEF Answered, Decided
<1>4. \A k, end : CountedIn(k, end)
          = {s \in Answered : k \in DOMAIN requests[s].windows /\ requests[s].windows[k] = end}
  BY DEF CountedIn, Answered
<1>5. \A k, end : CountedIn(k, end)'
          = {s \in Answered' :
                k \in DOMAIN requests'[s].windows /\ requests'[s].windows[k] = end}
  BY DEF CountedIn, Answered
<1>6. \A s \in Answered : s \in Requests \ {r} /\ requests'[s] = requests[s]
  BY <1>1 DEF Answered, Decided
<1>7. ASSUME NEW k, NEW end
      PROVE  CountedIn(k, end)'
                = CountedIn(k, end) \cup (IF k \in DOMAIN q.windows /\ q.windows[k] = end
                                         THEN {r} ELSE {})
  BY <1>1, <1>3, <1>4, <1>5, <1>6
<1> QED
  BY <1>3, <1>7

\* The row of a committed count is that of all who were counted in its window.
LEMMA CommittedRow ==
    ASSUME LimitsInv, NEW r \in Requests, Commit(r), NEW k \in Identities
    PROVE  /\ RowOK(k)'
           /\ k \in DOMAIN requests[r].windows =>
                 Cardinality(CountedIn(k, requests[r].windows[k])')
                    = requests[r].writes[k].count
<1> DEFINE q == requests[r]
           w == q.writes[k]
           Before == {s \in Answered : k \in DOMAIN requests[s].windows}
           Ends == {requests[s].windows[k] : s \in Before}
<1>1. /\ TransactionOK(r) /\ r \notin Answered /\ moment' = moment /\ moment \in Nat
      /\ q.now \in Nat /\ q.now <= moment /\ moment < q.now + Window
      /\ k \in DOMAIN q.writes => limits'[k] = w
      /\ k \notin DOMAIN q.writes => limits'[k] = limits[k]
      /\ requests'[r].windows = q.windows
      /\ \A s \in Requests \ {r} : requests'[s] = requests[s]
  BY CommitMoves
<1>2. /\ Answered' = Answered \cup {r}
      /\ \A end : CountedIn(k, end)'
            = CountedIn(k, end) \cup (IF k \in DOMAIN q.windows /\ q.windows[k] = end
                                     THEN {r} ELSE {})
  BY CommitCounts
<1>3. RowOK(k) /\ limits[k].expires \in Nat /\ limits[k].count \in Nat /\ ~IsThere(NoLimit)
  BY RowColumns DEF LimitsInv
<1>4. \A end \in Ends :
          end \in Nat /\ end <= IF IsThere(limits[k]) THEN limits[k].expires ELSE moment
  BY <1>1, <1>3, RequestColumns, NumbersAreThere DEF LimitsInv, Answered, Decided, RowOK
<1>5. \A s \in Answered' : k \in DOMAIN requests'[s].windows =>
          \/ requests'[s].windows[k] \in Ends
          \/ k \in DOMAIN q.windows /\ requests'[s].windows[k] = q.windows[k]
  <2>1. \A s \in Answered : s \in Requests \ {r}
    BY <1>1 DEF Answered, Decided
  <2> QED
    BY <1>1, <1>2, <2>1
<1> HIDE DEF Ends
<1>6. CASE k \notin DOMAIN q.writes
  <2>1. k \notin DOMAIN q.windows /\ limits'[k] = limits[k]
    BY <1>1, <1>6 DEF TransactionOK
  <2>2. \A end : CountedIn(k, end)' = CountedIn(k, end)
    BY <1>2, <2>1
  <2>3. \A s \in Answered' : k \in DOMAIN requests'[s].windows =>
            requests'[s].windows[k]
               <= IF IsThere(limits'[k]) THEN limits'[k].expires ELSE moment'
    BY <1>1, <1>4, <1>5, <2>1
  <2>4. RowOK(k)'
    BY <1>3, <2>1, <2>2, <2>3 DEF RowOK
  <2> QED
    BY <2>1, <2>4
<1>7. CASE k \in DOMAIN q.writes \ DOMAIN q.windows
  <2>1. limits'[k] = NoLimit /\ limits[k].expires < q.now /\ ~IsThere(limits'[k])
    BY <1>1, <1>3, <1>7 DEF TransactionOK
  <2>2. \A s \in Answered' : k \in DOMAIN requests'[s].windows =>
            requests'[s].windows[k] <= moment'
    BY <1>1, <1>3, <1>4, <1>5, <1>7, <2>1
  <2>3. RowOK(k)'
    BY <2>1, <2>2 DEF RowOK
  <2> QED
    BY <1>7, <2>3
<1>8. CASE k \in DOMAIN q.windows
  <2>1. CountedOK(r, k) /\ limits'[k] = w
    BY <1>1, <1>8 DEF TransactionOK
  <2>2. q.windows[k] = w.expires /\ q.now < w.expires /\ w.expires \in Nat
    BY <1>8, <2>1, RequestColumns, NumbersAreThere DEF CountedOK, LimitsInv
  <2> PICK end : end = w.expires
    OBVIOUS
  <2>3. CountedIn(k, end)' = CountedIn(k, end) \cup {r}
    BY <1>2, <1>8, <2>2
  <2>4. /\ IsFiniteSet(CountedIn(k, end)) /\ r \notin CountedIn(k, end)
    BY <1>1, OthersCounted
  <2>5. Cardinality(CountedIn(k, end)') = Cardinality(CountedIn(k, end)) + 1
    BY <2>3, <2>4, FS_AddElement
  <2>6. CASE IsThere(limits[k]) /\ w.count = limits[k].count + 1 /\ end = limits[k].expires
    <3>1. Cardinality(CountedIn(k, end)) = limits[k].count
      BY <1>3, <2>6 DEF RowOK
    <3>2. Cardinality(CountedIn(k, end)') = w.count /\ IsThere(limits'[k])
      BY <1>3, <2>1, <2>5, <2>6, <3>1 DEF IsThere
    <3>3. \A s \in Answered' : k \in DOMAIN requests'[s].windows =>
              requests'[s].windows[k] <= limits'[k].expires
      BY <1>1, <1>4, <1>5, <2>1, <2>2, <2>6
    <3>4. RowOK(k)'
      BY <2>1, <3>2, <3>3 DEF RowOK
    <3> QED
      BY <1>1, <2>2, <3>2, <3>4
  <2>7. CASE /\ w.count = 1 /\ end = q.now + Window
             /\ IsThere(limits[k]) => limits[k].expires <= q.now
    <3>1. \A e \in Ends : e < end
      BY <1>1, <1>3, <1>4, <2>7, NumbersAreThere
    <3>2. CountedIn(k, end) = {}
      <4>1. \A s \in CountedIn(k, end) : end \in Ends
        BY DEF CountedIn, Answered, Ends
      <4> QED
        BY <2>2, <3>1, <4>1
    <3>3. Cardinality(CountedIn(k, end)') = 1
      BY <2>5, <3>2, FS_EmptySet
    <3>4. IsThere(limits'[k])
      BY <2>1, <2>7 DEF IsThere
    <3>5. \A s \in Answered' : k \in DOMAIN requests'[s].windows =>
              requests'[s].windows[k] <= limits'[k].expires
      BY <1>1, <1>4, <1>5, <2>1, <2>2, <3>1
    <3>6. RowOK(k)'
      BY <2>1, <2>7, <3>3, <3>4, <3>5 DEF RowOK
    <3> QED
      BY <1>1, <2>2, <2>7, <3>3, <3>6
  <2> QED
    BY <2>1, <2>6, <2>7 DEF CountedOK
<1> QED
  BY <1>1, <1>6, <1>7, <1>8 DEF TransactionOK

LEMMA CommitIsOK ==
    ASSUME LimitsInv, NEW r \in Requests, Commit(r)
    PROVE  LimitsInv'
<1> DEFINE q == requests[r]
<1>1. /\ InTransaction(r) /\ TransactionOK(r) /\ moment' = moment /\ moment \in Nat
      /\ q.allowed \in BOOLEAN
      /\ \A k \in Identities \ DOMAIN q.writes : limits'[k] = limits[k]
      /\ requests'[r].windows = q.windows /\ requests'[r].now = q.now
      /\ requests'[r].at \in {"allowed", "refused"}
      /\ \A s \in Requests \ {r} : requests'[s] = requests[s]
      /\ requests' \in [Requests -> LimitedRequest]
      /\ limits' \in [Identities -> LimitRow]
  BY CommitMoves
<1>2. /\ Decided({"allowed"})'
            = Decided({"allowed"}) \cup (IF q.allowed THEN {r} ELSE {})
      /\ Decided({"refused"})'
            = Decided({"refused"}) \cup (IF q.allowed THEN {} ELSE {r})
      /\ \A k, end : CountedIn(k, end)'
            = CountedIn(k, end) \cup (IF k \in DOMAIN q.windows /\ q.windows[k] = end
                                     THEN {r} ELSE {})
  BY CommitCounts
<1>3. /\ rowLock' = [k \in Identities |-> rowLock[k] \ {r}]
      /\ identityLock' = [k \in Identities |-> identityLock[k] \ {r}]
  BY DEF Commit, Released
<1>4. /\ {rowLock', identityLock'} \subseteq [Identities -> SUBSET Requests]
      /\ \A k \in Identities :
            Cardinality(rowLock'[k]) <= 1 /\ Cardinality(identityLock'[k]) <= 1
  <2>1. \A k \in Identities :
            Cardinality(rowLock'[k]) <= 1 /\ Cardinality(identityLock'[k]) <= 1
    BY <1>3, LocksReleased DEF LimitsInv
  <2> QED
    BY <1>3, <2>1 DEF LimitsInv, LimitsTypeOK
<1>5. \A s \in Requests : InTransaction(s)' =>
          /\ s # r /\ requests'[s] = requests[s] /\ InTransaction(s)
  BY <1>1 DEF InTransaction
<1>6. LimitsTypeOK'
  <2>1. \A s \in Requests : InTransaction(s)' => moment' - requests'[s].now <= MaxDelay
    BY <1>1, <1>5 DEF LimitsInv, LimitsTypeOK
  <2> QED
    BY <1>1, <1>4, <2>1 DEF LimitsInv, LimitsTypeOK
<1>7. ASSUME NEW s \in Requests \ {r} PROVE RequestOK(s)'
  <2>1. ASSUME InTransaction(s), NEW k \in DOMAIN requests[s].writes
        PROVE  s \in rowLock'[k] /\ limits'[k] = limits[k]
    <3>1. k \in Identities /\ s \in rowLock[k]
      BY <2>1, RequestColumns DEF LimitsInv, RequestOK, TransactionOK
    <3>2. k \notin DOMAIN q.writes
      BY <1>1, <3>1, RowsAreExclusive DEF LimitsInv, TransactionOK
    <3> QED
      BY <1>1, <1>3, <3>1, <3>2
  <2>2. moment <= moment' /\ moment' \in Nat /\ requests'[s] = requests[s]
    BY <1>1
  <2> QED
    BY <2>1, <2>2, OthersStay
<1>8. RequestOK(r)'
  <2>1. DOMAIN q.windows \subseteq ToSet(IdentitiesOf[r])
    BY DEF LimitsInv, RequestOK
  <2> QED
    BY <1>1, <1>5, <2>1 DEF RequestOK
<1>9. \A k \in Identities : RowOK(k)'
  BY CommittedRow
<1>10. ASSUME NEW k \in DOMAIN q.windows, NEW end, end = q.windows[k]
       PROVE  /\ k \in Identities
              /\ Cardinality(CountedIn(k, end)') = q.writes[k].count
              /\ IsFiniteSet(CountedIn(k, end)')
  <2>1. k \in Identities
    BY RequestColumns DEF LimitsInv
  <2>2. Cardinality(CountedIn(k, end)') = q.writes[k].count
    BY <1>1, <1>10, <2>1, CommittedRow
  <2>3. CountedIn(k, end)' \subseteq Requests
    BY DEF CountedIn, Decided
  <2> QED
    BY <2>1, <2>2, <2>3, FS_Subset, LimitsAssumption
<1>11. LimitIsKept'
  <2>1. ASSUME NEW k \in Identities, NEW end \in 1 .. LastMoment + Window
        PROVE  Cardinality(CountedIn(k, end)' \cap Decided({"allowed"})') <= Limit
    <3>1. CASE q.allowed /\ k \in DOMAIN q.windows /\ end = q.windows[k]
      <4>1. Cardinality(CountedIn(k, end)') <= Limit
        BY <1>1, <1>10, <3>1 DEF TransactionOK, Within
      <4>2. IsFiniteSet(CountedIn(k, end)')
        BY <1>10, <3>1
      <4>3. /\ Cardinality(CountedIn(k, end)' \cap Decided({"allowed"})')
                  <= Cardinality(CountedIn(k, end)')
            /\ IsFiniteSet(CountedIn(k, end)' \cap Decided({"allowed"})')
        BY <4>2, FS_Subset
      <4>4. /\ Cardinality(CountedIn(k, end)') \in Nat
            /\ Cardinality(CountedIn(k, end)' \cap Decided({"allowed"})') \in Nat
        BY <4>2, <4>3, FS_CardinalityType
      <4> QED
        BY <4>1, <4>3, <4>4, NumbersAreThere
    <3>2. CASE ~(q.allowed /\ k \in DOMAIN q.windows /\ end = q.windows[k])
      <4>1. r \notin Answered
        BY CommitMoves
      <4>2. r \notin CountedIn(k, end) /\ r \notin Decided({"allowed"})
        BY <4>1 DEF CountedIn, Answered, Decided
      <4>3. CountedIn(k, end)' \cap Decided({"allowed"})'
               = CountedIn(k, end) \cap Decided({"allowed"})
        BY <1>2, <3>2, <4>2
      <4> QED
        BY <4>3 DEF LimitsInv, LimitIsKept
    <3> QED
      BY <3>1, <3>2
  <2> QED
    BY <1>9, <2>1 DEF LimitIsKept, RowOK
<1>12. RefusedForCause'
  <2>1. ASSUME NEW s \in Decided({"refused"})
        PROVE  \E k \in ToSet(IdentitiesOf[s]) :
                  /\ Cardinality(CountedIn(k, requests[s].windows[k])') > Limit
                  /\ requests'[s].windows[k] > requests'[s].now
    <3>1. s \in Requests \ {r} /\ requests'[s] = requests[s]
      BY <1>1 DEF Decided, InTransaction
    <3>2. PICK k \in ToSet(IdentitiesOf[s]) :
              /\ Cardinality(CountedIn(k, requests[s].windows[k])) > Limit
              /\ requests[s].windows[k] > requests[s].now
      BY DEF LimitsInv, RefusedForCause
    <3>3. PICK end : end = requests[s].windows[k]
      OBVIOUS
    <3>4. CountedIn(k, end) \subseteq CountedIn(k, end)' /\ CountedIn(k, end)' \subseteq Requests
      <4>1. CountedIn(k, end)' \subseteq Requests
        BY DEF CountedIn, Decided
      <4> QED
        BY <1>2, <4>1
    <3>5. IsFiniteSet(CountedIn(k, end)') /\ IsFiniteSet(CountedIn(k, end))
          /\ Cardinality(CountedIn(k, end)) <= Cardinality(CountedIn(k, end)')
      <4>1. IsFiniteSet(CountedIn(k, end)')
        BY <3>4, LimitsAssumption, FS_Subset
      <4> QED
        BY <4>1, <3>4, FS_Subset
    <3>6. /\ Cardinality(CountedIn(k, end)) \in Nat
          /\ Cardinality(CountedIn(k, end)') \in Nat
      BY <3>5, FS_CardinalityType
    <3>7. Cardinality(CountedIn(k, end)) > Limit
      BY <3>2, <3>3
    <3>8. Cardinality(CountedIn(k, end)') > Limit
      BY <3>5, <3>6, <3>7, NumbersAreThere
    <3> QED
      BY <3>1, <3>2, <3>3, <3>8
  <2>2. ASSUME ~q.allowed
        PROVE  \E k \in ToSet(IdentitiesOf[r]) :
                  /\ Cardinality(CountedIn(k, requests[r].windows[k])') > Limit
                  /\ requests'[r].windows[k] > requests'[r].now
    <3>1. PICK k \in DOMAIN q.windows : ~Within(q.writes[k].count)
      BY <1>1, <2>2 DEF TransactionOK
    <3>2. k \in ToSet(IdentitiesOf[r])
      BY DEF LimitsInv, RequestOK
    <3>3. q.windows[k] = q.writes[k].expires /\ q.now < q.writes[k].expires
          /\ q.writes[k].count \in Nat
      <4>1. q.writes[k] \in LimitRow
        BY <1>1, RequestColumns DEF LimitsInv, TransactionOK
      <4>2. q.writes[k].count \in Nat
        BY <4>1, NumbersAreThere DEF LimitRow
      <4> QED
        BY <1>1, <4>2 DEF TransactionOK, CountedOK
    <3>4. PICK end : end = q.windows[k]
      OBVIOUS
    <3>5. Cardinality(CountedIn(k, end)') > Limit
      BY <1>10, <3>1, <3>3, <3>4, NumbersAreThere DEF Within
    <3>6. q.windows[k] > q.now
      BY <3>3, RequestColumns, NumbersAreThere DEF LimitsInv
    <3> QED
      BY <1>1, <3>2, <3>4, <3>5, <3>6
  <2>3. \A s \in Decided({"refused"})' :
            s \in Decided({"refused"}) \/ (s = r /\ ~q.allowed)
    <3>1. Decided({"refused"})'
             = Decided({"refused"}) \cup (IF q.allowed THEN {} ELSE {r})
      BY <1>2
    <3>2. CASE q.allowed
      BY <3>1, <3>2
    <3>3. CASE ~q.allowed
      BY <3>1, <3>3
    <3> QED
      BY <3>2, <3>3
  <2> QED
    BY <2>1, <2>2, <2>3 DEF RefusedForCause
<1> QED
  BY <1>6, <1>7, <1>8, <1>9, <1>11, <1>12 DEF LimitsInv

-----------------------------------------------------------------------------
(* The theorems.                                                           *)

LEMMA LimitsStutter == LimitsInv /\ UNCHANGED limitVars => LimitsInv'
<1> SUFFICES ASSUME LimitsInv, UNCHANGED limitVars PROVE LimitsInv'
  OBVIOUS
<1>1. UNCHANGED <<moment, limits, rowLock, identityLock, requests>>
  BY DEF limitVars
<1>2. /\ \A outcomes : Decided(outcomes)' = Decided(outcomes)
      /\ \A k, end : CountedIn(k, end)' = CountedIn(k, end)
  BY <1>1 DEF Decided, CountedIn
<1>3. LimitsTypeOK' /\ LimitIsKept' /\ RefusedForCause'
  BY <1>1, <1>2
     DEF LimitsInv, LimitsTypeOK, InTransaction, LimitIsKept, RefusedForCause
<1>4. \A r \in Requests : RequestOK(r)'
  BY <1>1 DEF LimitsInv, RequestOK, InTransaction, TransactionOK, CountedOK
<1>5. \A k \in Identities : RowOK(k)'
  BY <1>1, <1>2 DEF LimitsInv, RowOK, Answered
<1> QED
  BY <1>3, <1>4, <1>5 DEF LimitsInv

\* The inductive invariant of the limits: what a request counted and did not
\* commit is one more than what is committed, or opens the latest window.
THEOREM LimitsAlways == LimitsSpec => []LimitsInv
<1>1. LimitsInit => LimitsInv
  BY LimitsInitially
<1>2. LimitsInv /\ [LimitsNext]_limitVars => LimitsInv'
  <2> SUFFICES ASSUME LimitsInv, [LimitsNext]_limitVars PROVE LimitsInv'
    OBVIOUS
  <2>1. CASE MomentPasses
    BY <2>1, MomentIsOK
  <2>2. ASSUME NEW r \in Requests, RequestStep(r) PROVE LimitsInv'
    BY <2>2, BeginIsOK, DeleteIsOK, LockIsOK, CountIsOK, CommitIsOK, AbortIsOK
       DEF RequestStep
  <2>3. CASE UNCHANGED limitVars
    BY <2>3, LimitsStutter
  <2> QED
    BY <2>1, <2>2, <2>3 DEF LimitsNext
<1> QED
  BY <1>1, <1>2, PTL DEF LimitsSpec

\* A count is given back only after the end of its window (delete of expired
\* rows and the new window in consumeSignupRateLimit).
LEMMA CountLasts ==
    ASSUME LimitsInv, [LimitsNext]_limitVars, NEW k \in Identities,
           IsThere(limits[k]), limits'[k] # limits[k],
           limits'[k].count # limits[k].count + 1
    PROVE  moment >= limits[k].expires
<1>1. ~UNCHANGED limits
  OBVIOUS
<1>2. PICK r \in Requests : Commit(r)
  BY <1>1 DEF LimitsNext, RequestStep, limitVars, MomentPasses, BeginRequest, DeleteExpired,
              LockIdentity, Count, Abort
<1> DEFINE q == requests[r]
<1>3. /\ TransactionOK(r) /\ moment \in Nat /\ q.now \in Nat /\ q.now <= moment
      /\ \A i \in DOMAIN q.writes : limits'[i] = q.writes[i]
      /\ \A i \in Identities \ DOMAIN q.writes : limits'[i] = limits[i]
  BY <1>2, CommitMoves
<1>4. limits[k].expires \in Nat
  BY RowColumns DEF LimitsInv
<1>5. k \in DOMAIN q.writes /\ limits'[k] = q.writes[k]
  BY <1>3
<1>6. CASE k \notin DOMAIN q.windows
  BY <1>3, <1>4, <1>5, <1>6 DEF TransactionOK
<1>7. CASE k \in DOMAIN q.windows
  BY <1>3, <1>4, <1>5, <1>7 DEF TransactionOK, CountedOK
<1> QED
  BY <1>6, <1>7

\* A limit holds for every window, refuses nobody else, and is not reset before
\* its window is over (consumeSignupRateLimit, consumePublicApiRateLimit).
THEOREM LimitsHold == LimitsSpec => LimitsAreKept
<1>1. LimitsInv => LimitsTypeOK /\ LimitIsKept /\ RefusedForCause
  BY DEF LimitsInv
<1>2. LimitsInv /\ [LimitsNext]_limitVars =>
          [\A k \in Identities :
              IsThere(limits[k]) /\ limits'[k] # limits[k]
                 /\ limits'[k].count # limits[k].count + 1
              => moment >= limits[k].expires]_limitVars
  BY CountLasts
<1> QED
  BY <1>1, <1>2, LimitsAlways, PTL DEF LimitsSpec, LimitsAreKept, CountsLast

=============================================================================
