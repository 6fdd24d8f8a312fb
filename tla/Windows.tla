------------------------------ MODULE Windows ------------------------------
(* Schedule windows (packages/shared/encodr_shared/scheduling.py) and the     *)
(* part of the sweep that puts a job off until its next window opens.         *)
(* Time counts slots from the start of a week of Days days of Slots slots;    *)
(* windows start and end on the boundaries a clock can name, and the slots    *)
(* between two boundaries stand for the seconds between two minutes.          *)
EXTENDS Integers, FiniteSets, FiniteSetsExt

CONSTANTS Days, Slots, Boundaries

ASSUME WindowsAssumption ==
    /\ Days \in Nat \ {0}
    /\ Slots \in Nat \ {0}
    /\ Boundaries \subseteq 0..Slots-1

Window == [days : (SUBSET (0..Days-1)) \ {{}}, start : Boundaries, end : Boundaries]
Never == -1

Day(t)   == t \div Slots
Clock(t) == t % Slots
Weekday(d) == d % Days

(* A window whose start is after its end runs over midnight: its tail belongs *)
(* to the day before.                                                         *)
Open(w, t) ==
    IF w.start <= w.end
    THEN Weekday(Day(t)) \in w.days /\ Clock(t) \in w.start..w.end
    ELSE \/ Weekday(Day(t)) \in w.days /\ Clock(t) >= w.start
         \/ Weekday(Day(t) + Days - 1) \in w.days /\ Clock(t) <= w.end

AllowNow(ws, t) == ws = {} \/ \E w \in ws : Open(w, t)

(* The days looked at: today and the seven that follow, so that today's       *)
(* weekday is met again when its window has already started.                  *)
OffsetsThisWeek == 0..Days-1
Offsets == 0..Days

NextOpening(ws, t) ==
    LET starts == {(Day(t) + o) * Slots + w.start : w \in ws, o \in Offsets}
        openings == {u \in starts : u >= t /\ \E w \in ws :
                        Weekday(Day(u)) \in w.days /\ Clock(u) = w.start}
    IN IF ws = {} THEN Never
       ELSE IF AllowNow(ws, t) THEN t
       ELSE IF openings = {} THEN Never ELSE Min(openings)
-----------------------------------------------------------------------------
VARIABLES
    windows,  \* the job's schedule windows, as normalised when it was created
    now,      \* the time
    job       \* its status and, when scheduled, scheduled_for_at

windowVars == <<windows, now, job>>
Horizon == 2 * Days * Slots

WindowsTypeOK ==
    /\ windows \in SUBSET Window
    /\ now \in 0..Horizon
    /\ job \in [status : {"pending", "scheduled"}, due : {Never} \cup (0..Horizon)]

(* A job is created pending; the sweep puts it off.                           *)
WindowsInit ==
    /\ windows \in SUBSET Window
    /\ now \in 0..Days*Slots-1
    /\ job = [status |-> "pending", due |-> Never]

Tick ==
    /\ now < Days * Slots
    /\ now' = now + 1
    /\ UNCHANGED <<windows, job>>

(* _refresh_scheduled_jobs for one unclaimed job.                             *)
Refresh ==
    /\ ~(job.status = "scheduled" /\ job.due > now)
    /\ job' = IF AllowNow(windows, now)
              THEN [status |-> "pending", due |-> Never]
              ELSE [status |-> "scheduled", due |-> NextOpening(windows, now)]
    /\ UNCHANGED <<windows, now>>

WindowsNext == Tick \/ Refresh

WindowsSpec == WindowsInit /\ [][WindowsNext]_windowVars
-----------------------------------------------------------------------------
(* A job that is put off is put off to an instant at which its windows allow  *)
(* it, and no instant it could have used lies between now and then: the       *)
(* sweep skips it until then, so a later date would waste an opening and an   *)
(* earlier or missing one would ask again on every sweep.                     *)
OpeningIsNext ==
    job.status = "scheduled" =>
        /\ AllowNow(windows, job.due)
        /\ \A t \in now..job.due-1 : ~AllowNow(windows, t)
=============================================================================
