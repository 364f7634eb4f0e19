----------------------------- MODULE Recurrence -----------------------------
(***************************************************************************)
(* The occurrences of a calendar object and the bounds that are indexed    *)
(* for it (internal/recurrence/expand.go).                                 *)
(*                                                                         *)
(* A calendar object is the sequence of its VEVENTs and VTODOs.  A         *)
(* component has                                                           *)
(*   start    the wall time of DTSTART, or Missing;                        *)
(*   end      [at |-> wall time] of DTEND or DUE, [for |-> DURATION], or   *)
(*            Missing;                                                     *)
(*   date     whether DTSTART is a date;                                   *)
(*   zone, endZone    of DTSTART and RECURRENCE-ID, of DTEND or DUE;       *)
(*   rule     Missing, or interval, count (0: none) and until (an instant  *)
(*            or Missing) of RRULE;                                        *)
(*   rdates, exdates                                                       *)
(*   rid      the wall time of RECURRENCE-ID, or Missing for a master.     *)
(* No two overrides have the same RECURRENCE-ID.  RDATE and EXDATE are the *)
(* digits that are written, whatever zone they name (dateList).            *)
(***************************************************************************)
EXTENDS Timezones, Sequences, FiniteSetsExt

CONSTANTS
    Missing,
    Day,             \* ticks of a day
    expansionSlack,  \* by how much the window of an expansion is widened
    maxOccurrences,  \* how many occurrences an expansion looks at
    MaxRepeats       \* bound on how often a rule without end recurs

ASSUME RecurrenceAssumption ==
    /\ Missing \notin Int
    /\ Missing \notin [at : Int] \cup [for : Int]
    /\ Missing \notin [interval : Nat, count : Nat, until : Int \cup {Missing}]
    /\ Day \in Nat \ {0}
    /\ expansionSlack \in Nat
    /\ expansionSlack <= Year
    /\ maxOccurrences \in Nat
    /\ MaxRepeats \in Nat

(* "A day either side covers every real UTC offset."                       *)
RealOffset == (-expansionSlack)..expansionSlack

(* A VTIMEZONE has at least one observance.                                *)
Zone ==
    {z \in [kind : ZoneKind, observances : SUBSET Observance] :
       /\ IsFiniteSet(z.observances)
       /\ \A o \in z.observances : /\ IsFiniteSet(o.rdates)
                                   /\ o.offsetFrom \in RealOffset
                                   /\ o.offsetTo \in RealOffset
       /\ z.kind = "embedded" => z.observances # {}}

Rule == [interval : Nat, count : Nat, until : Int \cup {Missing}]

(* A date has no clock.                                                    *)
Component ==
    {c \in [name : {"VEVENT", "VTODO"}, start : Int \cup {Missing},
            end : [at : Int] \cup [for : Int] \cup {Missing}, date : BOOLEAN,
            zone : Zone, endZone : Zone, rule : Rule \cup {Missing},
            rdates : SUBSET Int, exdates : SUBSET Int, rid : Int \cup {Missing}] :
       /\ IsFiniteSet(c.rdates)
       /\ c.date /\ c.start # Missing => c.start % Day = 0}

(* split: the first component without RECURRENCE-ID is the master.         *)
(* VTIMEZONE and VALARM are not part of the sequence.                      *)
Masters(cal) == {i \in DOMAIN cal : cal[i].rid = Missing}

Overrides(cal) == {c \in {cal[i] : i \in DOMAIN cal} : c.rid # Missing}

HasMaster(cal) == Masters(cal) # {}

Master(cal) == cal[Min(Masters(cal))]

EndsAt(c) == c.end # Missing /\ "at" \in DOMAIN c.end

Recurs(c) == c.rule # Missing \/ c.rdates # {}

(* An RRULE with neither COUNT nor UNTIL never ends.                       *)
Bounded(c) == c.rule # Missing => c.rule.count > 0 \/ c.rule.until # Missing

(* componentTime of DTSTART fails: there is none, or its zone is unknown.  *)
NoStart(c) == c.start = Missing \/ c.zone.kind = "unknown"

(* instanceOf fails: no start, and no DUE of a VTODO in its place; or an   *)
(* end in a zone that is not known.                                        *)
Unplaced(c) ==
    \/ NoStart(c) /\ ~(c.name = "VTODO" /\ EndsAt(c))
    \/ EndsAt(c) /\ c.endZone.kind = "unknown"

(* endTime                                                                 *)
endTime(c, start) ==
    CASE EndsAt(c) -> ToUTC(c.endZone, c.end.at)
      [] ~EndsAt(c) /\ c.end # Missing -> start + c.end.for
      [] c.end = Missing -> IF c.date THEN start + Day ELSE start

(* instanceOf: a VTODO whose DTSTART cannot be read is at its DUE.         *)
instanceOf(c) ==
    LET start == IF NoStart(c) THEN ToUTC(c.endZone, c.end.at)
                 ELSE ToUTC(c.zone, c.start)
    IN  [start |-> start,
         end |-> IF NoStart(c) THEN start ELSE endTime(c, start),
         rid |-> Missing, override |-> FALSE]

(* recurrenceSet: the wall times of RRULE and RDATE without EXDATE.  The   *)
(* library counts before it excludes.                                      *)
recurrenceSet(c) ==
    LET last == IF c.rule.count > 0 THEN c.rule.count - 1 ELSE MaxRepeats
        rule == IF c.rule = Missing THEN {}
                ELSE {w \in {c.start + k * c.rule.interval : k \in 0..last} :
                        c.rule.until = Missing \/ w <= toWall(c.zone, c.rule.until)}
    IN  (rule \cup c.rdates) \ c.exdates

(* absolute: each occurrence is resolved in the zone by itself.            *)
absolute(c, wall) ==
    LET start == ToUTC(c.zone, wall)
        base  == instanceOf(c)
    IN  [start |-> start, end |-> start + (base.end - base.start),
         rid |-> wall, override |-> FALSE]

(* overlaps: an instance without duration belongs to a range that contains *)
(* its start.                                                              *)
overlaps(inst, from, to) ==
    IF inst.start = inst.end THEN from <= inst.start /\ inst.start < to
    ELSE inst.start < to /\ from < inst.end

-----------------------------------------------------------------------------
(* Expansion                                                               *)

(* Mutant: the window does not reach back by the length of an occurrence.  *)
windowFromWithoutDuration(base, from) == from - expansionSlack

windowFrom(base, from) == from - (base.end - base.start) - expansionSlack

(* The wall times in a window around the range, which has to be wide       *)
(* enough for every offset.  The cap counts from the first occurrence of   *)
(* the series.                                                             *)
InWindow(c, from, to) ==
    LET all == recurrenceSet(c)
    IN  {w \in all :
           /\ Cardinality({v \in all : v < w}) < maxOccurrences
           /\ windowFrom(instanceOf(c), from) <= w
           /\ w <= to + expansionSlack}

(* expandMaster: of the wall times in the window the exact ones.           *)
expandMaster(c, from, to) ==
    {inst \in IF Recurs(c) THEN {absolute(c, w) : w \in InWindow(c, from, to)}
              ELSE {instanceOf(c)} :
       overlaps(inst, from, to)}

(* The instance of an override and the key it replaces: the instant of its *)
(* RECURRENCE-ID.                                                          *)
overrideOf(c) ==
    [instanceOf(c) EXCEPT !.rid = ToUTC(c.zone, c.rid), !.override = TRUE]

(* Expand: an instance of the master is dropped when an override has its   *)
(* key; the overrides in range are added.                                  *)
Expand(cal, from, to) ==
    LET overrides == {overrideOf(c) : c \in Overrides(cal)}
        expanded  == IF HasMaster(cal) THEN expandMaster(Master(cal), from, to) ELSE {}
    IN  {inst \in expanded : \A o \in overrides : o.rid # inst.rid}
        \cup {o \in overrides : overlaps(o, from, to)}

(* recurrenceSet or absolute fails: a series has no DTSTART, or its zone   *)
(* is unknown and UNTIL or one of these wall times has to be converted.    *)
UnplacedSeries(c, walls) ==
    /\ Recurs(c)
    /\ \/ c.start = Missing
       \/ /\ c.zone.kind = "unknown"
          /\ walls # {} \/ (c.rule # Missing /\ c.rule.until # Missing)

(* Expand returns an error.                                                *)
ExpandFails(cal, from, to) ==
    \/ \E o \in Overrides(cal) : o.zone.kind = "unknown" \/ Unplaced(o)
    \/ /\ HasMaster(cal)
       /\ \/ Unplaced(Master(cal))
          \/ UnplacedSeries(Master(cal), InWindow(Master(cal), from, to))

-----------------------------------------------------------------------------
(* Bounds                                                                  *)

(* widen, of all these instances                                           *)
Span(instances) ==
    [start |-> Min({i.start : i \in instances}), end |-> Max({i.end : i \in instances})]

(* Mutant: overrides of a series are taken to lie within it.               *)
SummariseWithoutOverrides(cal) ==
    LET c == IF HasMaster(cal) THEN Master(cal) ELSE cal[1]
    IN  IF ~HasMaster(cal) \/ ~Recurs(c) THEN Span({instanceOf(c)})
        ELSE IF ~Bounded(c) THEN [start |-> instanceOf(c).start, end |-> Missing]
        ELSE Span({instanceOf(c)} \cup {absolute(c, w) : w \in recurrenceSet(c)})

(* Summarise: the first start and the last end of master, occurrences and  *)
(* overrides.  A series without end has no end, and its start is that of   *)
(* the master; of an object without master the first override counts.      *)
Summarise(cal) ==
    LET c      == IF HasMaster(cal) THEN Master(cal) ELSE cal[1]
        series == IF Recurs(c) THEN {absolute(c, w) : w \in recurrenceSet(c)} ELSE {}
    IN  IF ~HasMaster(cal) THEN Span({instanceOf(c)})
        ELSE IF ~Bounded(c) THEN [start |-> instanceOf(c).start, end |-> Missing]
        ELSE Span({instanceOf(c)} \cup series \cup {instanceOf(o) : o \in Overrides(cal)})

(* Summarise returns an error; the overrides of an endless series are not  *)
(* looked at.                                                              *)
SummariseFails(cal) ==
    IF HasMaster(cal)
    THEN LET c == Master(cal)
         IN  \/ Unplaced(c)
             \/ UnplacedSeries(c, IF Bounded(c) THEN recurrenceSet(c) ELSE {})
             \/ Bounded(c) /\ \E o \in Overrides(cal) : Unplaced(o)
    ELSE Unplaced(cal[1])
=============================================================================
