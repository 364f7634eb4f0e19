--------------------------- MODULE CalendarObject ---------------------------
(***************************************************************************)
(* A calendar object that clients put, that the form of the admin          *)
(* interface edits and that calendar-query reports look for by time        *)
(* (dav/caldav.go, caldav/match.go, ical/event.go, admin/events.go and     *)
(* ObjectsInTimeRange).  What a report finds depends on the index columns, *)
(* which every write derives from the object, and then on the expansion of *)
(* the object itself.  The rows are read by one statement, so writes and   *)
(* reports are atomic here; SyncCollection and ObjectWrites interleave     *)
(* them.                                                                   *)
(***************************************************************************)
EXTENDS Recurrence

CONSTANTS
    Calendar,        \* objects that clients put
    Form,            \* what is entered into the form
    Repeat,          \* repeatOptions: Missing, or a rule without end
    CompFilter,      \* the component filters of reports
    NoObject,
    Epoch,           \* where a range without start begins
    Century          \* how long a range without end is

Filter ==
    [name : {"VEVENT", "VTODO"}, isNotDefined : BOOLEAN,
     from : Int \cup {Missing}, to : Int \cup {Missing},
     props : SUBSET {"DTSTART", "RRULE", "RECURRENCE-ID"}]

(* The fields of the form as they are parsed; a date has no clock.         *)
Entry ==
    {f \in [start : Int, end : Int, allDay : BOOLEAN, zone : Zone] :
       f.allDay => f.start % Day = 0}

Objects == Seq(Component) \ {<<>>}

ASSUME CalendarAssumption ==
    /\ \A cal \in Calendar : cal \in Objects
    /\ \A form \in Form : form \in Entry
    /\ Repeat \subseteq Rule \cup {Missing}
    /\ CompFilter \subseteq Filter
    /\ NoObject \notin Objects
    /\ Epoch \in Int
    /\ Century \in Int

VARIABLES
    object,          \* objects.raw, or NoObject
    row,             \* objects.start_at and end_at
    reply            \* the last reply

vars == <<object, row, reply>>

NoRow == [start |-> Missing, end |-> Missing]

Replies ==
    [status : {"none", "stored", "refused"}]
    \cup [status : {"answered"}, filter : CompFilter, found : BOOLEAN]

TypeOK ==
    /\ object \in Objects \cup {NoObject}
    /\ object = NoObject <=> row = NoRow
    /\ row.start \in Int \cup {Missing}
    /\ row.end \in Int \cup {Missing}
    /\ reply \in Replies

Init ==
    /\ object = NoObject
    /\ row = NoRow
    /\ reply = [status |-> "none"]

Refuse == reply' = [status |-> "refused"] /\ UNCHANGED <<object, row>>

(* Mutant: an object without bounds is stored all the same.                *)
StoreUnindexed(cal) ==
    /\ object' = cal
    /\ row' = IF SummariseFails(cal) THEN NoRow ELSE Summarise(cal)
    /\ reply' = [status |-> "stored"]

(* CalendarIndex, and PutObject with the columns it returns: the path that *)
(* PUT and storeEvent have in common.                                      *)
Store(cal) ==
    \/ SummariseFails(cal) /\ Refuse
    \/ /\ ~SummariseFails(cal)
       /\ object' = cal
       /\ row' = Summarise(cal)
       /\ reply' = [status |-> "stored"]

PutCalendarObject(cal) == Store(cal)

DeleteCalendarObject ==
    /\ object # NoObject
    /\ object' = NoObject
    /\ row' = NoRow
    /\ reply' = [status |-> "stored"]

-----------------------------------------------------------------------------
(* The form                                                                *)

(* The first VEVENT of the object, which is the one that is edited.        *)
Editable(cal) == {i \in DOMAIN cal : cal[i].name = "VEVENT"}

EventOf(cal) == cal[Min(Editable(cal))]

(* ReadEvent: start and end as wall times of DTSTART's zone.               *)
ReadEnd(c) ==
    CASE EndsAt(c) -> c.end.at
      [] ~EndsAt(c) /\ c.end # Missing -> c.start + c.end.for
      [] c.end = Missing -> IF c.date THEN c.start + Day ELSE c.start

(* Mutant: the last day of an event of whole days is shown as it is stored. *)
formatEndDateAsStored(c) == ReadEnd(c)

(* formatEndDate: of an event of whole days the last day is shown.         *)
formatEndDate(c) ==
    IF c.date /\ ReadEnd(c) > c.start THEN ReadEnd(c) - Day ELSE ReadEnd(c)

(* What the form shows of the event; whole days have no clock.             *)
Shown(c) ==
    LET whole(t) == IF c.date THEN (t \div Day) * Day ELSE t
    IN  [start |-> whole(c.start), end |-> whole(formatEndDate(c)),
         allDay |-> c.date, zone |-> c.zone]

(* eventFromForm: a last day becomes the day after it, and whole days have *)
(* no zone.                                                                *)
UTC == [kind |-> "iana", observances |-> {}]

eventFromForm(form) ==
    [form EXCEPT !.end = IF form.allDay THEN @ + Day ELSE @,
                 !.zone = IF form.allDay THEN UTC ELSE @]

(* validate: zones are looked up in the IANA database only.                *)
validate(event) ==
    /\ event.start <= event.end
    /\ event.allDay \/ event.zone.kind = "iana"

(* Apply: an event with DURATION keeps that shape; what the form does not  *)
(* show stays.                                                             *)
Apply(cal, event) ==
    LET c == EventOf(cal)
    IN  [cal EXCEPT ![Min(Editable(cal))] =
          [c EXCEPT !.start = event.start, !.date = event.allDay,
                    !.zone = event.zone,
                    !.end = IF c.end # Missing /\ ~EndsAt(c)
                            THEN [for |-> event.end - event.start]
                            ELSE [at |-> event.end],
                    !.endZone = IF c.end # Missing /\ ~EndsAt(c)
                                THEN c.endZone ELSE event.zone]]

(* updateEvent                                                             *)
UpdateEvent(form) ==
    /\ object # NoObject
    /\ LET event == eventFromForm(form)
       IN  \/ /\ Editable(object) # {} /\ validate(event)
              /\ Store(Apply(object, event))
           \/ (Editable(object) = {} \/ ~validate(event)) /\ Refuse

(* createEvent: New applies the form to an event that has only a UID, and  *)
(* composes the RRULE.  The file name is a new random one.                 *)
Blank ==
    [name |-> "VEVENT", start |-> Missing, end |-> Missing, date |-> FALSE,
     zone |-> UTC, endZone |-> UTC, rule |-> Missing, rdates |-> {},
     exdates |-> {}, rid |-> Missing]

CreateEvent(form, repeat) ==
    /\ object = NoObject
    /\ LET event == eventFromForm(form)
       IN  \/ validate(event) /\ Store([Apply(<<Blank>>, event) EXCEPT ![1].rule = repeat])
           \/ ~validate(event) /\ Refuse

(* The form is opened and sent back as it is.  showEvent does not open it  *)
(* for an object without VEVENT or DTSTART.                                *)
SaveAsShown ==
    /\ object # NoObject
    /\ Editable(object) # {}
    /\ EventOf(object).start # Missing
    /\ UpdateEvent(Shown(EventOf(object)))

-----------------------------------------------------------------------------
(* Reports                                                                 *)

(* compFilterRange; a filter has a range when it has one of its ends.      *)
Ranged(filter) == filter.from # Missing \/ filter.to # Missing

From(filter) == IF filter.from = Missing THEN Epoch ELSE filter.from

To(filter) == IF filter.to = Missing THEN From(filter) + Century ELSE filter.to

(* The WHERE clause of ObjectsInTimeRange.                                 *)
InTimeRange(from, to) ==
    row.start = Missing \/ (row.start < to /\ (row.end = Missing \/ row.end > from))

(* matchPropFilter with an empty filter, for the properties modelled here. *)
HasProp(c, prop) ==
    CASE prop = "DTSTART" -> c.start # Missing
      [] prop = "RRULE" -> c.rule # Missing
      [] prop = "RECURRENCE-ID" -> c.rid # Missing

(* matchCompFilter and match, without the ranges that stripCompRange takes *)
(* out.  A child of another name is a match of is-not-defined, and so is   *)
(* no match at all: such a filter is met by every object.                  *)
Matches(filter, cal) ==
    \/ filter.isNotDefined
    \/ \E i \in DOMAIN cal : /\ cal[i].name = filter.name
                             /\ \A prop \in filter.props : HasProp(cal[i], prop)

(* occursInRange, Overlaps; an object that cannot be expanded is skipped.  *)
OccursInRange(cal, from, to) ==
    ~ExpandFails(cal, from, to) /\ Expand(cal, from, to) # {}

(* QueryCalendarObjects                                                    *)
QueryCalendarObjects(filter) ==
    /\ object # NoObject
    /\ reply' = [status |-> "answered", filter |-> filter,
                 found |-> /\ Ranged(filter) =>
                                /\ InTimeRange(From(filter), To(filter))
                                /\ OccursInRange(object, From(filter), To(filter))
                           /\ Matches(filter, object)]
    /\ UNCHANGED <<object, row>>

-----------------------------------------------------------------------------

Next ==
    \/ \E cal \in Calendar : PutCalendarObject(cal)
    \/ DeleteCalendarObject
    \/ \E form \in Form : \/ UpdateEvent(form)
                          \/ \E repeat \in Repeat : CreateEvent(form, repeat)
    \/ SaveAsShown
    \/ \E filter \in CompFilter : QueryCalendarObjects(filter)

Spec == Init /\ [][Next]_vars

-----------------------------------------------------------------------------
(* Properties                                                              *)

(* The occurrences of an object as its components define them: those of    *)
(* the series, as far as the cap reaches, of which no override names the   *)
(* instant, and the overrides.                                             *)
Occurrences(cal) ==
    LET named(w) == \E o \in Overrides(cal) :
                      ToUTC(o.zone, o.rid) = ToUTC(Master(cal).zone, w)
        series == recurrenceSet(Master(cal))
        capped == {w \in series : Cardinality({v \in series : v < w}) < maxOccurrences}
    IN  {[instanceOf(o) EXCEPT !.override = TRUE] : o \in Overrides(cal)}
        \cup IF ~HasMaster(cal) THEN {}
             ELSE IF ~Recurs(Master(cal)) THEN {instanceOf(Master(cal))}
             ELSE {[absolute(Master(cal), w) EXCEPT !.rid = Missing] :
                     w \in {v \in capped : ~named(v)}}

Asked == reply.status = "answered" /\ Ranged(reply.filter)

ExpandedExactly ==
    Asked /\ ~ExpandFails(object, From(reply.filter), To(reply.filter)) =>
      {[inst EXCEPT !.rid = Missing] :
         inst \in Expand(object, From(reply.filter), To(reply.filter))}
      = {inst \in Occurrences(object) :
           overlaps(inst, From(reply.filter), To(reply.filter))}

(* "Recurrence overrides replace the instances they name, and EXDATE       *)
(* removes them" (Expand): the expansion of a range is exactly the         *)
(* occurrences in it, although it runs in wall time over a widened window. *)
OverridesReplace == ExpandedExactly

(* The same for objects without overrides, and for those in UTC: the       *)
(* window is wide enough for every offset and length, and no occurrence at *)
(* its edge is lost or added.                                              *)
ExpansionIsExact ==
    (/\ Asked
     /\ Overrides(object) # {} => \A i \in DOMAIN object : object[i].zone = UTC)
    => ExpandedExactly

(* A report finds every object with an occurrence in its range: the index  *)
(* columns, which every write derives anew, never hide it (the comment on  *)
(* ObjectsInTimeRange: "narrows a collection to the objects that could     *)
(* overlap").  Left out is what the columns do not record: an occurrence   *)
(* of no length at the very start of the range, one of an endless series   *)
(* before its DTSTART, and further overrides of an object without master.  *)
FoundWhenItOccurs ==
    LET from == From(reply.filter)
        to   == To(reply.filter)
    IN  (/\ Asked
         /\ Matches(reply.filter, object)
         /\ ~ExpandFails(object, from, to)
         /\ HasMaster(object) \/ Len(object) = 1
         /\ \E inst \in Expand(object, from, to) :
              /\ inst.end > from
              /\ HasMaster(object) /\ ~Bounded(Master(object))
                   => inst.start >= instanceOf(Master(object)).start)
        => reply.found

WallTimes(c) == {c.start} \cup recurrenceSet(c)

ZoneIsExact(zone, wall) ==
    LET near == (wall - expansionSlack)..(wall + expansionSlack)
        meant == {i \in near : i + TrueOffset(zone.observances, i) = wall}
    IN  Cardinality(meant) = 1 => ToUTC(zone, wall) \in meant

(* What the answer of offsetAt depends on around a wall time: no two       *)
(* changes of the zone at one instant disagree; offsetAt looks at every    *)
(* date of the rules, or there was some change less than three years ago   *)
(* and after 1970 (the last change before the instant is then within its   *)
(* window); and within the largest offset of the wall time there is one    *)
(* change at most.                                                         *)
RegularAt(observances, wall) ==
    LET changes == AllTransitions(observances)
    IN  /\ \A t, u \in changes : t.at = u.at => t = u
        /\ \/ \A o \in observances : \A v \in RuleDates(o) :
                Anchor <= v /\ wall + expansionSlack - 3 * Year <= v
           \/ \E t \in changes : /\ t.at <= wall - expansionSlack
                                 /\ wall + 2 * expansionSlack - 3 * Year <= t.at
                                 /\ Anchor + expansionSlack <= t.at
        /\ \E d \in 0..expansionSlack :
             /\ \A o \in observances : o.offsetFrom \in (-d)..d /\ o.offsetTo \in (-d)..d
             /\ \A t, u \in changes :
                  t.at \in (wall - d + 1)..(wall + d) /\ u.at \in (wall - d + 1)..(wall + d)
                    => t.at = u.at

(* The VTIMEZONE of an object is resolved as it is written: wherever a     *)
(* wall time of the object belongs to exactly one instant, embeddedOffset  *)
(* finds it, also next to a transition ("Only a wall time within a few     *)
(* hours of a transition can disagree between the two passes").  "VTIMEZONE *)
(* rules are yearly, so a few years either side is always enough to        *)
(* bracket the instant" (offsetAt) is not true of a wall time more than    *)
(* three years after the last change of its zone, if a rule made that      *)
(* change: RegularAt leaves those wall times out.                          *)
EmbeddedZoneIsExact ==
    object # NoObject =>
      \A i \in DOMAIN object :
        (/\ object[i].zone.kind = "embedded"
         /\ object[i].start # Missing
         /\ reply.status = "stored")
        => \A w \in WallTimes(object[i]) :
             RegularAt(object[i].zone.observances, w) => ZoneIsExact(object[i].zone, w)

(* Opening the form of an event and saving it as it is shown does not move *)
(* the event: dates, last days, DURATION and zones survive the conversion  *)
(* to the form and back.  The form has one zone, so an event that ends in  *)
(* another one is left out, and so are dates in a zone, which the form     *)
(* would drop, and whole days that do not last one.                        *)
SavedStays ==
    SaveAsShown /\ reply'.status = "stored" =>
      LET c == EventOf(object)
      IN  (/\ EndsAt(c) => c.endZone = c.zone
           /\ c.date => /\ c.zone = UTC
                        /\ ReadEnd(c) > c.start
                        /\ (ReadEnd(c) - c.start) % Day = 0)
          => instanceOf(EventOf(object')) = instanceOf(c)

SavedAsShownStays == [][SavedStays]_vars
=============================================================================
