----------------------------- MODULE MCCalendar -----------------------------
(***************************************************************************)
(* Small instances of CalendarObject: a year of 12 ticks, a day of 2.      *)
(***************************************************************************)
EXTENDS CalendarObject

Summer ==
    {[start |-> 4, offsetFrom |-> 0, offsetTo |-> 1, rdates |-> {}, until |-> Endless],
     [start |-> 10, offsetFrom |-> 1, offsetTo |-> 0, rdates |-> {}, until |-> Endless]}

(* One change of the offset, to the west, given by its dates.              *)
West ==
    {[start |-> 0, offsetFrom |-> 0, offsetTo |-> -1, rdates |-> {6}, until |-> NoRule],
     [start |-> 3, offsetFrom |-> -1, offsetTo |-> 0, rdates |-> {}, until |-> NoRule]}

(* Rules from the beginning of time, as Outlook writes them.               *)
Always ==
    {[start |-> -20, offsetFrom |-> 0, offsetTo |-> 1, rdates |-> {}, until |-> Endless],
     [start |-> -14, offsetFrom |-> 1, offsetTo |-> 0, rdates |-> {}, until |-> Endless]}

(* Earlier rules, in another offset, that were over years before Summer.   *)
Historical ==
    {[start |-> -68, offsetFrom |-> 1, offsetTo |-> 2, rdates |-> {}, until |-> -44],
     [start |-> -62, offsetFrom |-> 2, offsetTo |-> 1, rdates |-> {}, until |-> -50],
     [start |-> -38, offsetFrom |-> 2, offsetTo |-> 0, rdates |-> {}, until |-> NoRule]}
    \cup Summer

Berlin == [kind |-> "iana", observances |-> Summer]
Outlook == [kind |-> "embedded", observances |-> Always]
Lisbon == [kind |-> "embedded", observances |-> Historical]
Embedded == [kind |-> "embedded", observances |-> West]
Nowhere == [kind |-> "unknown", observances |-> {}]

Zones == {UTC, Berlin, Outlook, Embedded}

Comp(start, end, zone) ==
    [name |-> "VEVENT", start |-> start, end |-> end, date |-> FALSE,
     zone |-> zone, endZone |-> zone, rule |-> Missing, rdates |-> {},
     exdates |-> {}, rid |-> Missing]

Days(start, end) == [Comp(start, end, UTC) EXCEPT !.date = TRUE]

Todo(start, end, zone) == [Comp(start, end, zone) EXCEPT !.name = "VTODO"]

Series(c, interval, count, until, rdates, exdates) ==
    [c EXCEPT !.rule = [interval |-> interval, count |-> count, until |-> until],
              !.rdates = rdates, !.exdates = exdates]

Moved(start, length, zone, rid) ==
    [Comp(start, [for |-> length], zone) EXCEPT !.rid = rid]

Singles ==
    {<<Comp(s, e, z)>> : s \in {3, 5}, e \in {Missing, [at |-> 11], [for |-> 2]}, z \in Zones}
    \cup {<<Days(4, e)>> : e \in {Missing, [at |-> 6], [at |-> 8], [for |-> 4]}}
    \cup {<<Todo(Missing, [at |-> 5], Outlook)>>, <<Todo(Missing, Missing, UTC)>>,
          <<Todo(3, [at |-> 5], UTC)>>, <<Comp(3, [for |-> 1], Nowhere)>>,
          <<[Todo(3, [at |-> 5], Outlook) EXCEPT !.zone = Nowhere]>>,
          <<Comp(9, [for |-> 1], Lisbon)>>}

Repeating ==
    {<<Series(c, i, n[1], n[2], d[1], d[2])>> :
       c \in {Comp(2, [for |-> 3], z) : z \in Zones} \cup {Comp(2, [at |-> 3], Outlook)},
       i \in {2, 5}, n \in {<<0, Missing>>, <<3, Missing>>, <<0, 9>>},
       d \in {<<{}, {}>>, <<{1}, {7}>>}}
    \cup {<<[Comp(4, [for |-> 1], UTC) EXCEPT !.rdates = {1, 12}]>>,
          <<Series(Todo(Missing, [at |-> 5], UTC), 2, 2, Missing, {}, {})>>,
          <<Series([Todo(3, [at |-> 5], UTC) EXCEPT !.zone = Nowhere], 5, 0, Missing, {}, {})>>}
    \cup {<<Series(Comp(2, [for |-> 3], Lisbon), 3, 5, Missing, {}, {})>>}

WithOverrides(zones) ==
    {<<Series(Comp(2, [for |-> 1], z), 5, n, Missing, {}, {}), Moved(s, l, z, 7)>> :
       n \in {0, 3}, s \in {0, 7, 15}, l \in {0, 2}, z \in zones}
    \cup {<<Comp(2, [for |-> 1], z), Moved(9, 2, z, 7)>> : z \in zones}
    \cup {<<Moved(9, 2, z, 7), Moved(4, 2, z, 2)>> : z \in zones}

MCCalendar == Singles \cup Repeating \cup WithOverrides({UTC})

MCZoned == WithOverrides(Zones)

MCForm ==
    {[start |-> 6, end |-> e, allDay |-> a, zone |-> z] :
       e \in {4, 6, 12}, a \in BOOLEAN, z \in {UTC, Berlin}}

MCRepeat == {Missing, [interval |-> Day, count |-> 0, until |-> Missing]}

Ask(from, to) ==
    [name |-> "VEVENT", isNotDefined |-> FALSE, from |-> from, to |-> to, props |-> {}]

MCCompFilter ==
    {Ask(f, f + n) : f \in {0, 3, 5, 8, 12}, n \in {1, 4}}
    \cup {Ask(6, Missing), Ask(Missing, 4), Ask(Missing, Missing),
          [Ask(3, 8) EXCEPT !.props = {"RRULE", "DTSTART"}],
          [Ask(Missing, Missing) EXCEPT !.props = {"RECURRENCE-ID"}],
          [Ask(5, 9) EXCEPT !.name = "VTODO"],
          [Ask(5, 9) EXCEPT !.name = "VTODO", !.isNotDefined = TRUE]}
=============================================================================
