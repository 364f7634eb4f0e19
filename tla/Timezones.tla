----------------------------- MODULE Timezones -----------------------------
(***************************************************************************)
(* How a wall time of a calendar object becomes an instant                 *)
(* (internal/recurrence/timezone.go).  A zone is known to the IANA         *)
(* database, or is defined by the VTIMEZONE of the object itself, or is    *)
(* unknown.  Wall times and instants are numbers of ticks; a wall time is  *)
(* its instant plus the offset in force.                                   *)
(***************************************************************************)
EXTENDS Integers

CONSTANTS
    Year,            \* ticks between two dates of a yearly rule
    NoRule,          \* an observance without RRULE
    Endless,         \* an RRULE without UNTIL
    Anchor,          \* 1970, before which no rule is looked at
    MaxYears         \* bound on how often a rule of an observance recurs

ASSUME TimezonesAssumption ==
    /\ Year \in Nat \ {0}
    /\ MaxYears \in Nat
    /\ Anchor \in Int
    /\ NoRule \notin Int
    /\ Endless \notin Int \cup {NoRule}

(* One STANDARD or DAYLIGHT block.  until is the end of its yearly RRULE.  *)
Observance ==
    [start : Int, offsetFrom : Int, offsetTo : Int, rdates : SUBSET Int,
     until : Int \cup {NoRule, Endless}]

ZoneKind == {"iana", "embedded", "unknown"}

(* The dates of the rule, of which the model looks at MaxYears.            *)
RuleDates(o) ==
    {w \in {o.start + k * Year : k \in 0..MaxYears} :
       IF o.until = NoRule THEN FALSE
       ELSE IF o.until = Endless THEN TRUE ELSE w <= o.until}

(* An observance begins at a wall time in the offset before it.            *)
Transitions(o, dates) ==
    {[at |-> w - o.offsetFrom, before |-> o.offsetFrom, after |-> o.offsetTo] :
       w \in dates}

(* The offset after the last transition that is not later than instant, or *)
(* the one before all of them.                                             *)
OffsetIn(transitions, instant) ==
    LET past == {t \in transitions : t.at <= instant}
    IN  IF past # {}
        THEN (CHOOSE t \in past : \A u \in past : u.at <= t.at).after
        ELSE (CHOOSE t \in transitions : \A u \in transitions : t.at <= u.at).before

(* Mutant: the rule is looked at from the instant on.                      *)
offsetAtForward(observances, instant) ==
    OffsetIn(UNION {Transitions(o, {o.start} \cup o.rdates \cup
                      {w \in RuleDates(o) : /\ Anchor <= w
                                            /\ instant <= w /\ w <= instant + Year}) :
                    o \in observances}, instant)

(* offsetAt: start, RDATEs, and the dates of the rule from three years     *)
(* before the instant to one year after it; ruleAnchor moves the start of  *)
(* a rule to 1970, so that it has no earlier dates.                        *)
offsetAt(observances, instant) ==
    OffsetIn(UNION {Transitions(o, {o.start} \cup o.rdates \cup
                      {w \in RuleDates(o) :
                         /\ Anchor <= w
                         /\ instant - 3 * Year <= w /\ w <= instant + Year}) :
                    o \in observances}, instant)

(* embeddedOffset: the wall time is first taken for an instant, and the    *)
(* answer is refined once.                                                 *)
embeddedOffset(observances, wall) ==
    offsetAt(observances, wall - offsetAt(observances, wall))

(* All transitions of a zone.                                              *)
AllTransitions(observances) ==
    UNION {Transitions(o, {o.start} \cup o.rdates \cup RuleDates(o)) : o \in observances}

(* The offset all observances together define, which is what a zone of the *)
(* IANA database has; no observances is UTC.                               *)
TrueOffset(observances, instant) ==
    IF observances = {} THEN 0 ELSE OffsetIn(AllTransitions(observances), instant)

(* Resolve: the offset for a wall time.  time.Date of a time.Location also *)
(* looks twice.                                                            *)
Resolve(zone, wall) ==
    IF zone.kind = "embedded" THEN embeddedOffset(zone.observances, wall)
    ELSE TrueOffset(zone.observances, wall - TrueOffset(zone.observances, wall))

ToUTC(zone, wall) == wall - Resolve(zone, wall)

(* toWall: an instant in a location, but an embedded zone is resolved as   *)
(* if the instant were a wall time.                                        *)
toWall(zone, instant) ==
    instant + (IF zone.kind = "embedded" THEN embeddedOffset(zone.observances, instant)
               ELSE TrueOffset(zone.observances, instant))
=============================================================================
