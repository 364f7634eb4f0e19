--------------------------- MODULE CalendarProofs ---------------------------
(***************************************************************************)
(* Proofs about CalendarObject and the operators it is built from, for     *)
(* every set of objects, forms, filters and zones and every value of the   *)
(* bounds.                                                                 *)
(***************************************************************************)
EXTENDS CalendarObject, FiniteSetTheorems, TLAPS

-----------------------------------------------------------------------------
(* Finite sets of numbers                                                  *)

(* A finite set that is not empty has a member nothing follows in a strict *)
(* order: one with as few members after it as possible has none.           *)
LEMMA Extreme ==
    ASSUME NEW S, IsFiniteSet(S), S # {}, NEW R,
           \A x \in S : <<x, x>> \notin R,
           \A x, y, z \in S : <<x, y>> \in R /\ <<y, z>> \in R => <<x, z>> \in R
    PROVE  \E x \in S : \A y \in S : <<x, y>> \notin R
  <1> DEFINE After(x) == {y \in S : <<x, y>> \in R}
             Family == {After(x) : x \in S}
             Fin == FiniteSubsetsOf(S)
             Less == StrictSubsetOrdering(S)
  <1>1. Family \subseteq Fin /\ Family # {}
    <2>1. \A x \in S : After(x) \in SUBSET S
      OBVIOUS
    <2>2. Fin = SUBSET S
      BY FS_FiniteSubsetsOfFinite
    <2> HIDE DEF After, Fin
    <2> QED
      BY <2>1, <2>2
  <1>2. IsWellFoundedOn(Less, Fin)
    BY FS_StrictSubsetOrderingWellFounded
  <1>3. \E A \in Family : \A B \in Family : <<B, A>> \notin Less
    <2> HIDE DEF Family, Fin, Less
    <2> QED
      BY <1>1, <1>2, WFMin
  <1>4. PICK x \in S : \A y \in S : <<After(y), After(x)>> \notin Less
    <2> HIDE DEF After, Less
    <2> QED
      BY <1>3
  <1>5. ASSUME NEW y \in S, <<x, y>> \in R PROVE FALSE
    <2>1. After(y) \subseteq After(x)
      BY <1>5
    <2>2. After(y) # After(x)
      BY <1>5
    <2>3. After(y) \in SUBSET S /\ After(x) \in SUBSET S
      OBVIOUS
    <2>4. <<After(y), After(x)>> \in Less
      <3> HIDE DEF After
      <3> QED
        BY <2>1, <2>2, <2>3 DEF StrictSubsetOrdering
    <2> QED
      BY <1>4, <2>4
  <1> QED
    BY <1>5

(* Max and Min return a member that bounds the others.                     *)
LEMMA MaxOf ==
    ASSUME NEW S \in SUBSET Int, IsFiniteSet(S), S # {}
    PROVE  Max(S) \in S /\ \A y \in S : y <= Max(S)
  <1> DEFINE R == {p \in Int \X Int : p[1] < p[2]}
  <1>1. \A x, y \in S : <<x, y>> \in R <=> x < y
    OBVIOUS
  <1>2. \E x \in S : \A y \in S : <<x, y>> \notin R
    <2>1. \A x \in S : <<x, x>> \notin R
      BY <1>1
    <2>2. \A x, y, z \in S : <<x, y>> \in R /\ <<y, z>> \in R => <<x, z>> \in R
      <3> HIDE DEF R
      <3> QED
        BY <1>1
    <2> HIDE DEF R
    <2> QED
      BY <2>1, <2>2, Extreme
  <1>3. \E x \in S : \A y \in S : x >= y
    <2>1. PICK x \in S : \A y \in S : <<x, y>> \notin R
      BY <1>2
    <2>2. \A y \in S : ~(x < y)
      <3> HIDE DEF R
      <3> QED
        BY <1>1, <2>1, Zenon
    <2> QED
      BY <2>2
  <1> QED
    BY <1>3 DEF Max

(* Min of a finite set is its least element.                               *)
LEMMA MinOf ==
    ASSUME NEW S \in SUBSET Int, IsFiniteSet(S), S # {}
    PROVE  Min(S) \in S /\ \A y \in S : Min(S) <= y
  <1> DEFINE R == {p \in Int \X Int : p[2] < p[1]}
  <1>1. \A x, y \in S : <<x, y>> \in R <=> y < x
    OBVIOUS
  <1>2. \E x \in S : \A y \in S : <<x, y>> \notin R
    <2>1. \A x \in S : <<x, x>> \notin R
      BY <1>1
    <2>2. \A x, y, z \in S : <<x, y>> \in R /\ <<y, z>> \in R => <<x, z>> \in R
      <3> HIDE DEF R
      <3> QED
        BY <1>1
    <2> HIDE DEF R
    <2> QED
      BY <2>1, <2>2, Extreme
  <1>3. \E x \in S : \A y \in S : x =< y
    <2>1. PICK x \in S : \A y \in S : <<x, y>> \notin R
      BY <1>2
    <2>2. \A y \in S : ~(y < x)
      <3> HIDE DEF R
      <3> QED
        BY <1>1, <2>1, Zenon
    <2> QED
      BY <2>2
  <1> QED
    BY <1>3 DEF Min

(* The image of a finite set under a function is finite.                   *)
LEMMA FiniteImage ==
    ASSUME NEW S, IsFiniteSet(S), NEW T, NEW f \in [S -> T]
    PROVE  IsFiniteSet({f[x] : x \in S})
  <1>1. f \in Surjection(S, {f[x] : x \in S})
    BY DEF Surjection
  <1> QED
    BY <1>1, FS_Surjection

-----------------------------------------------------------------------------
(* Zones                                                                   *)

(* What a transition of a zone is.                                         *)
Transition == [at : Int, before : RealOffset, after : RealOffset]

(* There is a last transition,                                             *)
LEMMA LastTransition ==
    ASSUME NEW T \in SUBSET Transition, IsFiniteSet(T), T # {}
    PROVE  \E t \in T : \A u \in T : u.at <= t.at
  <1> DEFINE f == [t \in T |-> t.at]
             A == {f[t] : t \in T}
  <1>1. f \in [T -> Int]
    BY DEF Transition
  <1>2. A \in SUBSET Int /\ A # {} /\ IsFiniteSet(A)
    BY <1>1, FiniteImage
  <1>3. Max(A) \in A /\ \A y \in A : y <= Max(A)
    BY <1>2, MaxOf
  <1>4. PICK t \in T : Max(A) = t.at
    BY <1>3
  <1>5. \A u \in T : u.at \in A
    OBVIOUS
  <1> HIDE DEF A
  <1> QED
    BY <1>3, <1>4, <1>5

(* and a first.                                                            *)
LEMMA FirstTransition ==
    ASSUME NEW T \in SUBSET Transition, IsFiniteSet(T), T # {}
    PROVE  \E t \in T : \A u \in T : t.at <= u.at
  <1> DEFINE f == [t \in T |-> t.at]
             A == {f[t] : t \in T}
  <1>1. f \in [T -> Int]
    BY DEF Transition
  <1>2. A \in SUBSET Int /\ A # {} /\ IsFiniteSet(A)
    BY <1>1, FiniteImage
  <1>3. Min(A) \in A /\ \A y \in A : Min(A) <= y
    BY <1>2, MinOf
  <1>4. PICK t \in T : Min(A) = t.at
    BY <1>3
  <1>5. \A u \in T : u.at \in A
    OBVIOUS
  <1> HIDE DEF A
  <1> QED
    BY <1>3, <1>4, <1>5

(* The offset of a finite set of transitions is that of one of them: after *)
(* one of the last that are past, or before one of the first.              *)
LEMMA OffsetInCases ==
    ASSUME NEW T \in SUBSET Transition, IsFiniteSet(T), T # {}, NEW i \in Int
    PROVE  \/ \E t \in T : /\ t.at <= i
                           /\ \A u \in T : u.at <= i => u.at <= t.at
                           /\ OffsetIn(T, i) = t.after
           \/ /\ \A t \in T : i < t.at
              /\ \E t \in T : /\ \A u \in T : t.at <= u.at
                              /\ OffsetIn(T, i) = t.before
  <1> DEFINE past == {t \in T : t.at <= i}
             last == CHOOSE t \in past : \A u \in past : u.at <= t.at
             first == CHOOSE t \in T : \A u \in T : t.at <= u.at
  <1>1. CASE past # {}
    <2>1. past \in SUBSET Transition /\ IsFiniteSet(past)
      BY FS_Subset
    <2>2. \E t \in past : \A u \in past : u.at <= t.at
      <3> HIDE DEF past
      <3> QED
        BY <1>1, <2>1, LastTransition
    <2>3. last \in past /\ \A u \in past : u.at <= last.at
      <3> HIDE DEF past
      <3> QED
        BY <2>2
    <2>4. OffsetIn(T, i) = last.after
      BY <1>1 DEF OffsetIn
    <2> HIDE DEF last
    <2> QED
      BY <2>3, <2>4
  <1>2. CASE past = {}
    <2>1. first \in T /\ \A u \in T : first.at <= u.at
      BY FirstTransition
    <2>2. OffsetIn(T, i) = first.before
      BY <1>2 DEF OffsetIn
    <2>3. \A t \in T : t.at \in Int
      BY DEF Transition
    <2>4. \A t \in T : i < t.at
      BY <1>2, <2>3
    <2> HIDE DEF first, past
    <2> QED
      BY <2>1, <2>2, <2>4
  <1> QED
    BY <1>1, <1>2

(* The offset in force is a real one.                                      *)
LEMMA OffsetInType ==
    ASSUME NEW T \in SUBSET Transition, IsFiniteSet(T), T # {}, NEW i \in Int
    PROVE  OffsetIn(T, i) \in RealOffset
  BY OffsetInCases DEF Transition

(* What the transitions of a zone are, whichever dates of each observance  *)
(* are looked at.                                                          *)
LEMMA ZoneTransitions ==
    ASSUME NEW O \in SUBSET Observance, IsFiniteSet(O), O # {},
           \A o \in O : o.offsetFrom \in RealOffset /\ o.offsetTo \in RealOffset,
           NEW D \in [O -> SUBSET Int],
           \A o \in O : IsFiniteSet(D[o]) /\ D[o] # {}
    PROVE  LET T == UNION {Transitions(o, D[o]) : o \in O}
           IN  T \in SUBSET Transition /\ IsFiniteSet(T) /\ T # {}
  <1> DEFINE f == [o \in O |-> Transitions(o, D[o])]
             F == {f[o] : o \in O}
  <1>1. ASSUME NEW o \in O
        PROVE  /\ Transitions(o, D[o]) \in SUBSET Transition
               /\ IsFiniteSet(Transitions(o, D[o]))
               /\ Transitions(o, D[o]) # {}
    <2> DEFINE E == D[o]
               g == [w \in E |-> [at |-> w - o.offsetFrom, before |-> o.offsetFrom,
                                  after |-> o.offsetTo]]
    <2>1. g \in [E -> Transition]
      BY DEF Transition, RealOffset, Observance
    <2>2. Transitions(o, E) = {g[w] : w \in E} /\ E # {}
      BY DEF Transitions
    <2>3. IsFiniteSet({g[w] : w \in E})
      <3>1. IsFiniteSet(E)
        OBVIOUS
      <3> HIDE DEF g, E
      <3> QED
        BY <2>1, <3>1, FiniteImage
    <2> HIDE DEF g
    <2> QED
      BY <2>1, <2>2, <2>3
  <1>2. f \in [O -> SUBSET Transition]
    BY <1>1
  <1>3. IsFiniteSet(F)
    <2> HIDE DEF f
    <2> QED
      BY <1>2, FiniteImage
  <1>4. \A A \in F : IsFiniteSet(A) /\ A # {} /\ A \in SUBSET Transition
    <2> HIDE DEF Transitions
    <2> QED
      BY <1>1
  <1>5. F # {}
    OBVIOUS
  <1>6. UNION {Transitions(o, D[o]) : o \in O} = UNION F
    OBVIOUS
  <1> HIDE DEF F
  <1>7. IsFiniteSet(UNION F)
    BY <1>3, <1>4, FS_UNION
  <1>8. UNION F \in SUBSET Transition /\ UNION F # {}
    BY <1>4, <1>5
  <1> QED
    BY <1>6, <1>7, <1>8

(* The dates of a rule are finitely many.                                  *)
LEMMA RuleDatesFinite ==
    ASSUME NEW o \in Observance
    PROVE  RuleDates(o) \in SUBSET Int /\ IsFiniteSet(RuleDates(o))
  <1> DEFINE f == [k \in 0..MaxYears |-> o.start + k * Year]
             A == {f[k] : k \in 0..MaxYears}
  <1>1. f \in [0..MaxYears -> Int]
    BY TimezonesAssumption DEF Observance
  <1>2. IsFiniteSet(0..MaxYears)
    BY TimezonesAssumption, FS_Interval
  <1>3. A \in SUBSET Int /\ IsFiniteSet(A)
    <2> HIDE DEF f
    <2> QED
      BY <1>1, <1>2, FiniteImage
  <1>4. RuleDates(o) \in SUBSET A
    BY DEF RuleDates
  <1> HIDE DEF A
  <1> QED
    BY <1>3, <1>4, FS_Subset

(* The dates of an observance: all of them, and those offsetAt looks at.   *)
AllDates(o) == {o.start} \cup o.rdates \cup RuleDates(o)

NearDates(o, i) ==
    {o.start} \cup o.rdates \cup
    {w \in RuleDates(o) : Anchor <= w /\ i - 3 * Year <= w /\ w <= i + Year}

NearTransitions(O, i) == UNION {Transitions(o, NearDates(o, i)) : o \in O}

(* The observances of a VTIMEZONE.                                         *)
Definition ==
    {O \in SUBSET Observance :
       /\ IsFiniteSet(O) /\ O # {}
       /\ \A o \in O : /\ IsFiniteSet(o.rdates)
                       /\ o.offsetFrom \in RealOffset
                       /\ o.offsetTo \in RealOffset}

(* The transitions of a definition are finitely many, and there is one.    *)
LEMMA AllTransitionsType ==
    ASSUME NEW O \in Definition
    PROVE  /\ AllTransitions(O) \in SUBSET Transition
           /\ IsFiniteSet(AllTransitions(O))
           /\ AllTransitions(O) # {}
  <1> DEFINE D == [o \in O |-> AllDates(o)]
  <1>1. ASSUME NEW o \in O
        PROVE  AllDates(o) \in SUBSET Int /\ IsFiniteSet(AllDates(o)) /\ AllDates(o) # {}
    <2>1. o \in Observance /\ IsFiniteSet(o.rdates)
      BY DEF Definition
    <2>2. IsFiniteSet({o.start})
      BY FS_Singleton
    <2> QED
      BY <2>1, <2>2, RuleDatesFinite, FS_Union DEF AllDates, Observance
  <1>2. D \in [O -> SUBSET Int] /\ \A o \in O : IsFiniteSet(D[o]) /\ D[o] # {}
    BY <1>1
  <1>3. AllTransitions(O) = UNION {Transitions(o, D[o]) : o \in O}
    BY DEF AllTransitions, AllDates
  <1> HIDE DEF D
  <1> QED
    BY <1>2, <1>3, ZoneTransitions DEF Definition

(* The same of those in the window around an instant.                      *)
LEMMA NearTransitionsType ==
    ASSUME NEW O \in Definition, NEW i \in Int
    PROVE  /\ NearTransitions(O, i) \in SUBSET Transition
           /\ IsFiniteSet(NearTransitions(O, i))
           /\ NearTransitions(O, i) # {}
  <1> DEFINE D == [o \in O |-> NearDates(o, i)]
  <1>1. ASSUME NEW o \in O
        PROVE  /\ NearDates(o, i) \in SUBSET Int
               /\ IsFiniteSet(NearDates(o, i))
               /\ NearDates(o, i) # {}
    <2> DEFINE R == {w \in RuleDates(o) : Anchor <= w /\ i - 3 * Year <= w /\ w <= i + Year}
    <2>1. o \in Observance /\ IsFiniteSet(o.rdates)
      BY DEF Definition
    <2>2. IsFiniteSet({o.start})
      BY FS_Singleton
    <2>3. R \in SUBSET Int /\ IsFiniteSet(R)
      BY <2>1, RuleDatesFinite, FS_Subset
    <2>4. NearDates(o, i) = {o.start} \cup o.rdates \cup R
      BY DEF NearDates
    <2>5. o.start \in Int /\ o.rdates \in SUBSET Int
      BY <2>1 DEF Observance
    <2> HIDE DEF R
    <2>6. IsFiniteSet({o.start} \cup o.rdates)
      BY <2>1, <2>2, FS_Union
    <2>7. IsFiniteSet({o.start} \cup o.rdates \cup R)
      BY <2>3, <2>6, FS_Union
    <2> QED
      BY <2>3, <2>4, <2>5, <2>7
  <1>2. D \in [O -> SUBSET Int] /\ \A o \in O : IsFiniteSet(D[o]) /\ D[o] # {}
    BY <1>1
  <1>3. NearTransitions(O, i) = UNION {Transitions(o, D[o]) : o \in O}
    BY DEF NearTransitions
  <1> HIDE DEF D
  <1> QED
    BY <1>2, <1>3, ZoneTransitions DEF Definition

(* Every offset a zone can have is a real one.                             *)
LEMMA OffsetTypes ==
    ASSUME NEW O \in Definition, NEW i \in Int
    PROVE  /\ offsetAt(O, i) = OffsetIn(NearTransitions(O, i), i)
           /\ TrueOffset(O, i) = OffsetIn(AllTransitions(O), i)
           /\ offsetAt(O, i) \in RealOffset
           /\ TrueOffset(O, i) \in RealOffset
           /\ embeddedOffset(O, i) \in RealOffset
  <1>1. ASSUME NEW j \in Int
        PROVE  offsetAt(O, j) = OffsetIn(NearTransitions(O, j), j)
    BY DEF offsetAt, NearTransitions, NearDates
  <1>2. TrueOffset(O, i) = OffsetIn(AllTransitions(O), i)
    BY DEF TrueOffset, Definition
  <1>3. ASSUME NEW j \in Int PROVE offsetAt(O, j) \in RealOffset
    BY <1>1, NearTransitionsType, OffsetInType
  <1>4. TrueOffset(O, i) \in RealOffset
    BY <1>2, AllTransitionsType, OffsetInType
  <1>5. i - offsetAt(O, i) \in Int
    BY <1>3, RecurrenceAssumption DEF RealOffset
  <1> QED
    BY <1>1, <1>2, <1>3, <1>4, <1>5 DEF embeddedOffset

(* A zone that is embedded has a definition.                               *)
LEMMA ZoneDefinition ==
    ASSUME NEW z \in Zone
    PROVE  /\ z.observances = {} \/ z.observances \in Definition
           /\ z.kind = "embedded" => z.observances \in Definition
  BY DEF Zone, Definition

(* Offsets are integers.                                                   *)
LEMMA RealOffsetInt ==
    (\A x \in RealOffset : x \in Int) /\ 0 \in RealOffset
  BY RecurrenceAssumption DEF RealOffset

(* Every zone resolves a wall time to an instant, and back.                *)
LEMMA ZoneOffsets ==
    ASSUME NEW z \in Zone, NEW w \in Int
    PROVE  /\ Resolve(z, w) \in RealOffset
           /\ ToUTC(z, w) \in Int
           /\ toWall(z, w) \in Int
  <1>1. ASSUME NEW j \in Int PROVE TrueOffset(z.observances, j) \in RealOffset
    <2>1. CASE z.observances = {}
      BY <2>1, RealOffsetInt DEF TrueOffset
    <2>2. CASE z.observances \in Definition
      BY <2>2, OffsetTypes
    <2> QED
      BY <2>1, <2>2, ZoneDefinition
  <1>2. z.kind = "embedded" => embeddedOffset(z.observances, w) \in RealOffset
    BY ZoneDefinition, OffsetTypes
  <1>3. Resolve(z, w) \in RealOffset
    <2>1. w - TrueOffset(z.observances, w) \in Int
      BY <1>1, RealOffsetInt
    <2> QED
      BY <1>1, <1>2, <2>1 DEF Resolve
  <1>4. ToUTC(z, w) \in Int
    BY <1>3, RealOffsetInt DEF ToUTC
  <1>5. toWall(z, w) \in Int
    BY <1>1, <1>2, RealOffsetInt DEF toWall
  <1> QED
    BY <1>3, <1>4, <1>5

(* In UTC a wall time is its instant.                                      *)
LEMMA UTCIsIdentity ==
    ASSUME NEW w \in Int
    PROVE  UTC \in Zone /\ ToUTC(UTC, w) = w
  <1>1. UTC \in Zone
    BY FS_EmptySet DEF UTC, Zone, ZoneKind
  <1>2. Resolve(UTC, w) = 0
    BY DEF UTC, Resolve, TrueOffset
  <1> QED
    BY <1>1, <1>2 DEF ToUTC

-----------------------------------------------------------------------------
(* Components and their instances                                          *)

Instance == [start : Int, end : Int, rid : Int \cup {Missing}, override : BOOLEAN]

(* The end of a component is missing, a time or a duration.                *)
LEMMA EndCases ==
    ASSUME NEW c \in Component
    PROVE  /\ EndsAt(c) => c.end # Missing /\ c.end.at \in Int /\ c.end = [at |-> c.end.at]
           /\ ~EndsAt(c) /\ c.end # Missing => c.end.for \in Int
  <1>1. c.end \in [at : Int] \cup [for : Int] \cup {Missing}
    BY DEF Component
  <1>2. ASSUME c.end \in [at : Int]
        PROVE  EndsAt(c) /\ c.end.at \in Int /\ c.end = [at |-> c.end.at]
    BY <1>2, RecurrenceAssumption DEF EndsAt
  <1>3. ASSUME c.end \in [for : Int] PROVE ~EndsAt(c) /\ c.end.for \in Int
    BY <1>3 DEF EndsAt
  <1>4. ASSUME c.end = Missing PROVE ~EndsAt(c)
    BY <1>4 DEF EndsAt
  <1> QED
    BY <1>1, <1>2, <1>3, <1>4 DEF EndsAt

(* The fields of a component.                                              *)
LEMMA ComponentFields ==
    ASSUME NEW c \in Component
    PROVE  /\ c.start \in Int \cup {Missing}
           /\ c.zone \in Zone /\ c.endZone \in Zone
           /\ c.rule \in Rule \cup {Missing}
           /\ c.rdates \in SUBSET Int /\ IsFiniteSet(c.rdates)
           /\ c.rid \in Int \cup {Missing}
           /\ c.date \in BOOLEAN
           /\ c.name \in {"VEVENT", "VTODO"}
           /\ c.date /\ c.start # Missing => c.start % Day = 0
  BY DEF Component

(* A component with a start, or a to-do with DUE, has an instance.         *)
LEMMA InstanceType ==
    ASSUME NEW c \in Component, ~Unplaced(c)
    PROVE  instanceOf(c) \in Instance
  <1>1. ASSUME NoStart(c) PROVE instanceOf(c) \in Instance
    <2>1. EndsAt(c) /\ c.end.at \in Int
      BY <1>1, EndCases DEF Unplaced
    <2>2. ToUTC(c.endZone, c.end.at) \in Int
      BY <2>1, ComponentFields, ZoneOffsets
    <2> QED
      BY <1>1, <2>2 DEF instanceOf, Instance
  <1>2. ASSUME ~NoStart(c) PROVE instanceOf(c) \in Instance
    <2>1. c.start \in Int
      BY <1>2, ComponentFields DEF NoStart
    <2>2. ToUTC(c.zone, c.start) \in Int
      BY <2>1, ComponentFields, ZoneOffsets
    <2>3. ASSUME NEW s \in Int PROVE endTime(c, s) \in Int
      <3>1. CASE EndsAt(c)
        <4>1. ToUTC(c.endZone, c.end.at) \in Int
          BY <3>1, EndCases, ComponentFields, ZoneOffsets
        <4> QED
          BY <3>1, <4>1 DEF endTime, EndsAt
      <3>2. CASE ~EndsAt(c) /\ c.end # Missing
        <4>1. c.end.for \in Int
          BY <3>2, EndCases
        <4>2. endTime(c, s) = s + c.end.for
          BY <3>2 DEF endTime
        <4> QED
          BY <4>1, <4>2
      <3>3. CASE c.end = Missing
        <4>1. ~EndsAt(c)
          BY <3>3 DEF EndsAt
        <4> QED
          BY <3>3, <4>1, RecurrenceAssumption DEF endTime
      <3> QED
        BY <3>1, <3>2, <3>3
    <2> QED
      BY <1>2, <2>2, <2>3 DEF instanceOf, Instance
  <1> QED
    BY <1>1, <1>2

(* The wall times of a series are finitely many.                           *)
LEMMA RecurrenceSetType ==
    ASSUME NEW c \in Component, c.start \in Int
    PROVE  recurrenceSet(c) \in SUBSET Int /\ IsFiniteSet(recurrenceSet(c))
  <1> DEFINE last == IF c.rule.count > 0 THEN c.rule.count - 1 ELSE MaxRepeats
             rule == IF c.rule = Missing THEN {}
                     ELSE {w \in {c.start + k * c.rule.interval : k \in 0..last} :
                             c.rule.until = Missing \/ w <= toWall(c.zone, c.rule.until)}
  <1>1. recurrenceSet(c) = (rule \cup c.rdates) \ c.exdates
    BY DEF recurrenceSet
  <1>2. rule \in SUBSET Int /\ IsFiniteSet(rule)
    <2>1. CASE c.rule = Missing
      BY <2>1, FS_EmptySet
    <2>2. CASE c.rule # Missing
      <3>1. c.rule.interval \in Nat /\ c.rule.count \in Nat
        BY <2>2, ComponentFields DEF Rule
      <3>2. last \in Nat
        BY <3>1, RecurrenceAssumption
      <3> HIDE DEF last
      <3> DEFINE f == [k \in 0..last |-> c.start + k * c.rule.interval]
                 A == {f[k] : k \in 0..last}
      <3>3. f \in [0..last -> Int]
        BY <3>1, <3>2
      <3>4. IsFiniteSet(0..last)
        BY <3>2, FS_Interval
      <3>5. A \in SUBSET Int /\ IsFiniteSet(A)
        <4> HIDE DEF f
        <4> QED
          BY <3>3, <3>4, FiniteImage
      <3>6. rule \in SUBSET A
        BY <2>2
      <3> HIDE DEF A, rule
      <3> QED
        BY <3>5, <3>6, FS_Subset
    <2> QED
      BY <2>1, <2>2
  <1> HIDE DEF rule
  <1>3. (rule \cup c.rdates) \in SUBSET Int /\ IsFiniteSet(rule \cup c.rdates)
    BY <1>2, ComponentFields, FS_Union
  <1> QED
    BY <1>1, <1>3, FS_Difference

(* An occurrence as an instance,                                           *)
LEMMA AbsoluteType ==
    ASSUME NEW c \in Component, ~Unplaced(c), NEW w \in Int
    PROVE  /\ absolute(c, w) \in Instance
           /\ absolute(c, w).start = ToUTC(c.zone, w)
           /\ absolute(c, w).end = ToUTC(c.zone, w) + (instanceOf(c).end - instanceOf(c).start)
           /\ absolute(c, w).rid = w
  <1>1. ToUTC(c.zone, w) \in Int
    BY ComponentFields, ZoneOffsets
  <1>2. instanceOf(c).start \in Int /\ instanceOf(c).end \in Int
    BY InstanceType DEF Instance
  <1> QED
    BY <1>1, <1>2 DEF absolute, Instance

(* and an override.                                                        *)
LEMMA OverrideType ==
    ASSUME NEW c \in Component, ~Unplaced(c), c.rid # Missing
    PROVE  /\ overrideOf(c) \in Instance
           /\ overrideOf(c) = [start |-> instanceOf(c).start, end |-> instanceOf(c).end,
                               rid |-> ToUTC(c.zone, c.rid), override |-> TRUE]
  <1>1. ToUTC(c.zone, c.rid) \in Int
    BY ComponentFields, ZoneOffsets
  <1> DEFINE s == instanceOf(c).start
             e == instanceOf(c).end
  <1>2. s \in Int /\ e \in Int
    BY InstanceType DEF Instance
  <1>3. instanceOf(c) = [start |-> s, end |-> e, rid |-> Missing, override |-> FALSE]
    BY DEF instanceOf
  <1> HIDE DEF s, e
  <1> DEFINE q == overrideOf(c)
  <1>4. q \in Instance
    <2>1. instanceOf(c) \in Instance
      BY InstanceType
    <2> QED
      BY <1>1, <2>1 DEF overrideOf, Instance
  <1>5. q.start = s /\ q.end = e /\ q.rid = ToUTC(c.zone, c.rid) /\ q.override = TRUE
    BY <1>1, <1>2, <1>3 DEF overrideOf
  <1>6. q = [start |-> q.start, end |-> q.end, rid |-> q.rid, override |-> q.override]
    <2> HIDE DEF q
    <2> QED
      BY <1>4 DEF Instance
  <1> QED
    BY <1>4, <1>5, <1>6 DEF s, e

-----------------------------------------------------------------------------
(* Calendar objects                                                        *)

(* The components of an object.                                            *)
LEMMA ObjectRange ==
    ASSUME NEW cal \in Objects
    PROVE  /\ DOMAIN cal \in SUBSET Int /\ IsFiniteSet(DOMAIN cal) /\ 1 \in DOMAIN cal
           /\ \A i \in DOMAIN cal : cal[i] \in Component
  <1>1. cal \in Seq(Component) /\ cal # <<>>
    BY DEF Objects
  <1>2. Len(cal) \in Nat /\ DOMAIN cal = 1..Len(cal) /\ Len(cal) # 0
    BY <1>1
  <1>3. IsFiniteSet(1..Len(cal))
    BY <1>2, FS_Interval
  <1> QED
    BY <1>1, <1>2, <1>3

(* The master and the event that is edited are components of the object.   *)
LEMMA MasterOf ==
    ASSUME NEW cal \in Objects, HasMaster(cal)
    PROVE  /\ Master(cal) \in Component /\ Master(cal).rid = Missing
           /\ \E i \in DOMAIN cal : Master(cal) = cal[i]
  <1>1. Masters(cal) \in SUBSET DOMAIN cal
    BY DEF Masters
  <1>2. Masters(cal) \in SUBSET Int /\ IsFiniteSet(Masters(cal)) /\ Masters(cal) # {}
    BY <1>1, ObjectRange, FS_Subset DEF HasMaster
  <1>3. Min(Masters(cal)) \in Masters(cal)
    BY <1>2, MinOf
  <1> QED
    BY <1>3, ObjectRange DEF Master, Masters

(* The event the form edits is a VEVENT of the object.                     *)
LEMMA EventIndex ==
    ASSUME NEW cal \in Objects, Editable(cal) # {}
    PROVE  /\ Min(Editable(cal)) \in Editable(cal)
           /\ Min(Editable(cal)) \in DOMAIN cal
           /\ EventOf(cal) \in Component
           /\ EventOf(cal).name = "VEVENT"
  <1>1. Editable(cal) \in SUBSET DOMAIN cal
    BY DEF Editable
  <1>2. Editable(cal) \in SUBSET Int /\ IsFiniteSet(Editable(cal))
    BY <1>1, ObjectRange, FS_Subset
  <1>3. Min(Editable(cal)) \in Editable(cal)
    BY <1>2, MinOf
  <1> QED
    BY <1>1, <1>3, ObjectRange DEF EventOf, Editable

(* The overrides of an object are finitely many components with a          *)
(* RECURRENCE-ID.                                                          *)
LEMMA OverridesOf ==
    ASSUME NEW cal \in Objects
    PROVE  /\ IsFiniteSet(Overrides(cal))
           /\ \A o \in Overrides(cal) : o \in Component /\ o.rid # Missing /\ o.rid \in Int
  <1> DEFINE f == [i \in DOMAIN cal |-> cal[i]]
             A == {f[i] : i \in DOMAIN cal}
  <1>1. f \in [DOMAIN cal -> Component]
    BY ObjectRange
  <1>2. IsFiniteSet(A)
    <2>1. IsFiniteSet(DOMAIN cal)
      BY ObjectRange
    <2> HIDE DEF f
    <2> QED
      BY <1>1, <2>1, FiniteImage
  <1>3. Overrides(cal) \in SUBSET A
    BY DEF Overrides
  <1>4. \A o \in Overrides(cal) : o \in Component /\ o.rid # Missing
    BY ObjectRange DEF Overrides
  <1> HIDE DEF A
  <1> QED
    BY <1>2, <1>3, <1>4, FS_Subset, ComponentFields

(* Span covers the instances it is made from.                              *)
LEMMA SpanCovers ==
    ASSUME NEW I \in SUBSET Instance, IsFiniteSet(I), I # {}
    PROVE  /\ Span(I).start \in Int /\ Span(I).end \in Int
           /\ \A i \in I : Span(I).start <= i.start /\ i.end <= Span(I).end
  <1> DEFINE f == [i \in I |-> i.start]
             g == [i \in I |-> i.end]
             A == {f[i] : i \in I}
             B == {g[i] : i \in I}
  <1>1. f \in [I -> Int] /\ g \in [I -> Int]
    BY DEF Instance
  <1>2. A \in SUBSET Int /\ IsFiniteSet(A) /\ A # {}
    BY <1>1, FiniteImage
  <1>3. B \in SUBSET Int /\ IsFiniteSet(B) /\ B # {}
    BY <1>1, FiniteImage
  <1>4. \A i \in I : i.start \in A /\ i.end \in B
    OBVIOUS
  <1>5. Span(I) = [start |-> Min(A), end |-> Max(B)]
    BY DEF Span
  <1> HIDE DEF A, B
  <1>6. Min(A) \in A /\ \A y \in A : Min(A) <= y
    BY <1>2, MinOf
  <1>7. Max(B) \in B /\ \A y \in B : y <= Max(B)
    BY <1>3, MaxOf
  <1>8. Span(I).start = Min(A) /\ Span(I).end = Max(B)
    BY <1>5
  <1> HIDE DEF f, g
  <1> QED
    BY <1>2, <1>3, <1>4, <1>6, <1>7, <1>8

(* The instances the bounds of a series with an end are taken from.        *)
Covered(cal) ==
    {instanceOf(Master(cal))}
    \cup (IF Recurs(Master(cal))
          THEN {absolute(Master(cal), w) : w \in recurrenceSet(Master(cal))} ELSE {})
    \cup {instanceOf(o) : o \in Overrides(cal)}

(* What the columns of a bounded series span is finite and not empty.      *)
LEMMA CoveredType ==
    ASSUME NEW cal \in Objects, HasMaster(cal), Bounded(Master(cal)), ~SummariseFails(cal)
    PROVE  /\ Covered(cal) \in SUBSET Instance
           /\ IsFiniteSet(Covered(cal))
           /\ Covered(cal) # {}
           /\ Summarise(cal) = Span(Covered(cal))
  <1> DEFINE c == Master(cal)
             S == recurrenceSet(c)
             O == Overrides(cal)
             f == [w \in S |-> absolute(c, w)]
             g == [o \in O |-> instanceOf(o)]
             A == IF Recurs(c) THEN {absolute(c, w) : w \in S} ELSE {}
             B == {instanceOf(o) : o \in O}
  <1>1. c \in Component /\ ~Unplaced(c) /\ (Recurs(c) => c.start # Missing)
    BY MasterOf DEF SummariseFails, UnplacedSeries
  <1>2. \A o \in O : o \in Component /\ ~Unplaced(o)
    BY OverridesOf DEF SummariseFails
  <1>3. instanceOf(c) \in Instance
    BY <1>1, InstanceType
  <1>4. A \in SUBSET Instance /\ IsFiniteSet(A)
    <2>1. CASE ~Recurs(c)
      BY <2>1, FS_EmptySet
    <2>2. CASE Recurs(c)
      <3>1. S \in SUBSET Int /\ IsFiniteSet(S)
        BY <1>1, <2>2, ComponentFields, RecurrenceSetType
      <3>2. f \in [S -> Instance]
        BY <1>1, <3>1, AbsoluteType
      <3>3. A = {f[w] : w \in S}
        BY <2>2
      <3>4. IsFiniteSet({f[w] : w \in S})
        <4> HIDE DEF f, S
        <4> QED
          BY <3>1, <3>2, FiniteImage
      <3> HIDE DEF f, S, A
      <3> QED
        BY <3>2, <3>3, <3>4
    <2> QED
      BY <2>1, <2>2
  <1>5. B \in SUBSET Instance /\ IsFiniteSet(B)
    <2>1. g \in [O -> Instance]
      BY <1>2, InstanceType
    <2>2. B = {g[o] : o \in O}
      OBVIOUS
    <2>3. IsFiniteSet(O)
      BY OverridesOf
    <2>4. IsFiniteSet({g[o] : o \in O})
      <3> HIDE DEF g, O
      <3> QED
        BY <2>1, <2>3, FiniteImage
    <2> HIDE DEF g, O, B
    <2> QED
      BY <2>1, <2>2, <2>4
  <1>6. Covered(cal) = {instanceOf(c)} \cup A \cup B
    BY DEF Covered
  <1>7. Summarise(cal) = Span(Covered(cal))
    BY DEF Summarise, Covered
  <1> HIDE DEF A, B, c
  <1>8. IsFiniteSet({instanceOf(c)} \cup A)
    BY <1>4, FS_Singleton, FS_Union
  <1>9. IsFiniteSet({instanceOf(c)} \cup A \cup B)
    BY <1>5, <1>8, FS_Union
  <1> QED
    BY <1>3, <1>4, <1>5, <1>6, <1>7, <1>9

(* The row of an object: its start is an instant.                          *)
LEMMA SummariseType ==
    ASSUME NEW cal \in Objects, ~SummariseFails(cal)
    PROVE  /\ Summarise(cal).start \in Int
           /\ Summarise(cal).end \in Int \cup {Missing}
           /\ Summarise(cal) # NoRow
           /\ HasMaster(cal) /\ ~Bounded(Master(cal)) =>
                Summarise(cal) = [start |-> instanceOf(Master(cal)).start, end |-> Missing]
           /\ ~HasMaster(cal) => Summarise(cal) = Span({instanceOf(cal[1])})
  <1>1. CASE ~HasMaster(cal)
    <2>1. instanceOf(cal[1]) \in Instance
      BY <1>1, ObjectRange, InstanceType DEF SummariseFails
    <2>2. IsFiniteSet({instanceOf(cal[1])})
      BY FS_Singleton
    <2>3. Summarise(cal) = Span({instanceOf(cal[1])})
      BY <1>1 DEF Summarise
    <2>4. Summarise(cal).start \in Int /\ Summarise(cal).end \in Int
      BY <2>1, <2>2, <2>3, SpanCovers
    <2> QED
      BY <1>1, <2>3, <2>4, RecurrenceAssumption DEF NoRow
  <1>2. CASE HasMaster(cal) /\ ~Bounded(Master(cal))
    <2>1. instanceOf(Master(cal)) \in Instance
      BY <1>2, MasterOf, InstanceType DEF SummariseFails
    <2>2. Summarise(cal) = [start |-> instanceOf(Master(cal)).start, end |-> Missing]
      BY <1>2 DEF Summarise
    <2> QED
      BY <1>2, <2>1, <2>2, RecurrenceAssumption DEF NoRow, Instance
  <1>3. CASE HasMaster(cal) /\ Bounded(Master(cal))
    <2>1. Summarise(cal).start \in Int /\ Summarise(cal).end \in Int
      BY <1>3, CoveredType, SpanCovers
    <2> QED
      BY <1>3, <2>1, RecurrenceAssumption DEF NoRow
  <1> QED
    BY <1>1, <1>2, <1>3

-----------------------------------------------------------------------------
(* The form                                                                *)

(* eventFromForm, field by field: the last day is made exclusive.          *)
LEMMA EventFromForm ==
    ASSUME NEW form \in Entry
    PROVE  /\ eventFromForm(form) \in Entry
           /\ eventFromForm(form).start = form.start
           /\ eventFromForm(form).end = IF form.allDay THEN form.end + Day ELSE form.end
           /\ eventFromForm(form).allDay = form.allDay
           /\ eventFromForm(form).zone = IF form.allDay THEN UTC ELSE form.zone
  <1>1. UTC \in Zone
    BY UTCIsIdentity
  <1>2. form.start \in Int /\ form.end \in Int /\ form.zone \in Zone /\ form.allDay \in BOOLEAN
    BY DEF Entry
  <1>3. form.end + Day \in Int
    BY <1>2, RecurrenceAssumption
  <1> QED
    BY <1>1, <1>2, <1>3 DEF eventFromForm, Entry

(* What Apply makes of the component that is edited.                       *)
Edited(c, event) ==
    [c EXCEPT !.start = event.start, !.date = event.allDay, !.zone = event.zone,
              !.end = IF c.end # Missing /\ ~EndsAt(c)
                      THEN [for |-> event.end - event.start] ELSE [at |-> event.end],
              !.endZone = IF c.end # Missing /\ ~EndsAt(c) THEN c.endZone ELSE event.zone]

(* Edited writes the times of the event and keeps the form of its end.     *)
LEMMA EditedType ==
    ASSUME NEW c \in Component, NEW event \in Entry
    PROVE  /\ Edited(c, event) \in Component
           /\ Edited(c, event).name = c.name
           /\ Edited(c, event).start = event.start
           /\ Edited(c, event).date = event.allDay
           /\ Edited(c, event).zone = event.zone
           /\ c.end # Missing /\ ~EndsAt(c) =>
                Edited(c, event).end = [for |-> event.end - event.start]
           /\ ~(c.end # Missing /\ ~EndsAt(c)) =>
                /\ Edited(c, event).end = [at |-> event.end]
                /\ Edited(c, event).endZone = event.zone
  <1> DEFINE e == IF c.end # Missing /\ ~EndsAt(c)
                  THEN [for |-> event.end - event.start] ELSE [at |-> event.end]
             z == IF c.end # Missing /\ ~EndsAt(c) THEN c.endZone ELSE event.zone
  <1>1. /\ event.start \in Int /\ event.end \in Int
        /\ event.zone \in Zone /\ event.allDay \in BOOLEAN
        /\ event.allDay => event.start % Day = 0
    BY DEF Entry
  <1>2. e \in [at : Int] \cup [for : Int] \cup {Missing}
    BY <1>1
  <1>3. z \in Zone
    BY <1>1, ComponentFields
  <1>4. Edited(c, event) = [c EXCEPT !.start = event.start, !.date = event.allDay,
                                     !.zone = event.zone, !.end = e, !.endZone = z]
    BY DEF Edited
  <1> HIDE DEF e, z
  <1>5. Edited(c, event) \in Component
    BY <1>1, <1>2, <1>3, <1>4 DEF Component
  <1>6. /\ Edited(c, event).name = c.name
        /\ Edited(c, event).start = event.start
        /\ Edited(c, event).date = event.allDay
        /\ Edited(c, event).zone = event.zone
        /\ Edited(c, event).end = e
        /\ Edited(c, event).endZone = z
    BY <1>1, <1>4 DEF Component
  <1> QED
    BY <1>5, <1>6 DEF e, z

(* Apply changes the one event the form edits.                             *)
LEMMA ApplyType ==
    ASSUME NEW cal \in Objects, Editable(cal) # {}, NEW event \in Entry
    PROVE  /\ Apply(cal, event) \in Objects
           /\ DOMAIN Apply(cal, event) = DOMAIN cal
           /\ Editable(Apply(cal, event)) = Editable(cal)
           /\ EventOf(Apply(cal, event)) = Edited(EventOf(cal), event)
  <1> DEFINE k == Min(Editable(cal))
             d == Edited(EventOf(cal), event)
  <1>1. k \in DOMAIN cal /\ EventOf(cal) \in Component /\ cal[k] = EventOf(cal)
    BY EventIndex DEF EventOf
  <1>2. Apply(cal, event) = [cal EXCEPT ![k] = d]
    BY DEF Apply, Edited
  <1>3. d \in Component /\ d.name = EventOf(cal).name
    BY <1>1, EditedType
  <1>4. cal \in Seq(Component) /\ cal # <<>>
    BY DEF Objects
  <1> HIDE DEF k, d
  <1>5. Apply(cal, event) \in Seq(Component)
    BY <1>1, <1>2, <1>3, <1>4
  <1>6. DOMAIN Apply(cal, event) = DOMAIN cal
    BY <1>2
  <1>7. Apply(cal, event) # <<>>
    BY <1>1, <1>6
  <1>8. /\ Apply(cal, event)[k] = d
        /\ \A i \in DOMAIN cal : i # k => Apply(cal, event)[i] = cal[i]
    BY <1>1, <1>2
  <1>9. Editable(Apply(cal, event)) = Editable(cal)
    BY <1>1, <1>3, <1>6, <1>8 DEF Editable
  <1>10. EventOf(Apply(cal, event)) = d
    BY <1>8, <1>9 DEF EventOf, k
  <1> QED
    BY <1>5, <1>6, <1>7, <1>9, <1>10 DEF Objects, d

(* The new event of the form.                                              *)
LEMMA CreatedType ==
    ASSUME NEW event \in Entry, NEW repeat \in Rule \cup {Missing}
    PROVE  [Apply(<<Blank>>, event) EXCEPT ![1].rule = repeat] \in Objects
  <1> DEFINE cal == <<Blank>>
             a == Apply(cal, event)
             b == [a EXCEPT ![1].rule = repeat]
  <1>1. Blank \in Component
    BY UTCIsIdentity, FS_EmptySet DEF Blank, Component
  <1>2. cal \in Objects /\ DOMAIN cal = {1}
    BY <1>1 DEF Objects
  <1>3. Editable(cal) # {}
    BY <1>2 DEF Editable, Blank
  <1>4. a \in Objects /\ DOMAIN a = {1}
    <2> HIDE DEF cal
    <2> QED
      BY <1>2, <1>3, ApplyType
  <1>5. a \in Seq(Component) /\ a[1] \in Component
    BY <1>4, ObjectRange DEF Objects
  <1> HIDE DEF a
  <1>6. b = [a EXCEPT ![1] = [a[1] EXCEPT !.rule = repeat]]
    BY <1>4
  <1>7. [a[1] EXCEPT !.rule = repeat] \in Component
    BY <1>5 DEF Component
  <1>8. b \in Seq(Component)
    <2> DEFINE d == [a[1] EXCEPT !.rule = repeat]
    <2>1. b = [a EXCEPT ![1] = d] /\ d \in Component
      BY <1>6, <1>7
    <2>2. 1 \in DOMAIN a /\ a \in Seq(Component)
      BY <1>4, <1>5
    <2> HIDE DEF b, d
    <2> QED
      BY <2>1, <2>2
  <1>9. DOMAIN b = {1}
    BY <1>4, <1>6
  <1> QED
    BY <1>8, <1>9 DEF Objects, a

(* A time at midnight is its own day.                                      *)
LEMMA WholeDay ==
    ASSUME NEW t \in Int
    PROVE  /\ (t \div Day) * Day \in Int
           /\ t % Day = 0 => (t \div Day) * Day = t
  <1>1. Day \in Int /\ Day > 0
    BY RecurrenceAssumption
  <1> QED
    BY <1>1

(* The end that is read, case by case.                                     *)
LEMMA ReadEndType ==
    ASSUME NEW c \in Component, c.start # Missing
    PROVE  /\ ReadEnd(c) \in Int
           /\ EndsAt(c) => ReadEnd(c) = c.end.at
           /\ ~EndsAt(c) /\ c.end # Missing => ReadEnd(c) = c.start + c.end.for
           /\ c.end = Missing => ReadEnd(c) = IF c.date THEN c.start + Day ELSE c.start
           /\ formatEndDate(c) \in Int
  <1>1. c.start \in Int
    BY ComponentFields
  <1>2. EndsAt(c) => ReadEnd(c) = c.end.at
    BY DEF ReadEnd, EndsAt
  <1>3. ~EndsAt(c) /\ c.end # Missing => ReadEnd(c) = c.start + c.end.for
    BY DEF ReadEnd
  <1>4. c.end = Missing => ReadEnd(c) = IF c.date THEN c.start + Day ELSE c.start
    <2>1. c.end = Missing => ~EndsAt(c)
      BY DEF EndsAt
    <2> QED
      BY <2>1 DEF ReadEnd
  <1>5. ReadEnd(c) \in Int
    <2>1. CASE EndsAt(c)
      BY <2>1, <1>2, EndCases
    <2>2. CASE ~EndsAt(c) /\ c.end # Missing
      <3>1. c.end.for \in Int
        BY <2>2, EndCases
      <3> QED
        BY <1>1, <1>3, <2>2, <3>1
    <2>3. CASE c.end = Missing
      BY <2>3, <1>1, <1>4, RecurrenceAssumption
    <2> QED
      BY <2>1, <2>2, <2>3
  <1>6. formatEndDate(c) \in Int
    BY <1>5, RecurrenceAssumption DEF formatEndDate
  <1> QED
    BY <1>2, <1>3, <1>4, <1>5, <1>6

(* What is shown of an event.                                              *)
LEMMA ShownType ==
    ASSUME NEW c \in Component, c.start # Missing
    PROVE  /\ Shown(c) \in Entry
           /\ Shown(c).start = c.start
           /\ Shown(c).end = IF c.date THEN (formatEndDate(c) \div Day) * Day
                             ELSE formatEndDate(c)
           /\ Shown(c).allDay = c.date
           /\ Shown(c).zone = c.zone
  <1>1. c.start \in Int /\ (c.date => c.start % Day = 0) /\ c.zone \in Zone /\ c.date \in BOOLEAN
    BY ComponentFields
  <1>2. c.date => (c.start \div Day) * Day = c.start
    BY <1>1, WholeDay
  <1>3. formatEndDate(c) \in Int /\ (formatEndDate(c) \div Day) * Day \in Int
    BY ReadEndType, WholeDay
  <1> DEFINE s == IF c.date THEN (c.start \div Day) * Day ELSE c.start
             e == IF c.date THEN (formatEndDate(c) \div Day) * Day ELSE formatEndDate(c)
  <1>4. Shown(c) = [start |-> s, end |-> e, allDay |-> c.date, zone |-> c.zone]
    BY DEF Shown
  <1>5. s = c.start
    BY <1>2
  <1>6. e \in Int
    BY <1>3
  <1> HIDE DEF s, e
  <1>7. Shown(c) \in Entry
    BY <1>1, <1>4, <1>5, <1>6 DEF Entry
  <1> QED
    BY <1>4, <1>5, <1>7 DEF e

-----------------------------------------------------------------------------
(* The invariant                                                           *)

(* What a report found, of the object and the row as they still are.       *)
Answer(filter) ==
    /\ Ranged(filter) => /\ InTimeRange(From(filter), To(filter))
                         /\ OccursInRange(object, From(filter), To(filter))
    /\ Matches(filter, object)

(* The row is that of the object, and the last answer is about both.       *)
CalendarInv ==
    /\ TypeOK
    /\ object # NoObject => ~SummariseFails(object) /\ row = Summarise(object)
    /\ reply.status = "answered" => object # NoObject /\ (reply.found <=> Answer(reply.filter))

(* The invariant holds initially,                                          *)
LEMMA InitInv ==
    ASSUME Init
    PROVE  CalendarInv
  BY CalendarAssumption, RecurrenceAssumption
     DEF Init, CalendarInv, TypeOK, NoRow, Replies

(* when an object is stored,                                               *)
LEMMA StoreInv ==
    ASSUME CalendarInv, NEW cal \in Objects, Store(cal)
    PROVE  CalendarInv'
  <1>1. CASE SummariseFails(cal) /\ Refuse
    <2>1. reply' \in Replies /\ reply'.status # "answered" /\ UNCHANGED <<object, row>>
      BY <1>1 DEF Refuse, Replies
    <2> QED
      BY <2>1 DEF CalendarInv, TypeOK
  <1>2. CASE ~SummariseFails(cal) /\ object' = cal /\ row' = Summarise(cal)
             /\ reply' = [status |-> "stored"]
    <2>1. reply' \in Replies /\ reply'.status # "answered"
      BY <1>2 DEF Replies
    <2>2. /\ row'.start \in Int
          /\ row'.end \in Int \cup {Missing}
          /\ row' # NoRow
      BY <1>2, SummariseType
    <2>3. object' # NoObject
      BY <1>2, CalendarAssumption
    <2>4. TypeOK'
      BY <1>2, <2>1, <2>2, <2>3 DEF TypeOK, NoRow
    <2> QED
      BY <1>2, <2>1, <2>4 DEF CalendarInv
  <1> QED
    BY <1>1, <1>2 DEF Store

(* when a request is refused,                                              *)
LEMMA RefuseInv ==
    ASSUME CalendarInv, Refuse
    PROVE  CalendarInv'
  <1>1. reply' \in Replies /\ reply'.status # "answered" /\ UNCHANGED <<object, row>>
    BY DEF Refuse, Replies
  <1> QED
    BY <1>1 DEF CalendarInv, TypeOK

(* when the form is saved,                                                 *)
LEMMA UpdateInv ==
    ASSUME CalendarInv, NEW form \in Entry, UpdateEvent(form)
    PROVE  CalendarInv'
  <1> DEFINE event == eventFromForm(form)
  <1>1. event \in Entry /\ object \in Objects
    BY EventFromForm DEF UpdateEvent, CalendarInv, TypeOK
  <1>2. CASE Editable(object) # {} /\ Store(Apply(object, event))
    <2>1. Apply(object, event) \in Objects
      BY <1>1, <1>2, ApplyType
    <2> QED
      BY <1>2, <2>1, StoreInv
  <1>3. CASE Refuse
    BY <1>3, RefuseInv
  <1> QED
    BY <1>2, <1>3 DEF UpdateEvent

(* and in every step.                                                      *)
LEMMA NextInv ==
    ASSUME CalendarInv, [Next]_vars
    PROVE  CalendarInv'
  <1>1. ASSUME NEW cal \in Calendar, PutCalendarObject(cal) PROVE CalendarInv'
    BY <1>1, CalendarAssumption, StoreInv DEF PutCalendarObject
  <1>2. ASSUME DeleteCalendarObject PROVE CalendarInv'
    BY <1>2, CalendarAssumption, RecurrenceAssumption
       DEF DeleteCalendarObject, CalendarInv, TypeOK, NoRow, Replies
  <1>3. ASSUME NEW form \in Form, UpdateEvent(form) PROVE CalendarInv'
    BY <1>3, CalendarAssumption, UpdateInv
  <1>4. ASSUME NEW form \in Form, NEW repeat \in Repeat, CreateEvent(form, repeat)
        PROVE  CalendarInv'
    <2> DEFINE new == [Apply(<<Blank>>, eventFromForm(form)) EXCEPT ![1].rule = repeat]
    <2>1. new \in Objects
      <3>1. form \in Entry /\ repeat \in Rule \cup {Missing}
        BY CalendarAssumption
      <3>2. eventFromForm(form) \in Entry
        BY <3>1, EventFromForm
      <3> QED
        BY <3>1, <3>2, CreatedType
    <2>2. Store(new) \/ Refuse
      BY <1>4 DEF CreateEvent
    <2> HIDE DEF new
    <2> QED
      BY <2>1, <2>2, StoreInv, RefuseInv
  <1>5. ASSUME SaveAsShown PROVE CalendarInv'
    <2>1. object \in Objects /\ EventOf(object) \in Component /\ EventOf(object).start # Missing
      BY <1>5, EventIndex DEF SaveAsShown, CalendarInv, TypeOK
    <2>2. Shown(EventOf(object)) \in Entry
      BY <2>1, ShownType
    <2> QED
      BY <1>5, <2>2, UpdateInv DEF SaveAsShown
  <1>6. ASSUME NEW filter \in CompFilter, QueryCalendarObjects(filter) PROVE CalendarInv'
    <2> DEFINE found == Answer(filter)
    <2>1. found \in BOOLEAN
      BY DEF Answer
    <2>2. reply' = [status |-> "answered", filter |-> filter, found |-> found]
      BY <1>6 DEF QueryCalendarObjects, Answer
    <2>3. object # NoObject /\ UNCHANGED <<object, row>>
      BY <1>6 DEF QueryCalendarObjects
    <2>4. reply'.found = found /\ reply'.filter = filter
      BY <2>2
    <2>5. Answer(filter)' <=> Answer(filter)
      BY <2>3 DEF Answer, InTimeRange
    <2>6. reply' \in Replies
      <3> HIDE DEF found
      <3> QED
        BY <2>1, <2>2 DEF Replies
    <2> QED
      BY <2>3, <2>4, <2>5, <2>6 DEF CalendarInv, TypeOK
  <1>7. ASSUME UNCHANGED vars PROVE CalendarInv'
    BY <1>7 DEF CalendarInv, vars, TypeOK, Answer, InTimeRange
  <1> QED
    BY <1>1, <1>2, <1>3, <1>4, <1>5, <1>6, <1>7 DEF Next

(* Every behaviour of CalendarObject keeps CalendarInv: the index columns  *)
(* that PutObject stores are those CalendarIndex derives from the stored   *)
(* object, whichever path wrote it last.                                   *)
THEOREM CalendarInvariant == Spec => []CalendarInv
  <1>1. Init => CalendarInv
    BY InitInv
  <1>2. CalendarInv /\ [Next]_vars => CalendarInv'
    BY NextInv
  <1> QED
    BY <1>1, <1>2, PTL DEF Spec

(* TypeOK: a stored object is one whose components are well formed, and it *)
(* has a row exactly as long as it is there.                               *)
THEOREM CalendarType == Spec => []TypeOK
  <1>1. CalendarInv => TypeOK
    BY DEF CalendarInv
  <1> QED
    BY <1>1, CalendarInvariant, PTL

-----------------------------------------------------------------------------
(* Expansion                                                               *)

(* The range of a filter.                                                  *)
LEMMA RangeType ==
    ASSUME NEW filter \in Filter
    PROVE  From(filter) \in Int /\ To(filter) \in Int
  <1>1. filter.from \in Int \cup {Missing} /\ filter.to \in Int \cup {Missing}
    BY DEF Filter
  <1> QED
    BY <1>1, CalendarAssumption DEF From, To

(* An occurrence that overlaps the range has its wall time in the window.  *)
LEMMA WindowIsWideEnough ==
    ASSUME NEW c \in Component, ~Unplaced(c), NEW w \in Int,
           NEW from \in Int, NEW to \in Int, overlaps(absolute(c, w), from, to)
    PROVE  windowFrom(instanceOf(c), from) <= w /\ w <= to + expansionSlack
  <1> DEFINE off == Resolve(c.zone, w)
             s == instanceOf(c).start
             e == instanceOf(c).end
  <1>1. off \in RealOffset
    BY ComponentFields, ZoneOffsets
  <1>2. off \in Int /\ -expansionSlack <= off /\ off <= expansionSlack /\ expansionSlack \in Int
    BY <1>1, RecurrenceAssumption DEF RealOffset
  <1>3. s \in Int /\ e \in Int
    BY InstanceType DEF Instance
  <1>4. absolute(c, w).start = w - off /\ absolute(c, w).end = w - off + (e - s)
    BY AbsoluteType DEF ToUTC
  <1>5. windowFrom(instanceOf(c), from) = from - (e - s) - expansionSlack
    BY DEF windowFrom
  <1>6. IF w - off = w - off + (e - s) THEN from <= w - off /\ w - off < to
        ELSE w - off < to /\ from < w - off + (e - s)
    BY <1>4 DEF overlaps
  <1> HIDE DEF off, s, e
  <1> QED
    BY <1>2, <1>3, <1>5, <1>6

Anonymous(inst) == [inst EXCEPT !.rid = Missing]

(* An instance without its RECURRENCE-ID                                   *)
LEMMA AnonymousOf ==
    ASSUME NEW x \in Instance
    PROVE  /\ Anonymous(x) = [start |-> x.start, end |-> x.end, rid |-> Missing,
                              override |-> x.override]
           /\ Anonymous(x).start = x.start /\ Anonymous(x).end = x.end
           /\ x.rid = Missing => Anonymous(x) = x
  <1> DEFINE q == Anonymous(x)
  <1>1. q \in Instance
    BY DEF Anonymous, Instance
  <1>2. q.start = x.start /\ q.end = x.end /\ q.rid = Missing /\ q.override = x.override
    BY DEF Anonymous, Instance
  <1>3. q = [start |-> q.start, end |-> q.end, rid |-> q.rid, override |-> q.override]
    <2> HIDE DEF q
    <2> QED
      BY <1>1 DEF Instance
  <1>4. x = [start |-> x.start, end |-> x.end, rid |-> x.rid, override |-> x.override]
    BY DEF Instance
  <1> QED
    BY <1>2, <1>3, <1>4

(* overlaps the same ranges.                                               *)
LEMMA OverlapsAnonymous ==
    ASSUME NEW x \in Instance, NEW from, NEW to
    PROVE  overlaps(Anonymous(x), from, to) <=> overlaps(x, from, to)
  BY AnonymousOf DEF overlaps

(* An override without its key, as Occurrences counts it.                  *)
LEMMA OverrideAnonymous ==
    ASSUME NEW c \in Component, ~Unplaced(c), c.rid # Missing
    PROVE  Anonymous(overrideOf(c)) = [instanceOf(c) EXCEPT !.override = TRUE]
  <1> DEFINE x == instanceOf(c)
             q == [x EXCEPT !.override = TRUE]
  <1>1. x \in Instance
    BY InstanceType
  <1>2. x.rid = Missing
    BY DEF instanceOf
  <1> HIDE DEF x
  <1>3. q \in Instance
    BY <1>1 DEF Instance
  <1>4. q.start = x.start /\ q.end = x.end /\ q.rid = x.rid /\ q.override = TRUE
    BY <1>1 DEF Instance
  <1>5. q = [start |-> q.start, end |-> q.end, rid |-> q.rid, override |-> q.override]
    <2> HIDE DEF q
    <2> QED
      BY <1>3 DEF Instance
  <1>6. /\ overrideOf(c) \in Instance
        /\ overrideOf(c).start = x.start /\ overrideOf(c).end = x.end
        /\ overrideOf(c).override = TRUE
    BY OverrideType DEF x
  <1>7. Anonymous(overrideOf(c)) = [start |-> x.start, end |-> x.end, rid |-> Missing,
                                    override |-> TRUE]
    BY <1>6, AnonymousOf
  <1> QED
    BY <1>2, <1>4, <1>5, <1>7 DEF x

(* The expansion of a range is exactly the occurrences in it.              *)
LEMMA ExpandIsExact ==
    ASSUME NEW cal \in Objects, NEW from \in Int, NEW to \in Int,
           ~ExpandFails(cal, from, to),
           Overrides(cal) # {} => \A i \in DOMAIN cal : cal[i].zone = UTC
    PROVE  {Anonymous(inst) : inst \in Expand(cal, from, to)}
           = {inst \in Occurrences(cal) : overlaps(inst, from, to)}
  <1> DEFINE M == Master(cal)
             O == Overrides(cal)
             S == recurrenceSet(M)
             X == {overrideOf(c) : c \in O}
             E == IF HasMaster(cal) THEN expandMaster(M, from, to) ELSE {}
             Kept == {inst \in E : \A o \in X : o.rid # inst.rid}
             Added == {o \in X : overlaps(o, from, to)}
             Named(w) == \E o \in O : ToUTC(o.zone, o.rid) = ToUTC(M.zone, w)
             Capped(w) == Cardinality({v \in S : v < w}) < maxOccurrences
             RO == {[instanceOf(o) EXCEPT !.override = TRUE] : o \in O}
             RM == IF ~HasMaster(cal) THEN {}
                   ELSE IF ~Recurs(M) THEN {instanceOf(M)}
                   ELSE {Anonymous(absolute(M, w)) :
                           w \in {v \in {u \in S : Capped(u)} : ~Named(v)}}
  <1>1. \A o \in O : o \in Component /\ ~Unplaced(o) /\ o.rid # Missing /\ o.rid \in Int
    BY OverridesOf DEF ExpandFails
  <1>2. Expand(cal, from, to) = Kept \cup Added
    BY DEF Expand
  <1>3. Occurrences(cal) = RO \cup RM
    BY DEF Occurrences, Anonymous
  <1>4. {Anonymous(x) : x \in Added} = {x \in RO : overlaps(x, from, to)}
    <2> DEFINE Plain(o) == [instanceOf(o) EXCEPT !.override = TRUE]
    <2>1. \A o \in O : overrideOf(o) \in Instance /\ Anonymous(overrideOf(o)) = Plain(o)
      BY <1>1, OverrideType, OverrideAnonymous
    <2>2. RO = {Plain(o) : o \in O}
      OBVIOUS
    <2> HIDE DEF Plain, O, RO
    <2>3. ASSUME NEW o \in O
          PROVE  overlaps(Plain(o), from, to) <=> overlaps(overrideOf(o), from, to)
      BY <2>1, OverlapsAnonymous
    <2>4. Added = {overrideOf(o) : o \in {u \in O : overlaps(overrideOf(u), from, to)}}
      OBVIOUS
    <2> HIDE DEF Added
    <2> QED
      BY <2>1, <2>2, <2>3, <2>4
  <1>5. \A o \in X : o.rid \in Int
    <2>1. \A c \in O : overrideOf(c).rid \in Int
      BY <1>1, OverrideType, ComponentFields, ZoneOffsets
    <2> HIDE DEF O
    <2> QED
      BY <2>1
  <1>6. CASE ~HasMaster(cal)
    <2>1. Kept = {} /\ RM = {}
      BY <1>6
    <2> HIDE DEF Kept, RM, Added, RO
    <2> QED
      BY <1>2, <1>3, <1>4, <2>1
  <1>7. CASE HasMaster(cal) /\ ~Recurs(M)
    <2>1. M \in Component /\ ~Unplaced(M)
      BY <1>7, MasterOf DEF ExpandFails
    <2>2. instanceOf(M) \in Instance /\ instanceOf(M).rid = Missing
      BY <2>1, InstanceType DEF instanceOf
    <2>3. E = {inst \in {instanceOf(M)} : overlaps(inst, from, to)}
      BY <1>7 DEF expandMaster
    <2>4. Kept = E
      BY <1>5, <2>2, <2>3, RecurrenceAssumption
    <2>5. Anonymous(instanceOf(M)) = instanceOf(M)
      BY <2>2, AnonymousOf
    <2>6. {Anonymous(x) : x \in Kept} = {x \in RM : overlaps(x, from, to)}
      BY <1>7, <2>3, <2>4, <2>5
    <2> HIDE DEF Kept, RM, Added, RO
    <2> QED
      BY <1>2, <1>3, <1>4, <2>6
  <1>8. CASE HasMaster(cal) /\ Recurs(M)
    <2>1. M \in Component /\ ~Unplaced(M) /\ M.start \in Int
      BY <1>8, MasterOf, ComponentFields DEF ExpandFails, UnplacedSeries
    <2>2. S \in SUBSET Int
      BY <2>1, RecurrenceSetType
    <2> DEFINE In(w) == windowFrom(instanceOf(M), from) <= w /\ w <= to + expansionSlack
    <2>3. \A w \in S : /\ absolute(M, w) \in Instance
                       /\ absolute(M, w).rid = w
                       /\ overlaps(absolute(M, w), from, to) => In(w)
      BY <2>1, <2>2, AbsoluteType, WindowIsWideEnough
    <2>4. \A w \in S : overlaps(Anonymous(absolute(M, w)), from, to)
                         <=> overlaps(absolute(M, w), from, to)
      BY <2>3, OverlapsAnonymous
    <2>5. \A w \in S : (\A o \in X : o.rid # absolute(M, w).rid) <=> ~Named(w)
      <3>1. ASSUME NEW w \in S, NEW o \in O
            PROVE  overrideOf(o).rid = absolute(M, w).rid
                     <=> ToUTC(o.zone, o.rid) = ToUTC(M.zone, w)
        <4>1. M.zone = UTC
          BY <1>8, <3>1, MasterOf
        <4>2. ToUTC(M.zone, w) = w
          BY <2>2, <4>1, UTCIsIdentity
        <4>3. overrideOf(o).rid = ToUTC(o.zone, o.rid)
          BY <1>1, OverrideType
        <4> QED
          BY <2>3, <4>2, <4>3
      <3> HIDE DEF O, M, S
      <3> QED
        BY <3>1
    <2>6. E = {inst \in {absolute(M, w) : w \in {v \in S : Capped(v) /\ In(v)}} :
                 overlaps(inst, from, to)}
      BY <1>8 DEF expandMaster, InWindow
    <2>7. {Anonymous(x) : x \in Kept} = {x \in RM : overlaps(x, from, to)}
      <3>1. RM = {Anonymous(absolute(M, w)) :
                    w \in {v \in {u \in S : Capped(u)} : ~Named(v)}}
        BY <1>8
      <3> HIDE DEF RM, Capped, Named, E, S, M, In, X
      <3>2. Kept = {absolute(M, w) : w \in {v \in S : /\ Capped(v)
                                                     /\ overlaps(absolute(M, v), from, to)
                                                     /\ ~Named(v)}}
        BY <2>3, <2>5, <2>6
      <3> HIDE DEF Kept
      <3> QED
        BY <2>4, <3>1, <3>2
    <2> HIDE DEF Kept, RM, Added, RO
    <2> QED
      BY <1>2, <1>3, <1>4, <2>7
  <1> QED
    BY <1>6, <1>7, <1>8

(* What the invariant says of the last report.                             *)
LEMMA AskedFilter ==
    ASSUME CalendarInv, Asked
    PROVE  /\ reply.filter \in Filter
           /\ From(reply.filter) \in Int /\ To(reply.filter) \in Int
           /\ object \in Objects /\ object # NoObject
           /\ ~SummariseFails(object) /\ row = Summarise(object)
           /\ reply.found <=> Answer(reply.filter)
  <1>1. reply.filter \in Filter
    BY CalendarAssumption DEF CalendarInv, TypeOK, Replies, Asked
  <1> QED
    BY <1>1, RangeType DEF CalendarInv, TypeOK, Asked

(* ExpansionIsExact: Expand, which runs in wall time over a window around  *)
(* the range, returns the occurrences in the range and nothing else, for   *)
(* every rule, every zone whose offsets are within the slack, and every    *)
(* length; with overrides, for objects in UTC.                             *)
THEOREM ExpansionExact == Spec => []ExpansionIsExact
  <1>1. CalendarInv => ExpansionIsExact
    <2> SUFFICES ASSUME CalendarInv, Asked,
                        ~ExpandFails(object, From(reply.filter), To(reply.filter)),
                        Overrides(object) # {} =>
                          \A i \in DOMAIN object : object[i].zone = UTC
                 PROVE  {[inst EXCEPT !.rid = Missing] :
                           inst \in Expand(object, From(reply.filter), To(reply.filter))}
                        = {inst \in Occurrences(object) :
                             overlaps(inst, From(reply.filter), To(reply.filter))}
      BY DEF ExpansionIsExact, ExpandedExactly
    <2>1. {Anonymous(inst) :
             inst \in Expand(object, From(reply.filter), To(reply.filter))}
          = {inst \in Occurrences(object) :
               overlaps(inst, From(reply.filter), To(reply.filter))}
      BY AskedFilter, ExpandIsExact
    <2> QED
      BY <2>1 DEF Anonymous
  <1> QED
    BY <1>1, CalendarInvariant, PTL

(* The columns of an object reach as far as each instance a report may     *)
(* find, apart from those of an endless series before its DTSTART.         *)
LEMMA RowReaches ==
    ASSUME NEW cal \in Objects, ~SummariseFails(cal),
           NEW from \in Int, NEW to \in Int, ~ExpandFails(cal, from, to), NEW inst \in Expand(cal, from, to),
           HasMaster(cal) \/ Len(cal) = 1,
           HasMaster(cal) /\ ~Bounded(Master(cal)) =>
             inst.start >= instanceOf(Master(cal)).start
    PROVE  /\ inst.start \in Int /\ inst.end \in Int
           /\ overlaps(inst, from, to)
           /\ Summarise(cal).start <= inst.start
           /\ Summarise(cal).end = Missing \/ inst.end <= Summarise(cal).end
  <1> DEFINE M == Master(cal)
             O == Overrides(cal)
             S == recurrenceSet(M)
  <1>1. \A o \in O : o \in Component /\ ~Unplaced(o) /\ o.rid # Missing
    BY OverridesOf DEF ExpandFails
  <1>2. overlaps(inst, from, to)
    BY DEF Expand, expandMaster, InWindow
  <1>3. \A o \in O : /\ instanceOf(o) \in Instance
                     /\ overrideOf(o).start = instanceOf(o).start
                     /\ overrideOf(o).end = instanceOf(o).end
    BY <1>1, InstanceType, OverrideType
  <1>4. \/ \E o \in O : inst = overrideOf(o)
        \/ HasMaster(cal) /\ ~Recurs(M) /\ inst = instanceOf(M)
        \/ HasMaster(cal) /\ Recurs(M) /\ \E w \in S : inst = absolute(M, w)
    BY DEF Expand, expandMaster, InWindow
  <1>5. CASE ~HasMaster(cal)
    <2>1. PICK o \in O : inst = overrideOf(o)
      BY <1>4, <1>5
    <2>2. o = cal[1]
      <3>1. DOMAIN cal = {1}
        BY <1>5, ObjectRange DEF Objects
      <3> QED
        BY <3>1 DEF Overrides
    <2>3. Summarise(cal) = Span({instanceOf(o)})
      BY <1>5, <2>2, SummariseType
    <2>4. /\ Span({instanceOf(o)}).start <= instanceOf(o).start
          /\ instanceOf(o).end <= Span({instanceOf(o)}).end
      <3>1. {instanceOf(o)} \in SUBSET Instance /\ IsFiniteSet({instanceOf(o)})
        BY <1>3, FS_Singleton
      <3> QED
        BY <3>1, SpanCovers
    <2> QED
      BY <1>2, <1>3, <2>1, <2>3, <2>4 DEF Instance
  <1>6. CASE HasMaster(cal)
    <2>1. /\ M \in Component /\ ~Unplaced(M)
          /\ Recurs(M) => M.start \in Int
      BY <1>6, MasterOf, ComponentFields DEF ExpandFails, UnplacedSeries
    <2>2. \E j \in Covered(cal) : inst.start = j.start /\ inst.end = j.end
      <3>1. CASE \E o \in O : inst = overrideOf(o)
        <4>1. PICK o \in O : inst = overrideOf(o)
          BY <3>1
        <4>2. instanceOf(o) \in Covered(cal)
          BY DEF Covered
        <4> QED
          BY <1>3, <4>1, <4>2
      <3>2. CASE ~Recurs(M) /\ inst = instanceOf(M)
        BY <3>2 DEF Covered
      <3>3. CASE Recurs(M) /\ \E w \in S : inst = absolute(M, w)
        BY <3>3 DEF Covered
      <3> QED
        BY <1>4, <3>1, <3>2, <3>3
    <2>3. inst.start \in Int /\ inst.end \in Int
      <3>1. CASE \E o \in O : inst = overrideOf(o)
        BY <1>3, <3>1 DEF Instance
      <3>2. CASE inst = instanceOf(M)
        BY <2>1, <3>2, InstanceType DEF Instance
      <3>3. CASE Recurs(M) /\ \E w \in S : inst = absolute(M, w)
        BY <2>1, <3>3, RecurrenceSetType, AbsoluteType DEF Instance
      <3> QED
        BY <1>4, <3>1, <3>2, <3>3
    <2>4. CASE Bounded(M)
      <3>1. \A j \in Covered(cal) :
              Summarise(cal).start <= j.start /\ j.end <= Summarise(cal).end
        BY <1>6, <2>4, CoveredType, SpanCovers
      <3> QED
        BY <1>2, <2>2, <2>3, <3>1
    <2>5. CASE ~Bounded(M)
      <3>1. Summarise(cal) = [start |-> instanceOf(M).start, end |-> Missing]
        BY <1>6, <2>5, SummariseType
      <3>2. instanceOf(M).start \in Int
        BY <2>1, InstanceType DEF Instance
      <3> QED
        BY <1>2, <1>6, <2>3, <2>5, <3>1, <3>2
    <2> QED
      BY <2>4, <2>5
  <1> QED
    BY <1>5, <1>6

(* FoundWhenItOccurs: a report whose range contains an occurrence finds    *)
(* the object; the start_at and end_at that CalendarIndex derived never    *)
(* hide it from ObjectsInTimeRange.                                        *)
THEOREM FoundInRange == Spec => []FoundWhenItOccurs
  <1>1. CalendarInv => FoundWhenItOccurs
    <2> DEFINE from == From(reply.filter)
               to   == To(reply.filter)
    <2> SUFFICES ASSUME CalendarInv, Asked, Matches(reply.filter, object),
                        ~ExpandFails(object, from, to), HasMaster(object) \/ Len(object) = 1,
                        NEW inst \in Expand(object, from, to), inst.end > from,
                        HasMaster(object) /\ ~Bounded(Master(object)) =>
                          inst.start >= instanceOf(Master(object)).start
                 PROVE  reply.found
      BY DEF FoundWhenItOccurs
    <2>1. /\ from \in Int /\ to \in Int /\ object \in Objects
          /\ ~SummariseFails(object) /\ row = Summarise(object)
          /\ reply.found <=> Answer(reply.filter)
      BY AskedFilter
    <2>2. /\ inst.start \in Int /\ inst.end \in Int
          /\ overlaps(inst, from, to)
          /\ row.start <= inst.start
          /\ row.end = Missing \/ inst.end <= row.end
      BY <2>1, RowReaches
    <2>3. row.start \in Int /\ row.end \in Int \cup {Missing}
      BY <2>1, SummariseType
    <2>4. inst.start < to
      BY <2>2 DEF overlaps
    <2> HIDE DEF from, to
    <2>5. InTimeRange(from, to)
      BY <2>1, <2>2, <2>3, <2>4 DEF InTimeRange
    <2>6. OccursInRange(object, from, to)
      BY DEF OccursInRange
    <2> QED
      BY <2>1, <2>5, <2>6 DEF Answer, from, to
  <1> QED
    BY <1>1, CalendarInvariant, PTL

-----------------------------------------------------------------------------
(* Opening and saving the form                                             *)

(* A number of days is a whole number of days.                             *)
LEMMA MultipleOfDay ==
    ASSUME NEW k \in Int
    PROVE  ((k * Day) \div Day) * Day = k * Day
  <1>1. Day \in Int /\ Day > 0
    BY RecurrenceAssumption
  <1>2. (k * Day) \div Day = k
    BY <1>1
  <1> QED
    BY <1>2

(* The day before the end of an event of whole days is whole.              *)
LEMMA LastDayIsWhole ==
    ASSUME NEW s \in Int, NEW e \in Int, s % Day = 0, (e - s) % Day = 0
    PROVE  ((e - Day) \div Day) * Day = e - Day
  <1> DEFINE p == s \div Day
             q == (e - s) \div Day
  <1>1. Day \in Int /\ Day > 0
    BY RecurrenceAssumption
  <1>2. p \in Int /\ q \in Int
    BY <1>1
  <1>3. s = p * Day /\ e - s = q * Day
    BY WholeDay
  <1> HIDE DEF p, q
  <1>4. e - Day = (p + q - 1) * Day
    <2>1. (p + q - 1) * Day = p * Day + q * Day - Day
      BY <1>1, <1>2
    <2> QED
      BY <1>1, <1>3, <2>1
  <1>5. p + q - 1 \in Int
    BY <1>2
  <1> QED
    BY <1>4, <1>5, MultipleOfDay

(* The event the form of a component sends back.                           *)
LEMMA SentBack ==
    ASSUME NEW c \in Component, c.start # Missing,
           c.date => /\ c.zone = UTC
                     /\ ReadEnd(c) > c.start
                     /\ (ReadEnd(c) - c.start) % Day = 0
    PROVE  LET event == eventFromForm(Shown(c))
           IN  /\ event \in Entry
               /\ event.start = c.start
               /\ event.end = ReadEnd(c)
               /\ event.allDay = c.date
               /\ event.zone = c.zone
  <1> DEFINE form == Shown(c)
  <1>1. /\ form \in Entry
        /\ form.start = c.start
        /\ form.end = IF c.date THEN (formatEndDate(c) \div Day) * Day ELSE formatEndDate(c)
        /\ form.allDay = c.date
        /\ form.zone = c.zone
    BY ShownType
  <1>2. c.start \in Int /\ ReadEnd(c) \in Int /\ Day \in Int
    BY ComponentFields, ReadEndType, RecurrenceAssumption
  <1>3. CASE c.date
    <2>1. formatEndDate(c) = ReadEnd(c) - Day
      BY <1>3 DEF formatEndDate
    <2>2. c.start % Day = 0
      BY <1>3, ComponentFields
    <2>3. form.end = ReadEnd(c) - Day
      BY <1>1, <1>2, <1>3, <2>1, <2>2, LastDayIsWhole
    <2>4. /\ eventFromForm(form) \in Entry
          /\ eventFromForm(form).start = form.start
          /\ eventFromForm(form).end = form.end + Day
          /\ eventFromForm(form).allDay = form.allDay
          /\ eventFromForm(form).zone = UTC
      BY <1>1, <1>3, EventFromForm
    <2>5. form.end + Day = ReadEnd(c)
      BY <1>2, <2>3
    <2> HIDE DEF form
    <2>6. LET event == eventFromForm(form)
          IN  /\ event \in Entry
              /\ event.start = c.start
              /\ event.end = ReadEnd(c)
              /\ event.allDay = c.date
              /\ event.zone = c.zone
      BY <1>1, <1>3, <2>4, <2>5
    <2> QED
      BY <2>6 DEF form
  <1>4. CASE ~c.date
    <2>1. formatEndDate(c) = ReadEnd(c)
      BY <1>4 DEF formatEndDate
    <2> HIDE DEF form
    <2> QED
      BY <1>1, <1>4, <2>1, EventFromForm DEF form
  <1> QED
    BY <1>3, <1>4

(* The instance of a component with a start.                               *)
LEMMA InstanceOfPlaced ==
    ASSUME NEW c, ~NoStart(c)
    PROVE  instanceOf(c) = [start |-> ToUTC(c.zone, c.start),
                            end |-> endTime(c, ToUTC(c.zone, c.start)),
                            rid |-> Missing, override |-> FALSE]
  BY DEF instanceOf

(* A component with the same start and end as it is read has the same      *)
(* instance.                                                               *)
LEMMA EditedStays ==
    ASSUME NEW c \in Component, ~NoStart(c), NEW event \in Entry,
           event.start = c.start, event.end = ReadEnd(c),
           event.allDay = c.date, event.zone = c.zone,
           EndsAt(c) => c.endZone = c.zone,
           c.date => c.zone = UTC
    PROVE  instanceOf(Edited(c, event)) = instanceOf(c)
  <1> DEFINE d == Edited(c, event)
             s == ToUTC(c.zone, c.start)
  <1>1. /\ d \in Component /\ d.start = c.start /\ d.date = c.date /\ d.zone = c.zone
        /\ c.end # Missing /\ ~EndsAt(c) => d.end = [for |-> ReadEnd(c) - c.start]
        /\ ~(c.end # Missing /\ ~EndsAt(c)) =>
             d.end = [at |-> ReadEnd(c)] /\ d.endZone = c.zone
    BY EditedType DEF NoStart
  <1>2. c.start \in Int /\ ReadEnd(c) \in Int /\ s \in Int /\ Day \in Int
    BY ComponentFields, ReadEndType, ZoneOffsets, RecurrenceAssumption DEF NoStart
  <1> HIDE DEF d
  <1>3. ASSUME d.end = [at |-> ReadEnd(c)] /\ d.endZone = c.zone
        PROVE  endTime(d, s) = ToUTC(c.zone, ReadEnd(c))
    <2>1. d.end # Missing /\ EndsAt(d)
      BY <1>2, <1>3, RecurrenceAssumption DEF EndsAt
    <2> QED
      BY <1>3, <2>1 DEF endTime
  <1>4. endTime(d, s) = endTime(c, s)
    <2>1. CASE EndsAt(c)
      <3>1. endTime(c, s) = ToUTC(c.zone, ReadEnd(c))
        BY <2>1, ReadEndType DEF endTime, EndsAt, NoStart
      <3> QED
        BY <1>1, <1>3, <2>1, <3>1
    <2>2. CASE ~EndsAt(c) /\ c.end # Missing
      <3>1. ReadEnd(c) - c.start = c.end.for
        <4>1. ReadEnd(c) = c.start + c.end.for /\ c.end.for \in Int
          BY <2>2, ReadEndType, EndCases DEF NoStart
        <4> QED
          BY <1>2, <4>1
      <3>2. d.end = [for |-> c.end.for] /\ c.end.for \in Int
        BY <1>1, <2>2, <3>1, EndCases
      <3>3. d.end # Missing /\ ~EndsAt(d) /\ d.end.for = c.end.for
        BY <3>2, RecurrenceAssumption DEF EndsAt
      <3> QED
        BY <2>2, <3>3 DEF endTime
    <2>3. CASE c.end = Missing
      <3>1. ~EndsAt(c)
        BY <2>3 DEF EndsAt
      <3>2. endTime(d, s) = ToUTC(c.zone, ReadEnd(c))
        BY <1>1, <1>3, <2>3
      <3>3. endTime(c, s) = IF c.date THEN s + Day ELSE s
        BY <2>3, <3>1 DEF endTime
      <3>4. ReadEnd(c) = IF c.date THEN c.start + Day ELSE c.start
        BY <2>3, ReadEndType DEF NoStart
      <3>5. c.date => ToUTC(c.zone, c.start + Day) = s + Day
        BY <1>2, UTCIsIdentity
      <3> QED
        BY <3>2, <3>3, <3>4, <3>5
    <2> QED
      BY <2>1, <2>2, <2>3
  <1>5. instanceOf(d) = [start |-> s, end |-> endTime(d, s), rid |-> Missing,
                         override |-> FALSE]
    BY <1>1, InstanceOfPlaced DEF NoStart
  <1>6. instanceOf(c) = [start |-> s, end |-> endTime(c, s), rid |-> Missing,
                         override |-> FALSE]
    BY InstanceOfPlaced
  <1> QED
    BY <1>4, <1>5, <1>6 DEF d

(* SavedAsShownStays: ReadEvent, formatEndDate, eventFromForm and Apply    *)
(* take every event to the form and back to the same start and end.        *)
THEOREM SavedEventStays == Spec => SavedAsShownStays
  <1>1. CalendarInv /\ [Next]_vars => [SavedStays]_vars
    <2> DEFINE c == EventOf(object)
               event == eventFromForm(Shown(c))
    <2> SUFFICES ASSUME CalendarInv, SaveAsShown, reply'.status = "stored",
                        EndsAt(c) => c.endZone = c.zone,
                        c.date => /\ c.zone = UTC
                                  /\ ReadEnd(c) > c.start
                                  /\ (ReadEnd(c) - c.start) % Day = 0
                 PROVE  instanceOf(EventOf(object')) = instanceOf(c)
      BY DEF SavedStays
    <2>1. object \in Objects /\ Editable(object) # {} /\ c \in Component /\ c.start # Missing
      BY EventIndex DEF SaveAsShown, CalendarInv, TypeOK
    <2>2. /\ event \in Entry
          /\ event.start = c.start /\ event.end = ReadEnd(c)
          /\ event.allDay = c.date /\ event.zone = c.zone
      BY <2>1, SentBack
    <2>3. object' = Apply(object, event) /\ validate(event)
      BY DEF SaveAsShown, UpdateEvent, Store, Refuse
    <2>a. ~NoStart(c)
      BY <2>1, <2>2, <2>3 DEF validate, UTC, NoStart
    <2>4. EventOf(object') = Edited(c, event)
      BY <2>1, <2>2, <2>3, ApplyType
    <2> HIDE DEF event, c
    <2>5. instanceOf(Edited(c, event)) = instanceOf(c)
      BY <2>1, <2>2, <2>a, EditedStays
    <2> QED
      BY <2>4, <2>5
  <1> QED
    BY <1>1, CalendarInvariant, PTL DEF Spec, SavedAsShownStays

-----------------------------------------------------------------------------
(* Embedded zones                                                          *)

(* No two transitions of one instant disagree.                             *)
Consistent(T) == \A t, u \in T : t.at = u.at => t = u

(* The last transition before an instant decides the offset,               *)
LEMMA LastDecides ==
    ASSUME NEW T \in SUBSET Transition, IsFiniteSet(T), Consistent(T), NEW i \in Int,
           NEW t \in T, t.at <= i, \A u \in T : u.at <= i => u.at <= t.at
    PROVE  OffsetIn(T, i) = t.after
  <1>1. \A u \in T : u.at \in Int
    BY DEF Transition
  <1>2. PICK s \in T : /\ s.at <= i
                       /\ \A u \in T : u.at <= i => u.at <= s.at
                       /\ OffsetIn(T, i) = s.after
    BY <1>1, OffsetInCases
  <1>3. s.at = t.at
    BY <1>1, <1>2
  <1> QED
    BY <1>2, <1>3 DEF Consistent

(* and the first one, if all are later.                                    *)
LEMMA FirstDecides ==
    ASSUME NEW T \in SUBSET Transition, IsFiniteSet(T), Consistent(T), NEW i \in Int,
           \A u \in T : i < u.at, NEW t \in T, \A u \in T : t.at <= u.at
    PROVE  OffsetIn(T, i) = t.before
  <1>1. \A u \in T : u.at \in Int
    BY DEF Transition
  <1>2. PICK s \in T : (\A u \in T : s.at <= u.at) /\ OffsetIn(T, i) = s.before
    BY <1>1, OffsetInCases
  <1>3. s.at = t.at
    BY <1>1, <1>2
  <1> QED
    BY <1>2, <1>3 DEF Consistent

(* No date of a rule is before its start.                                  *)
LEMMA RuleDatesFollow ==
    ASSUME NEW o \in Observance, NEW v \in RuleDates(o)
    PROVE  v \in Int /\ o.start <= v
  <1>1. o.start \in Int /\ Year \in Int /\ Year > 0 /\ MaxYears \in Nat
    BY TimezonesAssumption DEF Observance
  <1>2. PICK k \in 0..MaxYears : v = o.start + k * Year
    BY DEF RuleDates
  <1>3. k * Year \in Int /\ k * Year >= 0
    BY <1>1
  <1> QED
    BY <1>1, <1>2, <1>3

(* The window of offsetAt is wide enough: it holds the last change before  *)
(* the instant if it holds every date of the rules, or if there was some   *)
(* change within it.                                                       *)
LEMMA OffsetAtIsTrue ==
    ASSUME NEW O \in Definition, Consistent(AllTransitions(O)), NEW i \in Int,
           \/ \A o \in O : \A v \in RuleDates(o) : Anchor <= v /\ i - 3 * Year <= v
           \/ \E s \in AllTransitions(O) : /\ s.at <= i
                                           /\ i + expansionSlack - 3 * Year <= s.at
                                           /\ Anchor + expansionSlack <= s.at
    PROVE  offsetAt(O, i) = TrueOffset(O, i)
  <1> DEFINE T == AllTransitions(O)
             N == NearTransitions(O, i)
             Tr(o, v) == [at |-> v - o.offsetFrom, before |-> o.offsetFrom,
                          after |-> o.offsetTo]
  <1>1. /\ T \in SUBSET Transition /\ IsFiniteSet(T) /\ T # {}
        /\ N \in SUBSET Transition /\ IsFiniteSet(N) /\ N # {}
    BY AllTransitionsType, NearTransitionsType
  <1>2. \A t \in T : \E o \in O : \E v \in AllDates(o) : t = Tr(o, v)
    BY DEF AllTransitions, AllDates, Transitions
  <1>3. \A o \in O : \A v \in AllDates(o) : Tr(o, v) \in T
    BY DEF AllTransitions, AllDates, Transitions
  <1>4. \A o \in O : \A v \in NearDates(o, i) : Tr(o, v) \in N
    BY DEF NearTransitions, Transitions
  <1>5. N \subseteq T
    <2>1. \A t \in N : \E o \in O : \E v \in NearDates(o, i) : t = Tr(o, v)
      BY DEF NearTransitions, Transitions
    <2>2. \A o \in O : NearDates(o, i) \subseteq AllDates(o)
      BY DEF NearDates, AllDates
    <2> HIDE DEF T, N, Tr
    <2> QED
      BY <1>3, <2>1, <2>2
  <1>6. \A o \in O : /\ o \in Observance /\ o.start \in Int /\ o.offsetFrom \in Int
                     /\ o.offsetFrom <= Year
    BY TimezonesAssumption, RecurrenceAssumption DEF Definition, Observance, RealOffset
  <1>7. \A o \in O : \A v \in AllDates(o) : Tr(o, v).at = v - o.offsetFrom
    OBVIOUS
  <1>8. Consistent(N)
    BY <1>5 DEF Consistent
  <1>9. \A t \in T : t.at \in Int
    BY <1>1 DEF Transition
  <1>10. Year \in Int /\ Year > 0
    BY TimezonesAssumption
  <1>11. offsetAt(O, i) = OffsetIn(N, i) /\ TrueOffset(O, i) = OffsetIn(T, i)
    BY OffsetTypes
  <1>a. \/ \A o \in O : \A v \in RuleDates(o) : Anchor <= v /\ i - 3 * Year <= v
        \/ \E s \in T : /\ s.at <= i
                        /\ i + expansionSlack - 3 * Year <= s.at
                        /\ Anchor + expansionSlack <= s.at
    OBVIOUS
  <1> HIDE DEF T, N, Tr
  <1>12. CASE \E t \in T : t.at <= i
    <2>1. PICK t \in T : /\ t.at <= i
                         /\ \A u \in T : u.at <= i => u.at <= t.at
                         /\ OffsetIn(T, i) = t.after
      BY <1>1, <1>9, <1>12, OffsetInCases
    <2>a. PICK o \in O : \E v \in AllDates(o) : t = Tr(o, v)
      BY <1>2
    <2>2. PICK v \in AllDates(o) : t = Tr(o, v)
      BY <2>a
    <2>3. t \in N
      <3>1. CASE v \in {o.start} \cup o.rdates
        BY <1>4, <2>2, <3>1 DEF NearDates
      <3>2. CASE v \in RuleDates(o)
        <4>1. v \in Int /\ t.at = v - o.offsetFrom
          BY <1>6, <1>7, <2>2, <3>2, RuleDatesFollow
        <4>2. v <= i + Year
          BY <1>6, <1>10, <2>1, <4>1
        <4>3. Anchor <= v /\ i - 3 * Year <= v
          <5>1. CASE \A x \in RuleDates(o) : Anchor <= x /\ i - 3 * Year <= x
            BY <3>2, <5>1
          <5>2. CASE \E s \in T : /\ s.at <= i
                                  /\ i + expansionSlack - 3 * Year <= s.at
                                  /\ Anchor + expansionSlack <= s.at
            <6>1. PICK s \in T : /\ s.at <= i
                                 /\ i + expansionSlack - 3 * Year <= s.at
                                 /\ Anchor + expansionSlack <= s.at
              BY <5>2
            <6>2. s.at <= t.at /\ s.at \in Int /\ t.at \in Int
              BY <1>9, <2>1, <6>1
            <6>3. /\ o.offsetFrom \in Int /\ o.offsetFrom >= -expansionSlack
                  /\ expansionSlack \in Int /\ Anchor \in Int
              BY RecurrenceAssumption, TimezonesAssumption DEF Definition, RealOffset
            <6> QED
              BY <1>10, <4>1, <6>1, <6>2, <6>3
          <5> QED
            BY <1>a, <5>1, <5>2
        <4>4. v \in NearDates(o, i)
          BY <1>10, <3>2, <4>1, <4>2, <4>3 DEF NearDates
        <4> QED
          BY <1>4, <2>2, <4>4
      <3> QED
        BY <2>2, <3>1, <3>2 DEF AllDates
    <2>4. OffsetIn(N, i) = t.after
      BY <1>1, <1>5, <1>8, <2>1, <2>3, LastDecides
    <2> QED
      BY <1>11, <2>1, <2>4
  <1>13. CASE \A t \in T : ~(t.at <= i)
    <2>0. \A t \in T : i < t.at
      BY <1>9, <1>13
    <2>1. PICK t \in T : (\A u \in T : t.at <= u.at) /\ OffsetIn(T, i) = t.before
      BY <1>1, <1>9, <1>13, OffsetInCases
    <2>a. PICK o \in O : \E v \in AllDates(o) : t = Tr(o, v)
      BY <1>2
    <2>2. PICK v \in AllDates(o) : t = Tr(o, v)
      BY <2>a
    <2>3. t \in N
      <3>1. CASE v \in {o.start} \cup o.rdates
        BY <1>4, <2>2, <3>1 DEF NearDates
      <3>2. CASE v \in RuleDates(o)
        <4>1. v \in Int /\ o.start <= v
          BY <1>6, <3>2, RuleDatesFollow
        <4>2. Tr(o, o.start) \in T /\ Tr(o, o.start) \in N
          BY <1>3, <1>4 DEF AllDates, NearDates
        <4>3. Tr(o, o.start).at = o.start - o.offsetFrom /\ t.at = v - o.offsetFrom
          BY <1>7, <2>2 DEF AllDates
        <4>4. Tr(o, o.start).at <= t.at
          BY <1>6, <4>1, <4>3
        <4>5. Tr(o, o.start).at = t.at
          BY <1>9, <2>1, <4>2, <4>4
        <4> QED
          BY <4>2, <4>5 DEF Consistent, T
      <3> QED
        BY <2>2, <3>1, <3>2 DEF AllDates
    <2>4. OffsetIn(N, i) = t.before
      BY <1>1, <1>5, <1>8, <2>0, <2>1, <2>3, FirstDecides
    <2> QED
      BY <1>11, <2>1, <2>4
  <1> QED
    BY <1>12, <1>13

(* Between two changes the offset stays.                                   *)
LEMMA OffsetStays ==
    ASSUME NEW O \in Definition, Consistent(AllTransitions(O)),
           NEW i \in Int, NEW j \in Int, i <= j,
           \A t \in AllTransitions(O) : t.at \notin (i + 1)..j
    PROVE  TrueOffset(O, i) = TrueOffset(O, j)
  <1> DEFINE T == AllTransitions(O)
  <1>1. T \in SUBSET Transition /\ IsFiniteSet(T) /\ T # {}
    BY AllTransitionsType
  <1>2. \A t \in T : t.at \in Int
    BY <1>1 DEF Transition
  <1>3. \A t \in T : t.at <= i <=> t.at <= j
    BY <1>2
  <1>4. TrueOffset(O, i) = OffsetIn(T, i) /\ TrueOffset(O, j) = OffsetIn(T, j)
    BY OffsetTypes
  <1>5. Consistent(T)
    OBVIOUS
  <1> HIDE DEF T
  <1>6. CASE \E t \in T : t.at <= i
    <2>1. PICK t \in T : /\ t.at <= i
                         /\ \A u \in T : u.at <= i => u.at <= t.at
                         /\ OffsetIn(T, i) = t.after
      BY <1>1, <1>2, <1>6, OffsetInCases
    <2>2. OffsetIn(T, j) = t.after
      BY <1>1, <1>3, <1>5, <2>1, LastDecides
    <2> QED
      BY <1>4, <2>1, <2>2
  <1>7. CASE \A t \in T : ~(t.at <= i)
    <2>1. PICK t \in T : (\A u \in T : t.at <= u.at) /\ OffsetIn(T, i) = t.before
      BY <1>1, <1>2, <1>7, OffsetInCases
    <2>2. \A u \in T : j < u.at
      BY <1>2, <1>3, <1>7
    <2>3. OffsetIn(T, j) = t.before
      BY <1>1, <1>5, <2>1, <2>2, FirstDecides
    <2> QED
      BY <1>4, <2>1, <2>3
  <1> QED
    BY <1>6, <1>7

(* With every offset within d, so are the offsets of the zone.             *)
LEMMA OffsetBound ==
    ASSUME NEW O \in Definition, NEW i \in Int, NEW d \in Nat,
           \A o \in O : o.offsetFrom \in (-d)..d /\ o.offsetTo \in (-d)..d
    PROVE  TrueOffset(O, i) \in (-d)..d
  <1> DEFINE T == AllTransitions(O)
  <1>1. \A t \in T : t.before \in (-d)..d /\ t.after \in (-d)..d
    BY DEF AllTransitions, Transitions
  <1>2. T \in SUBSET Transition /\ IsFiniteSet(T) /\ T # {}
    BY AllTransitionsType
  <1>3. TrueOffset(O, i) = OffsetIn(T, i)
    BY OffsetTypes
  <1> HIDE DEF T
  <1> QED
    BY <1>1, <1>2, <1>3, OffsetInCases

(* Around a wall time with one change at most, the second look of          *)
(* embeddedOffset is at the right side of that change whenever only one    *)
(* instant is meant.                                                       *)
LEMMA SecondLook ==
    ASSUME NEW O \in Definition, Consistent(AllTransitions(O)),
           NEW w \in Int, NEW d \in Nat,
           \A o \in O : o.offsetFrom \in (-d)..d /\ o.offsetTo \in (-d)..d,
           \A t, u \in AllTransitions(O) :
             t.at \in (w - d + 1)..(w + d) /\ u.at \in (w - d + 1)..(w + d) => t.at = u.at,
           NEW m \in Int, m + TrueOffset(O, m) = w,
           \A k \in (w - d)..(w + d) : k + TrueOffset(O, k) = w => k = m
    PROVE  w - TrueOffset(O, w - TrueOffset(O, w)) = m
  <1> DEFINE off(i) == TrueOffset(O, i)
             T == AllTransitions(O)
             Near == (w - d)..(w + d)
  <1>1. \A i \in Int : off(i) \in (-d)..d
    BY OffsetBound
  <1>2. m \in Near /\ w \in Near /\ w - off(w) \in Near /\ m = w - off(m)
    BY <1>1
  <1>3. \A t \in T : t.at \in Int
    BY AllTransitionsType DEF Transition
  <1>4. CASE \A t \in T : t.at \notin (w - d + 1)..(w + d)
    <2>1. ASSUME NEW i \in Near PROVE off(i) = off(w + d)
      <3>1. \A t \in T : t.at \notin (i + 1)..(w + d)
        BY <1>3, <1>4
      <3> QED
        BY <3>1, OffsetStays
    <2>2. off(w - off(w)) = off(m)
      BY <1>2, <2>1
    <2> QED
      BY <1>2, <2>2
  <1>5. CASE \E t \in T : t.at \in (w - d + 1)..(w + d)
    <2>1. PICK c \in (w - d + 1)..(w + d) :
            \A t \in T : t.at \in (w - d + 1)..(w + d) => t.at = c
      BY <1>5
    <2> DEFINE a == off(w - d)
               b == off(w + d)
    <2>2. ASSUME NEW i \in Near, i < c PROVE off(i) = a
      <3>1. \A t \in T : t.at \notin (w - d + 1)..i
        BY <1>3, <2>1, <2>2
      <3> QED
        BY <3>1, OffsetStays
    <2>3. ASSUME NEW i \in Near, c <= i PROVE off(i) = b
      <3>1. \A t \in T : t.at \notin (i + 1)..(w + d)
        BY <1>3, <2>1, <2>3
      <3> QED
        BY <3>1, OffsetStays
    <2>4. a \in (-d)..d /\ b \in (-d)..d
      BY <1>1
    <2>5. w - a \in Near /\ w - b \in Near
      BY <2>4
    <2>6. \A k \in Near : k + off(k) = w => k = m
      OBVIOUS
    <2> HIDE DEF off, a, b
    <2>7. CASE m < c
      <3>1. m = w - a
        BY <1>2, <2>2, <2>7
      <3>2. w - b < c
        <4>1. SUFFICES ASSUME c <= w - b PROVE FALSE
          BY <2>4
        <4>2. off(w - b) = b
          BY <2>3, <2>5, <4>1
        <4>3. w - b = m
          BY <2>4, <2>5, <2>6, <4>2
        <4> QED
          BY <2>7, <4>1, <4>3
      <3>3. off(w) \in {a, b}
        BY <1>2, <2>2, <2>3
      <3>4. w - off(w) < c
        BY <2>7, <3>1, <3>2, <3>3
      <3>5. off(w - off(w)) = a
        BY <1>2, <2>2, <3>4
      <3> QED
        BY <3>1, <3>5 DEF off
    <2>8. CASE c <= m
      <3>1. m = w - b
        BY <1>2, <2>3, <2>8
      <3>2. c <= w - a
        <4>1. SUFFICES ASSUME w - a < c PROVE FALSE
          BY <2>4
        <4>2. off(w - a) = a
          BY <2>2, <2>5, <4>1
        <4>3. w - a = m
          BY <2>4, <2>5, <2>6, <4>2
        <4> QED
          BY <2>8, <4>1, <4>3
      <3>3. off(w) \in {a, b}
        BY <1>2, <2>2, <2>3
      <3>4. c <= w - off(w)
        BY <2>8, <3>1, <3>2, <3>3
      <3>5. off(w - off(w)) = b
        BY <1>2, <2>3, <3>4
      <3> QED
        BY <3>1, <3>5 DEF off
    <2> QED
      BY <2>7, <2>8
  <1> QED
    BY <1>4, <1>5

(* At a regular wall time embeddedOffset finds the instant that is meant.  *)
LEMMA RegularIsExact ==
    ASSUME NEW z \in Zone, z.kind = "embedded", NEW w \in Int,
           RegularAt(z.observances, w)
    PROVE  ZoneIsExact(z, w)
  <1> DEFINE O == z.observances
             near == (w - expansionSlack)..(w + expansionSlack)
             meant == {i \in near : i + TrueOffset(O, i) = w}
  <1> SUFFICES ASSUME Cardinality(meant) = 1 PROVE ToUTC(z, w) \in meant
    BY DEF ZoneIsExact
  <1>1. O \in Definition /\ Consistent(AllTransitions(O))
    BY ZoneDefinition DEF RegularAt, Consistent
  <1>2. PICK d \in 0..expansionSlack :
          /\ \A o \in O : o.offsetFrom \in (-d)..d /\ o.offsetTo \in (-d)..d
          /\ \A t, u \in AllTransitions(O) :
               t.at \in (w - d + 1)..(w + d) /\ u.at \in (w - d + 1)..(w + d)
                 => t.at = u.at
    BY DEF RegularAt
  <1>3. expansionSlack \in Nat /\ d \in Nat /\ d <= expansionSlack
    BY <1>2, RecurrenceAssumption
  <1>4. PICK m \in meant : \A k \in meant : k = m
    <2>1. IsFiniteSet(near)
      BY <1>3, FS_Interval
    <2>2. IsFiniteSet(meant)
      BY <2>1, FS_Subset
    <2>3. PICK m : meant = {m}
      <3> HIDE DEF meant
      <3> QED
        BY <2>2, FS_Singleton
    <2> QED
      BY <2>3
  <1>5. ASSUME NEW i \in near PROVE offsetAt(O, i) = TrueOffset(O, i)
    <2>1. i \in Int /\ i <= w + expansionSlack
      BY <1>3
    <2>2. w - expansionSlack <= i /\ Year \in Int
      BY <1>3, TimezonesAssumption
    <2>3. CASE \A o \in O : \A v \in RuleDates(o) :
                 Anchor <= v /\ w + expansionSlack - 3 * Year <= v
      <3>1. ASSUME NEW o \in O, NEW v \in RuleDates(o)
            PROVE  Anchor <= v /\ i - 3 * Year <= v
        <4>1. v \in Int
          BY <1>1, RuleDatesFollow DEF Definition
        <4> QED
          BY <1>3, <2>1, <2>2, <2>3, <4>1
      <3> QED
        BY <1>1, <2>1, <3>1, OffsetAtIsTrue
    <2>4. CASE \E t \in AllTransitions(O) :
                 /\ t.at <= w - expansionSlack
                 /\ w + 2 * expansionSlack - 3 * Year <= t.at
                 /\ Anchor + expansionSlack <= t.at
      <3>1. PICK t \in AllTransitions(O) :
                 /\ t.at <= w - expansionSlack
                 /\ w + 2 * expansionSlack - 3 * Year <= t.at
                 /\ Anchor + expansionSlack <= t.at
        BY <2>4
      <3>2. t.at \in Int
        BY <1>1, AllTransitionsType DEF Transition
      <3>3. t.at <= i /\ i + expansionSlack - 3 * Year <= t.at
        BY <1>3, <2>1, <2>2, <3>1, <3>2
      <3> QED
        BY <1>1, <2>1, <3>1, <3>3, OffsetAtIsTrue
    <2> QED
      BY <2>3, <2>4 DEF RegularAt
  <1>6. w - TrueOffset(O, w) \in near /\ w \in near
    <2>1. TrueOffset(O, w) \in RealOffset
      BY <1>1, OffsetTypes
    <2> QED
      BY <1>3, <2>1 DEF RealOffset
  <1>7. ToUTC(z, w) = w - TrueOffset(O, w - TrueOffset(O, w))
    BY <1>5, <1>6 DEF ToUTC, Resolve, embeddedOffset
  <1>8. m \in Int /\ m + TrueOffset(O, m) = w
    BY <1>3, <1>4
  <1>9. \A k \in (w - d)..(w + d) : k + TrueOffset(O, k) = w => k = m
    BY <1>3, <1>4
  <1> HIDE DEF O, meant, near
  <1>10. w - TrueOffset(O, w - TrueOffset(O, w)) = m
    BY <1>1, <1>2, <1>3, <1>8, <1>9, SecondLook
  <1> QED
    BY <1>4, <1>7, <1>10

(* EmbeddedZoneIsExact: wherever a wall time of a stored component belongs *)
(* to exactly one instant, embeddedOffset finds it, if the VTIMEZONE is    *)
(* regular around that wall time (RegularAt), whatever it holds elsewhere. *)
THEOREM EmbeddedZoneExact == Spec => []EmbeddedZoneIsExact
  <1>1. CalendarInv => EmbeddedZoneIsExact
    <2> SUFFICES ASSUME CalendarInv, object # NoObject,
                        NEW i \in DOMAIN object, object[i].zone.kind = "embedded",
                        object[i].start # Missing, NEW w \in WallTimes(object[i]),
                        RegularAt(object[i].zone.observances, w)
                 PROVE  ZoneIsExact(object[i].zone, w)
      BY DEF EmbeddedZoneIsExact
    <2>1. object[i] \in Component
      BY ObjectRange DEF CalendarInv, TypeOK
    <2>2. object[i].start \in Int /\ object[i].zone \in Zone
      BY <2>1, ComponentFields
    <2>3. w \in Int
      BY <2>1, <2>2, RecurrenceSetType DEF WallTimes
    <2> QED
      BY <2>2, <2>3, RegularIsExact
  <1> QED
    BY <1>1, CalendarInvariant, PTL
=============================================================================
