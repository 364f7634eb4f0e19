---------------------------- MODULE ContactCard ----------------------------
(***************************************************************************)
(* A contact that clients put and that the form of the admin interface     *)
(* edits in place (internal/vcard, admin/contacts.go, dav/vcard.go).  The  *)
(* form knows a few properties; whatever else a client has stored in the   *)
(* card has to survive it.  Requests that interleave are the subject of    *)
(* ObjectWrites; here a request is one step.                               *)
(***************************************************************************)
EXTENDS ContentLines, FiniteSets

CONSTANTS
    Card,            \* the cards clients put
    Contact,         \* what is entered into the form
    TypeOptions,     \* the TYPEs the form offers, in order
    NoCard,
    Now              \* the text of a time

TextProps == {"FN", "TITLE", "NOTE", "URL"}

ListProps == {"TEL", "EMAIL"}

(* The properties Apply writes.                                            *)
Edited == TextProps \cup ListProps \cup {"N", "ORG", "REV"}

VARIABLES
    card,            \* objects.raw: the lines of the card, or NoCard
    reply

vars == <<card, reply>>

(* A row of a list in the form, and the form.                              *)
Row == [value : Text, type : Word]

Contacts ==
    [text : [TextProps -> Text], list : [ListProps -> Seq(Row)],
     family : Text, given : Text, org : Text]

(* What a client writes is split at its line breaks.                       *)
ClientLine ==
    {l \in Line : l.by = "client" /\ \A i \in DOMAIN l.value : l.value[i] \notin {"LF", "CR"}}

ASSUME CardAssumption ==
    /\ Card \subseteq Seq(ClientLine)
    /\ Contact \subseteq Contacts
    /\ TypeOptions \in Seq(Word \ {""}) /\ TypeOptions # <<>>
    /\ Edited \cup {"VERSION", "UID"} \subseteq Word
    /\ NoCard \notin Seq(Line)
    /\ Now \in Text /\ {"3", "u"} \subseteq Byte

(* What the server has written of a card are properties the form knows.    *)
TypeOK ==
    /\ card \in Seq(Line) \cup {NoCard}
    /\ card # NoCard => \A i \in DOMAIN card :
                          card[i].by = "server" => card[i].name \in Edited \cup {"VERSION", "UID"}
    /\ reply \in {"none", "stored", "refused"}

Init == card = NoCard /\ reply = "none"

Refuse == reply' = "refused" /\ UNCHANGED card

Store(doc) == card' = doc /\ reply' = "stored"

(* PutAddressObject: cardIndex refuses a card without UID.                 *)
PutAddressObject(doc) ==
    \/ Value(doc, "UID") # <<>> /\ Store(doc)
    \/ Value(doc, "UID") = <<>> /\ Refuse

DeleteAddressObject ==
    /\ card # NoCard
    /\ Store(NoCard)

-----------------------------------------------------------------------------
(* Reading                                                                 *)

(* typeParam: the first TYPE that is offered, or else the first.           *)
typeParam(types) ==
    LET known == Only(types, ToSet(TypeOptions))
    IN  CASE known # <<>> -> known[1]
          [] known = <<>> /\ types # <<>> -> types[1]
          [] types = <<>> -> ""

Values(doc, name) ==
    LET lines == Only(doc, Named(name))
    IN  [k \in DOMAIN lines |-> [value |-> Unescape(lines[k].value),
                                 type |-> typeParam(lines[k].types)]]

Part(parts, n) == IF n <= Len(parts) THEN parts[n] ELSE <<>>

(* ReadContact                                                             *)
ReadContact(doc) ==
    LET n == SplitStructured(RawValue(doc, "N"))
    IN  [text |-> [name \in TextProps |-> Value(doc, name)],
         list |-> [name \in ListProps |-> Values(doc, name)],
         family |-> Part(n, 1), given |-> Part(n, 2),
         org |-> SplitStructured(RawValue(doc, "ORG"))[1]]

-----------------------------------------------------------------------------
(* Writing                                                                 *)

(* Mutant: every line the form sends is rewritten.                         *)
RewrittenAlways(line, want) ==
    [line EXCEPT !.types = <<want.type>>, !.others = FALSE,
                 !.value = Escape(want.value), !.by = "server"]

(* The loop of SetAll over the lines there are: the k-th value belongs to  *)
(* the k-th line.  A line that has the value and the type stays as it is,  *)
(* and only a TYPE it does not have replaces the parameters.               *)
Rewritten(line, want) ==
    LET sameType == want.type = "" \/ Contains(line.types, want.type)
    IN  IF sameType /\ Unescape(line.value) = want.value THEN line
        ELSE [line EXCEPT !.types = IF sameType THEN @ ELSE <<want.type>>,
                          !.others = IF sameType THEN @ ELSE FALSE,
                          !.value = Escape(want.value), !.by = "server"]

(* Mutant: the lines are counted from BEGIN:VCARD on.                      *)
RewriteAllShifted(doc, name, values) ==
    LET existing == FindAll(doc, name)
        position(i) == {k \in DOMAIN existing \cap DOMAIN values : existing[k] = i + 1}
    IN  [i \in DOMAIN doc |->
           IF position(i) = {} THEN doc[i]
           ELSE Rewritten(doc[i], values[CHOOSE k \in position(i) : TRUE])]

RewriteAll(doc, name, values) ==
    LET existing == FindAll(doc, name)
        position(i) == {k \in DOMAIN existing \cap DOMAIN values : existing[k] = i}
    IN  [i \in DOMAIN doc |->
           IF position(i) = {} THEN doc[i]
           ELSE Rewritten(doc[i], values[CHOOSE k \in position(i) : TRUE])]

RowLine(name, row) ==
    NewLine(name, IF row.type = "" THEN <<>> ELSE <<row.type>>, Escape(row.value))

(* The lines of the values after the first n.                              *)
Inserted(name, values, n) ==
    LET more == SubSeq(values, n + 1, Len(values))
    IN  [k \in DOMAIN more |-> RowLine(name, more[k])]

(* The lines with these indices are removed, from the last index on.       *)
RemoveAll(doc, indices) ==
    LET left[k \in 0..Len(indices)] ==
          IF k = 0 THEN doc
          ELSE RemoveLine(left[k - 1], indices[Len(indices) + 1 - k])
    IN  left[Len(indices)]

(* SetAll: further values are inserted, further lines removed.             *)
SetAll(doc, name, values) ==
    LET existing == FindAll(doc, name)
    IN  RemoveAll(RewriteAll(doc, name, values) \o Inserted(name, values, Len(existing)),
                  SubSeq(existing, Len(values) + 1, Len(existing)))

(* strings.TrimSpace                                                       *)
TrimSpace(text) ==
    LET solid == Where(text, Byte \ {" ", "LF", "CR"})
    IN  IF solid = <<>> THEN <<>> ELSE SubSeq(text, solid[1], solid[Len(solid)])

(* contactFromForm: rows that are left blank are dropped.                  *)
contactFromForm(form) ==
    LET trimmed(rows) == [k \in DOMAIN rows |-> [rows[k] EXCEPT !.value = TrimSpace(@)]]
    IN  [text |-> [name \in TextProps |-> TrimSpace(form.text[name])],
         list |-> [name \in ListProps |->
                     Only(trimmed(form.list[name]), {p \in Row : p.value # <<>>})],
         family |-> TrimSpace(form.family), given |-> TrimSpace(form.given),
         org |-> TrimSpace(form.org)]

validate(contact) ==
    contact.text["FN"] # <<>> \/ contact.given # <<>> \/ contact.family # <<>>

(* DisplayName, which normalise takes for a missing FN.                    *)
DisplayName(contact) ==
    IF contact.text["FN"] # <<>> THEN contact.text["FN"]
    ELSE TrimSpace(contact.given \o <<" ">> \o contact.family)

normalise(contact) == [contact EXCEPT !.text["FN"] = DisplayName(contact)]

Joined(first, rest) ==
    LET upTo[n \in 0..Len(rest)] ==
          IF n = 0 THEN Escape(first) ELSE upTo[n - 1] \o <<";">> \o Escape(rest[n])
    IN  upTo[Len(rest)]

(* structuredName: family and given name; the other three parts are empty. *)
structuredName(contact) ==
    IF contact.family = <<>> /\ contact.given = <<>> THEN <<>>
    ELSE Joined(contact.family, <<contact.given, <<>>, <<>>, <<>>>>)

(* organisationValue: the first part is replaced.                          *)
organisationValue(contact, existing) ==
    IF contact.org = <<>> THEN <<>>
    ELSE Joined(contact.org, Tail(SplitStructured(existing)))

(* Parse fails on a card without VERSION.                                  *)
Parses(doc) == Value(doc, "VERSION") # <<>>

SetText(doc, c, name) == Set(doc, name, Escape(c.text[name]))

SetNames(doc, c) == Set(SetText(doc, c, "FN"), "N", structuredName(c))

SetTexts(doc, c) == SetText(SetText(SetText(doc, c, "TITLE"), c, "NOTE"), c, "URL")

SetLists(doc, c) == SetAll(SetAll(doc, "TEL", c.list["TEL"]), "EMAIL", c.list["EMAIL"])

SetOrg(doc, c) == Set(doc, "ORG", organisationValue(c, RawValue(doc, "ORG")))

(* Apply, on a card that parses and a contact that is valid.               *)
Apply(doc, contact) ==
    LET c == normalise(contact)
    IN  Set(SetOrg(SetLists(SetTexts(SetNames(doc, c), c), c), c), "REV", Escape(Now))

(* storeContact reads the card it is about to store.                       *)
storeContact(doc) ==
    \/ Parses(doc) /\ Store(doc)
    \/ ~Parses(doc) /\ Refuse

(* updateContact                                                           *)
UpdateContact(form) ==
    /\ card # NoCard
    /\ LET contact == contactFromForm(form)
       IN  \/ Parses(card) /\ validate(contact) /\ storeContact(Apply(card, contact))
           \/ ~(Parses(card) /\ validate(contact)) /\ Refuse

(* createContact: New applies the form to a card with a new UID.           *)
Blank == <<NewLine("VERSION", <<>>, <<"3">>), NewLine("UID", <<>>, <<"u">>)>>

CreateContact(form) ==
    /\ card = NoCard
    /\ LET contact == contactFromForm(form)
       IN  \/ validate(contact) /\ storeContact(Apply(Blank, contact))
           \/ ~validate(contact) /\ Refuse

(* The form as the browser shows it: an empty row is added to each list,   *)
(* and a type that is not offered shows as the first that is.              *)
Selected(p) ==
    [p EXCEPT !.type = IF Contains(TypeOptions, @) THEN @ ELSE TypeOptions[1]]

Shown(doc) ==
    LET contact == ReadContact(doc)
        rows(list) == Append([k \in DOMAIN list |-> Selected(list[k])],
                             [value |-> <<>>, type |-> TypeOptions[1]])
    IN  [contact EXCEPT !.list = [name \in ListProps |-> rows(contact.list[name])]]

(* showContact, and the form is sent back as it is.                        *)
SaveAsShown ==
    /\ card # NoCard
    /\ Parses(card)
    /\ UpdateContact(Shown(card))

-----------------------------------------------------------------------------

Next ==
    \/ \E doc \in Card : PutAddressObject(doc)
    \/ DeleteAddressObject
    \/ \E form \in Contact : UpdateContact(form) \/ CreateContact(form)
    \/ SaveAsShown

Spec == Init /\ [][Next]_vars

-----------------------------------------------------------------------------
(* Properties                                                              *)

Groups(doc) == {doc[i].group : i \in {j \in DOMAIN doc : doc[j].name \in Edited}} \ {""}

(* The groups of a card as far as removing lines depends on them: a group  *)
(* has one property that the form knows,                                   *)
OneKnown(doc) ==
    \A i, j \in DOMAIN doc :
      (i < j /\ doc[i].group # "" /\ doc[i].group = doc[j].group)
      => ~(doc[i].name \in Edited /\ doc[j].name \in Edited)

(* and it begins with that property.                                       *)
WellGrouped(doc) ==
    \A i, j \in DOMAIN doc :
      (i < j /\ doc[i].group # "" /\ doc[i].group = doc[j].group)
      => doc[j].name \notin Edited

(* The values Apply writes.                                                *)
Wanted(doc, contact, name) ==
    CASE name \in TextProps -> Escape(contact.text[name])
      [] name = "N" -> structuredName(contact)
      [] name = "ORG" -> organisationValue(contact, RawValue(doc, "ORG"))
      [] name = "REV" -> Escape(Now)

(* No more than n lines of each list are removed.                          *)
RowsRemoved(doc, contact, n) ==
    \A name \in ListProps : Len(FindAll(doc, name)) <= Len(contact.list[name]) + n

RemovesNothing(doc, contact) ==
    /\ RowsRemoved(doc, contact, 0)
    /\ \A name \in Edited \ ListProps :
         Wanted(doc, contact, name) = <<>> => FindAll(doc, name) = <<>>

(* "Anything the form dropped goes, from the end so the indices hold"      *)
(* (SetAll): a removal takes the group of its line along, so they hold     *)
(* only if that group has nothing before the line, or if nothing is        *)
(* removed after it.                                                       *)
IndicesHold(doc, contact) ==
    \/ RemovesNothing(doc, contact)
    \/ WellGrouped(doc)
    \/ OneKnown(doc) /\ RowsRemoved(doc, contact, 1)

Forms ==
    Contact \cup (IF card # NoCard /\ Parses(card) THEN {Shown(card)} ELSE {})

Stored(form) == UpdateContact(form) /\ reply' = "stored"

Saved(form) ==
    Stored(form) /\ IndicesHold(card, normalise(contactFromForm(form)))

(* Cards that the form can show whole: one line of a property that is not  *)
(* a list, and one TYPE that it offers.                                    *)
Tidy(doc) ==
    /\ \A name \in TextProps \cup {"N", "ORG", "REV"} : Len(FindAll(doc, name)) <= 1
    /\ \A i \in DOMAIN doc :
         doc[i].name \in ListProps =>
           \A t, u \in ToSet(TypeOptions) \cap ToSet(doc[i].types) : t = u

(* A form as the browser sends it: the type of a row is one of the         *)
(* options.                                                                *)
Offered(form) ==
    \A name \in ListProps : \A k \in DOMAIN form.list[name] :
      Contains(TypeOptions, form.list[name][k].type)

(* Text without CR, which the browser sends with a line break and Escape   *)
(* drops.                                                                  *)
Plain(text) == Only(text, Byte \ {"CR"})

Entered(form) ==
    LET c == normalise(contactFromForm(form))
    IN  [text |-> [name \in TextProps |-> Plain(c.text[name])],
         list |-> [name \in ListProps |->
                     [k \in DOMAIN c.list[name] |->
                        [c.list[name][k] EXCEPT !.value = Plain(@)]]],
         family |-> Plain(c.family), given |-> Plain(c.given), org |-> Plain(c.org)]

(* What was entered is what the form shows next: escaping, the parts of N  *)
(* and ORG, the order of the lists and the removal of lines all fit        *)
(* together, on the cards that the form can show whole.  The browser's CR  *)
(* is not kept.                                                            *)
FormReadsBack ==
    [][\A form \in Forms :
         (Saved(form) /\ Tidy(card) /\ Offered(form)) => ReadContact(card') = Entered(form)]_vars

Untouched(doc, groups) ==
    Only(doc, {l \in Line : l.name \notin Edited /\ l.group \notin groups})

Satellites(doc, group) ==
    Only(doc, {l \in Line : l.name \notin Edited /\ l.group = group})

(* "The edit is applied to the stored bytes, not to a card rebuilt from    *)
(* the form" (updateContact): as long as the indices of SetAll hold, lines *)
(* the form does not know stay, in order and as they are, and the          *)
(* satellites of a property go exactly when the property of their group    *)
(* goes.                                                                   *)
OtherLinesStay ==
    [][\A form \in Forms : Saved(form) =>
         /\ Untouched(card', Groups(card)) = Untouched(card, Groups(card))
         /\ \A g \in Groups(card) :
              Satellites(card', g) =
                IF g \in Groups(card') THEN Satellites(card, g) ELSE <<>>]_vars

(* "so everything the form does not show survives" (updateContact), of any *)
(* card and without conditions: the lines the form does not know, the      *)
(* parts of N and ORG it does not show, and the parameters of a number or  *)
(* address that comes back as it is shown.                                 *)
TheRestSurvives ==
    [][\A form \in Forms : Stored(form) =>
         /\ Untouched(card', Groups(card)) = Untouched(card, Groups(card))
         /\ FindAll(card', "N") # <<>> =>
              \A n \in 3..5 : Part(SplitStructured(RawValue(card', "N")), n) =
                             Part(SplitStructured(RawValue(card, "N")), n)
         /\ FindAll(card', "ORG") # <<>> =>
              Tail(SplitStructured(RawValue(card', "ORG"))) =
                Tail(SplitStructured(RawValue(card, "ORG")))
         /\ \A name \in ListProps :
              LET sent == contactFromForm(form).list[name]
                  was  == Only(card, Named(name))
                  is   == Only(card', Named(name))
              IN  \A k \in DOMAIN sent \cap DOMAIN was \cap DOMAIN is :
                    sent[k] = Selected(Values(card, name)[k]) =>
                      is[k].types = was[k].types /\ is[k].others = was[k].others]_vars

(* "Occurrences are matched to the existing lines in order" and "Unchanged: *)
(* leave the original bytes in place" (SetAll): a number or address that   *)
(* comes back as it is shown keeps its place, its group and its value      *)
(* while others are edited, added or removed around it, and if the form    *)
(* offers a TYPE it has, its line stays byte for byte.  A line without     *)
(* such a TYPE is shown with the first option, and a save writes that.     *)
UnchangedRowsKeepTheirBytes ==
    [][\A form \in Forms, name \in ListProps : Saved(form) =>
         LET sent == contactFromForm(form).list[name]
             was  == Only(card, Named(name))
             is   == Only(card', Named(name))
             old  == Values(card, name)
         IN  \A k \in DOMAIN sent \cap DOMAIN was :
               sent[k] = Selected(old[k]) =>
                 /\ is[k].group = was[k].group
                 /\ Unescape(is[k].value) = Unescape(was[k].value)
                 /\ Contains(TypeOptions, old[k].type) => is[k] = was[k]]_vars

(* UTF-8, as far as folding depends on it: the byte that begins a sequence *)
(* is at most three before one that continues it.                          *)
UTF8(text) ==
    \A i \in DOMAIN text :
      text[i] \in Continuation => \E j \in 1..3 : j < i /\ text[i - j] \in Lead

(* Every line of UTF-8 that the server writes is read back as it was, fits *)
(* into the limit, and is never cut inside a character.                    *)
FoldsCleanly ==
    card # NoCard =>
      \A i \in DOMAIN card :
        LET bytes == <<card[i].name, ":">> \o card[i].value
            lines == fold(bytes)
        IN  UTF8(card[i].value) =>
              /\ unfold(lines) = bytes
              /\ \A k \in DOMAIN lines :
                   /\ Len(lines[k]) <= FoldLimit
                   /\ k > 1 => lines[k][2] \notin Continuation
=============================================================================
