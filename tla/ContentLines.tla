---------------------------- MODULE ContentLines ----------------------------
(***************************************************************************)
(* The content lines of a vCard and how an edit rewrites them              *)
(* (internal/contentline).  A document is the sequence of the lines        *)
(* between BEGIN:VCARD and END:VCARD; a vCard nests no components.  A text *)
(* is a sequence of bytes, of which "LF" and "CR" name the two line        *)
(* breaks.  A line has                                                     *)
(*   group, name      "" is no group;                                      *)
(*   types, others    the TYPE parameters in order, and whether there are  *)
(*                    other parameters;                                    *)
(*   value            escaped;                                             *)
(*   by               "client" as long as its bytes are those of the       *)
(*                    client (raw), "server" once it is dirty or added.    *)
(***************************************************************************)
EXTENDS Integers, SequencesExt

CONSTANTS
    Byte,            \* the bytes of values
    Word,            \* names, groups and types
    FoldLimit,       \* the octets of a physical line, 75 in the code
    Lead,            \* the bytes that begin a UTF-8 sequence of several bytes,
    Continuation     \* and those that continue one

ASSUME AlphabetAssumption ==
    {"LF", "CR", "\\", ",", ";", "n", "N", " "} \subseteq Byte /\ "" \in Word

ASSUME FoldAssumption ==
    /\ FoldLimit \in Nat /\ FoldLimit > 4
    /\ Lead \cap Continuation = {} /\ ":" \notin Continuation

Text == Seq(Byte)

Line ==
    [group : Word, name : Word, types : Seq(Word), others : BOOLEAN,
     value : Text, by : {"client", "server"}]

-----------------------------------------------------------------------------
(* Sequences                                                               *)

(* The indices of the elements of seq that are in S, in order.             *)
Where(seq, S) ==
    LET upTo[n \in 0..Len(seq)] ==
          IF n = 0 THEN <<>>
          ELSE IF seq[n] \in S THEN Append(upTo[n - 1], n) ELSE upTo[n - 1]
    IN  upTo[Len(seq)]

(* The elements themselves.                                                *)
Only(seq, S) ==
    LET all == Where(seq, S) IN [k \in DOMAIN all |-> seq[all[k]]]

-----------------------------------------------------------------------------
(* Values                                                                  *)

(* Mutant: the backslash itself is not escaped.                            *)
EscapedSeparator(c) ==
    CASE c = "LF" -> <<"\\", "n">>
      [] c = "CR" -> <<>>
      [] c \in {",", ";"} -> <<"\\", c>>
      [] OTHER -> <<c>>

Escaped(c) ==
    CASE c = "LF" -> <<"\\", "n">>
      [] c = "CR" -> <<>>
      [] c \in {"\\", ",", ";"} -> <<"\\", c>>
      [] OTHER -> <<c>>

Escape(text) ==
    LET out[n \in 0..Len(text)] ==
          IF n = 0 THEN <<>> ELSE out[n - 1] \o Escaped(text[n])
    IN  out[Len(text)]

(* One byte of a scan that follows backslashes.  A separator that is not   *)
(* escaped ends a part; a backslash that ends the text stands for itself.  *)
ScanByte(s, c, separators) ==
    CASE s.escaped ->
           [parts |-> s.parts, part |-> Append(s.part, IF c \in {"n", "N"} THEN "LF" ELSE c),
            escaped |-> FALSE]
      [] ~s.escaped /\ c = "\\" ->
           [parts |-> s.parts, part |-> s.part, escaped |-> TRUE]
      [] ~s.escaped /\ c # "\\" /\ c \in separators ->
           [parts |-> Append(s.parts, s.part), part |-> <<>>, escaped |-> FALSE]
      [] ~s.escaped /\ c # "\\" /\ c \notin separators ->
           [parts |-> s.parts, part |-> Append(s.part, c), escaped |-> FALSE]

Scanned(value, separators) ==
    LET after[n \in 0..Len(value)] ==
          IF n = 0 THEN [parts |-> <<>>, part |-> <<>>, escaped |-> FALSE]
          ELSE ScanByte(after[n - 1], value[n], separators)
    IN  after[Len(value)]

Scan(value, separators) ==
    LET end == Scanned(value, separators)
    IN  Append(end.parts, IF end.escaped THEN Append(end.part, "\\") ELSE end.part)

Unescape(value) == Scan(value, {})[1]

SplitStructured(value) == Scan(value, {";"})

-----------------------------------------------------------------------------
(* Folding                                                                 *)

(* Mutant: a physical line is cut wherever it is full.                     *)
CutAnywhere(bytes, start, width) == start + width

(* Where a physical line ends that begins after start: not in the middle   *)
(* of a UTF-8 sequence.                                                    *)
Cut(bytes, start, width) ==
    CHOOSE end \in start..(start + width) :
      /\ end = start \/ bytes[end + 1] \notin Continuation
      /\ \A later \in (end + 1)..(start + width) : bytes[later + 1] \in Continuation

(* fold, as the physical lines it makes; the space that begins a           *)
(* continuation counts toward the limit.                                   *)
fold(bytes) ==
    LET rest[start \in 0..Len(bytes)] ==
          LET width == IF start = 0 THEN FoldLimit ELSE FoldLimit - 1
              space == IF start = 0 THEN <<>> ELSE <<" ">>
          IN  IF start + width >= Len(bytes)
              THEN <<space \o SubSeq(bytes, start + 1, Len(bytes))>>
              ELSE LET end == Cut(bytes, start, width)
                   IN  <<space \o SubSeq(bytes, start + 1, end)>> \o rest[end]
    IN  rest[0]

(* unfold, of physical lines as nextLogicalLine puts them together: a line *)
(* that begins with a space continues the one before.                      *)
unfold(physical) ==
    LET out[n \in 0..Len(physical)] ==
          IF n = 0 THEN <<>>
          ELSE out[n - 1] \o IF n > 1 /\ physical[n][1] = " "
                             THEN Tail(physical[n]) ELSE physical[n]
    IN  out[Len(physical)]

-----------------------------------------------------------------------------
(* Lines                                                                   *)

Named(name) == {l \in Line : l.name = name}

FindAll(doc, name) == Where(doc, Named(name))

(* The index of the first line of this name, or 0.                         *)
Find(doc, name) ==
    LET all == FindAll(doc, name) IN IF all = <<>> THEN 0 ELSE all[1]

RawValue(doc, name) ==
    IF Find(doc, name) = 0 THEN <<>> ELSE doc[Find(doc, name)].value

Value(doc, name) == Unescape(RawValue(doc, name))

NewLine(name, types, value) ==
    [group |-> "", name |-> name, types |-> types, others |-> FALSE,
     value |-> value, by |-> "server"]

(* Mutant: the other lines of the group are left behind.                   *)
RemoveLineAlone(doc, i) == IF i > Len(doc) THEN <<>> ELSE RemoveAt(doc, i)

(* Remove: a line of a group takes the other lines of the group along.  An *)
(* index past the last line is that of END, or of nothing: without END, or *)
(* after a panic, there is no card that could be stored, and so there is   *)
(* none without lines.                                                     *)
RemoveLine(doc, i) ==
    CASE i > Len(doc) -> <<>>
      [] i <= Len(doc) /\ doc[i].group = "" -> RemoveAt(doc, i)
      [] i <= Len(doc) /\ doc[i].group # "" ->
           Only(doc, {l \in Line : l.group # doc[i].group})

Revalued(line, value) == [line EXCEPT !.value = value, !.by = "server"]

(* Set, without parameters: an empty value removes the line, and a line    *)
(* that is missing is inserted before END.                                 *)
Set(doc, name, value) ==
    LET i == Find(doc, name)
    IN  IF value = <<>>
        THEN IF i = 0 THEN doc ELSE RemoveLine(doc, i)
        ELSE IF i = 0 THEN Append(doc, NewLine(name, <<>>, value))
             ELSE [doc EXCEPT ![i] = Revalued(@, value)]
=============================================================================
