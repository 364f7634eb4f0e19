------------------------------ MODULE MCCards ------------------------------
(***************************************************************************)
(* Small instances of ContactCard: cards with grouped labels, parameters   *)
(* the form does not know and values that need escaping.                   *)
(***************************************************************************)
EXTENDS ContactCard

MCByte ==
    {"LF", "CR", "\\", ",", ";", "n", "N", " ", "c3", "a9",
     "1", "2", "3", "4", "a", "b", "e", "f", "o", "p", "s", "t", "u", "x", "y", "z"}
MCWord ==
    Edited \cup {"", "VERSION", "UID", "X-OWN", "X-LABEL", "g1", "g2", "g3",
                 "cell", "home", "pager", "pref", "internet"}
MCTypeOptions == <<"cell", "home">>
MCNow == <<"t">>

L(group, name, types, others, value) ==
    [group |-> group, name |-> name, types |-> types, others |-> others,
     value |-> value, by |-> "client"]

Head3 == <<L("", "VERSION", <<>>, FALSE, <<"3">>), L("", "UID", <<>>, FALSE, <<"u">>)>>

BothNames ==
    <<L("", "FN", <<>>, FALSE, <<"a">>),
      L("", "N", <<>>, FALSE, <<"b", "\\", ";", ";", "a", ";", "x">>)>>

FullName == <<L("", "FN", <<>>, TRUE, <<"a", ",", "b">>)>>

Name1 == L("", "FN", <<>>, FALSE, <<" ", "a">>)

Numbers ==
    {<<>>,
     <<L("", "TEL", <<"pref", "home">>, TRUE, <<"1">>)>>,
     <<L("g1", "TEL", <<"home">>, FALSE, <<"1">>), L("g1", "X-LABEL", <<>>, FALSE, <<"x">>),
       L("g2", "TEL", <<>>, TRUE, <<"2">>), L("g2", "X-LABEL", <<>>, FALSE, <<"y">>)>>,
     <<L("", "TEL", <<"pager">>, FALSE, <<"1">>), L("", "X-OWN", <<>>, TRUE, <<"x">>),
       L("g2", "TEL", <<"cell">>, FALSE, <<"2">>), L("g2", "X-LABEL", <<>>, FALSE, <<"y">>)>>,
     <<L("g2", "X-LABEL", <<>>, FALSE, <<"y">>), L("g2", "TEL", <<"cell">>, FALSE, <<"1">>)>>}

Note ==
    <<L("", "NOTE", <<>>, TRUE, <<"a", "\\", "N", "\\", ",", ",">>),
      L("", "X-OWN", <<>>, FALSE, <<"z">>)>>

Others ==
    {<<L("g3", "URL", <<>>, FALSE, <<"a">>), L("g3", "X-LABEL", <<>>, FALSE, <<"x">>),
       L("", "ORG", <<>>, FALSE, <<"o", ";", "\\", ";">>)>>,
     <<L("", "EMAIL", <<"internet", "home">>, FALSE, <<"e", "\\">>),
       L("", "REV", <<>>, FALSE, <<"s">>)>>}

MCCard ==
    {Head3 \o FullName \o t \o o : t \in Numbers, o \in Others}
    \cup {Head3 \o BothNames \o t \o Note : t \in Numbers}
    \cup {<<Head3[1]>>, <<Head3[2], L("", "TEL", <<>>, FALSE, <<"1">>)>>,
          <<Head3[2], L("g1", "VERSION", <<>>, FALSE, <<"3">>), Name1,
            L("g1", "TEL", <<"cell">>, FALSE, <<"1">>)>>,
          Head3 \o <<Name1, L("g1", "X-LABEL", <<>>, FALSE, <<"y">>),
                     L("g1", "TEL", <<"home">>, TRUE, <<"1">>),
                     L("g1", "EMAIL", <<>>, FALSE, <<"e">>)>>,
          Head3 \o <<Name1, L("g2", "X-LABEL", <<>>, FALSE, <<"y">>),
                     L("", "TEL", <<>>, FALSE, <<"1">>), L("", "TEL", <<>>, FALSE, <<"3">>),
                     L("g2", "TEL", <<>>, FALSE, <<"2">>)>>}

(* A card whose N has parts that the form does not show.                   *)
MCNamedCard == {Head3 \o BothNames \o Note}

Sent(value, type) == [value |-> value, type |-> type]

Entry(fn, family, given, org, note, url, tel, email) ==
    [text |-> ("FN" :> fn @@ "TITLE" :> <<>> @@ "NOTE" :> note @@ "URL" :> url),
     list |-> ("TEL" :> tel @@ "EMAIL" :> email),
     family |-> family, given |-> given, org |-> org]

Long == <<"a", "c3", "a9", "c3", "a9", "c3", "a9", ";">>

MCContact ==
    {Entry(<<>>, <<>>, <<>>, <<>>, <<>>, <<>>, <<>>, <<>>),
     Entry(<<"a">>, <<";", "\\">>, <<"a">>, <<"o", ";">>, <<"a", "CR", "LF", "\\", "n">>,
           <<>>, <<Sent(<<"1">>, "home"), Sent(<<"3">>, "cell")>>, <<>>),
     Entry(<<>>, <<>>, Long, <<>>, Long, Long, <<Sent(<<>>, "cell"), Sent(<<"2">>, "cell")>>,
           <<Sent(<<"e", "\\">>, "home"), Sent(<<"f", ",">>, "cell")>>),
     Entry(<<"a">>, <<>>, <<>>, <<>>, <<>>, <<>>, <<Sent(<<"1">>, "")>>, <<>>),
     Entry(<<",", ";">>, <<"b">>, <<>>, <<"p">>, <<"\\">>, <<"a">>,
           <<Sent(<<"1">>, "home"), Sent(<<"2">>, "home"), Sent(<<"4">>, "cell")>>, <<>>)}
=============================================================================
