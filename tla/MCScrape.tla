------------------------------ MODULE MCScrape ------------------------------
(* Instances of the scraper.  geonode has two pages of JSON; plain is a text *)
(* list or JSON that is garbled for a while and then back to what it was.    *)
EXTENDS Sources

CONSTANTS geonode, plain, v1, v2, A, B, C, Local, Text

MCKind == [h \in {A, B, C, Local, Text} |->
             IF h = Local THEN "reserved" ELSE IF h = Text THEN "malformed" ELSE "public"]

Line(scheme, user, host, port, tail, label, comment) ==
    [scheme |-> scheme, user |-> user, host |-> host, port |-> port, tail |-> tail,
     label |-> label, comment |-> comment]

Address(host, port) == Line(None, FALSE, host, port, "", None, FALSE)

Object(host, port, protocols) == [host |-> host, port |-> port, protocols |-> protocols]

Json(objects) == [lines |-> <<>>, objects |-> objects, endless |-> FALSE]
TextBody(lines) == [lines |-> lines, objects |-> {}, endless |-> FALSE]

Page1 == Json({Object(A, 80, <<"socks5", "ftp">>), Object(Text, 80, <<>>),
               Object(B, NotANumber, <<>>)})
Page2 == Json({Object(B, 80, <<"socks5h", "http">>), Object(Local, 80, <<"http">>)})

\* A page whose only address is reserved, and one that comes later under an old tag.
Blank == Json({Object(Local, 80, <<"http">>)})
Page3 == Json({Object(C, 80, <<"http">>)})

Dump == TextBody(<<Line("socks5", FALSE, A, 80, " fields", None, FALSE),
                   Line("http", FALSE, Local, 80, "", None, FALSE),
                   Line(None, TRUE, C, 80, ":country", None, FALSE),
                   Address(Text, 80), Address(A, 0), Address(A, 70000)>>)

Garbled == [lines |-> <<>>, objects |-> {Object(A, 80, <<>>)}, endless |-> TRUE]

List(tag, pages) == [tag |-> tag, pages |-> pages]

MCConfig ==
    [s \in Sources |->
        IF s = geonode THEN [parser |-> "geonode", hint |-> "socks4", trust |-> TRUE]
                       ELSE [parser |-> "scan", hint |-> None, trust |-> TRUE]]

MCLists ==
    [s \in Sources |->
        IF s = geonode THEN <<List(v1, <<Page1, Page2>>), List(v2, <<Blank, Page1>>),
                              List(v1, <<Page1, Page3>>)>>
                       ELSE <<List(NoTag, <<Garbled>>), List(NoTag, <<Dump>>)>>]

EditionsOf(lists) == [s \in Sources |-> [n \in DOMAIN lists[s] |-> EditionOf(s, lists[s][n])]]

MCEditions == EditionsOf(MCLists)

\* Lists that do not change.
StaticLists ==
    [s \in Sources |-> IF s = geonode THEN <<List(v1, <<Page1, Page2>>)>>
                                      ELSE <<List(v2, <<Dump>>)>>]

StaticEditions == EditionsOf(StaticLists)

\* A list of the source plain alone, which is trusted: each line has an address and, in a
\* field after it, its protocol.
Trailing == TextBody(<<Line(None, FALSE, A, 80, " fields", "socks5", FALSE),
                       Line(None, FALSE, B, 80, " fields", "http", FALSE),
                       Line(None, FALSE, C, 80, " fields", None, FALSE)>>)

TrailingOrder == <<plain>>
TrailingConfig == [s \in Sources |-> [parser |-> "scan", hint |-> None, trust |-> TRUE]]
TrailingLists == [s \in Sources |-> <<List(v1, <<Trailing>>), List(v2, <<Trailing>>)>>]
TrailingEditions == EditionsOf(TrailingLists)

MCItems ==
    {Candidate([host |-> p[1], port |-> 80], p[2]) :
        p \in {<<A, "socks5">>, <<A, None>>, <<B, "socks5">>, <<B, "http">>, <<C, None>>,
               <<C, "http">>, <<Local, "http">>}}

MCPages == [s \in Sources |-> IF s = geonode THEN 2 ELSE 1]

MCOrder == <<geonode, plain>>

=============================================================================
