------------------------------ MODULE Parsers ------------------------------
(***************************************************************************)
(* parsers.py: what each of the five parsers makes of the body of a list.  *)
(*                                                                         *)
(* A body is text, a sequence of lines, or JSON: the objects that have a   *)
(* host and a port, and whether a number in it is beyond Python's limit on *)
(* digits; the strings of JSON are text as well.  A line is a record of    *)
(* what stands around one address: the scheme in front of it, credentials, *)
(* what follows it, and the protocol named at the end of the line.  All    *)
(* that a host can be is public, reserved or not an IPv4 address at all.   *)
(*                                                                         *)
(* An operator whose comment begins with "Mutant" is a faulty version of   *)
(* a definition after it, which a property must tell from the original.    *)
(***************************************************************************)
EXTENDS Integers, Sequences, Functions

CONSTANT Kind    \* Kind[host]: "public", "reserved" or "malformed"

\* No scheme, no label, no hint, and a protocol that the handshake must find.
None == "unknown"

Protocols == {"http", "socks4", "socks5"}

\* An element of a JSON list of protocols, or its value for the port.
NotAString == "not a string"
NotANumber == -1

-----------------------------------------------------------------------------
(* Addresses and protocol names *)

Ports == 1 .. 65535

Alias == [http |-> "http", https |-> "http", socks4 |-> "socks4", socks4a |-> "socks4",
          socks5 |-> "socks5", socks5h |-> "socks5"]

Normalized(name) == IF name \in DOMAIN Alias THEN Alias[name] ELSE None

\* Mutant: any IPv4 address.
ValidAnyHost(host, port) == port \in Ports /\ Kind[host] # "malformed"

Valid(host, port) == port \in Ports /\ Kind[host] = "public"

-----------------------------------------------------------------------------
(* Text: what makes a line readable for each layout, and the label it gives *)

Candidate(entry, protocol) == [host |-> entry.host, port |-> entry.port, protocol |-> protocol]

\* A label the source does not vouch for is not taken over.
Trusted(source, protocol) == IF source.trust THEN protocol ELSE None

\* A line that is no comment, with a public address.
Accepted(l) == ~l.comment /\ Valid(l.host, l.port)

\* `socks5://user:pw@1.2.3.4:1080/`
Prefixed(source, lines) ==
    {Candidate(l, Trusted(source, Normalized(l.scheme))) :
        l \in {x \in Range(lines) :
                 Accepted(x) /\ Normalized(x.scheme) # None /\ x.tail \in {"", "/"}}}

Bare(l) == l.scheme = None /\ ~l.user

\* `1.2.3.4:8080`, and fields after a blank.
Plain(source, lines) ==
    {Candidate(l, Trusted(source, source.hint)) :
        l \in {x \in Range(lines) : Accepted(x) /\ Bare(x) /\ x.tail \in {"", " fields"}}}

\* `1.2.3.4:8080:Country`
Hideip(source, lines) ==
    {Candidate(l, Trusted(source, source.hint)) :
        l \in {x \in Range(lines) : Accepted(x) /\ Bare(x) /\ x.tail \in {"", ":country"}}}

\* Mutant: the scheme found last goes on to hold.
FoundStill(lines, k) ==
    IF lines[k].scheme # None THEN lines[k].scheme
    ELSE IF k = 1 THEN None ELSE lines[k - 1].scheme

\* The scheme that _ANY_HOST_PORT finds before the k-th address.  A line break
\* is one of the separators it allows in between, so a line without a scheme
\* takes the protocol named at the end of the line before it.
Found(lines, k) ==
    IF lines[k].user THEN None
    ELSE IF lines[k].scheme # None THEN lines[k].scheme
    ELSE IF k = 1 \/ lines[k].comment THEN None
    ELSE lines[k - 1].label

-----------------------------------------------------------------------------
(* JSON *)

Scanned(source, name) ==
    IF source.trust /\ Normalized(name) # None THEN Normalized(name)
                                               ELSE Trusted(source, source.hint)

FirstName(object) ==
    IF object.protocols = <<>> \/ Head(object.protocols) = NotAString
    THEN None ELSE Head(object.protocols)

Walked(body) == {o \in body.objects : o.port # NotANumber}

\* parse_scan: the objects if there are any, the text only if there are none.
\* An address has two digits of port at least, and a comment is text as well.
Scan(source, body) ==
    IF Walked(body) # {}
    THEN {Candidate(o, Scanned(source, FirstName(o))) :
            o \in {w \in Walked(body) : Valid(w.host, w.port)}}
    ELSE {Candidate(body.lines[k], Scanned(source, Found(body.lines, k))) :
            k \in {j \in DOMAIN body.lines :
                     Valid(body.lines[j].host, body.lines[j].port) /\ body.lines[j].port > 9}}

\* The protocols an object names, else the hint; none of both, and it is dropped.
Offered(source, object) ==
    LET named == {Normalized(object.protocols[k]) : k \in DOMAIN object.protocols} \ {None}
    IN IF named # {} THEN named ELSE {source.hint} \ {None}

Geonode(source, body) ==
    UNION {{Candidate(o, Trusted(source, p)) : p \in Offered(source, o)} :
             o \in {w \in body.objects : Valid(w.host, w.port)}}

-----------------------------------------------------------------------------
(* parse *)

\* json.loads raises a plain ValueError on a number too long for int, and
\* parse_geonode calls `strip` on what is not a string.
Raises(source, body) ==
    \/ source.parser \in {"scan", "geonode"} /\ body.endless
    \/ /\ source.parser = "geonode"
       /\ \E o \in body.objects :
             Valid(o.host, o.port) /\ \E k \in DOMAIN o.protocols : o.protocols[k] = NotAString

Parse(source, body) ==
    CASE source.parser = "prefixed" -> Prefixed(source, body.lines)
      [] source.parser = "plain"    -> Plain(source, body.lines)
      [] source.parser = "hideip"   -> Hideip(source, body.lines)
      [] source.parser = "scan"     -> Scan(source, body)
      [] source.parser = "geonode"  -> Geonode(source, body)

-----------------------------------------------------------------------------
(* What a list says, whatever its layout and its parser: the reference.     *)

Listed(body) ==
    {[host |-> body.lines[k].host, port |-> body.lines[k].port,
      names |-> {body.lines[k].scheme, body.lines[k].label}] :
        k \in {j \in DOMAIN body.lines : ~body.lines[j].comment}}
    \cup {[host |-> o.host, port |-> o.port,
           names |-> {o.protocols[k] : k \in DOMAIN o.protocols}] : o \in body.objects}

Reachable(entry) == entry.port \in Ports /\ Kind[entry.host] = "public"

\* parse_scan's docstring, "regardless of what surrounds it": an address that one
\* of the line parsers reads is read by scan as well, under the same label, or under
\* the source's hint where credentials hide the scheme; only one-digit ports are lost.
\* With labels at the end of lines, it may come with that of the line before.
ScanCovers(source, text) ==
    \A c \in Prefixed(source, text) \cup Plain(source, text) \cup Hideip(source, text) :
        c.port > 9 =>
            \E d \in Scan(source, [lines |-> text, objects |-> {}, endless |-> FALSE]) :
                /\ d.host = c.host /\ d.port = c.port
                /\ d.protocol \in {c.protocol, Trusted(source, source.hint)}

=============================================================================
