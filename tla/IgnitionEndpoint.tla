--------------------------- MODULE IgnitionEndpoint ---------------------------
(***************************************************************************)
(* How the ignition endpoint's URL of an AgentCluster is rewritten on its  *)
(* way to the AgentClusterInstall (controllers/ignition_endpoint.go).      *)
(*                                                                         *)
(* A URL is the sequence of its tokens: separators, and words that differ  *)
(* in what they may stand for.                                             *)
(***************************************************************************)
EXTENDS Integers, FiniteSets, SequencesExt

CONSTANTS
  MaxColonForm,   \* bound: tokens of a host and port without brackets
  MaxBracketed    \* bound: tokens between brackets

ASSUME BoundTypes == MaxColonForm \in Nat /\ MaxBracketed \in Nat

VARIABLES
  raw,   \* AgentCluster.Spec.IgnitionEndpoint.Url
  url,   \* what has become of it
  pc     \* "given", "normalized", or "stored" in the AgentClusterInstall

vars == <<raw, url, pc>>

-----------------------------------------------------------------------------
(* Tokens *)

Numbers == {"14", "31187"}       \* may be a port
Groups == {"14", "fd2e"}         \* may be a group of an IPv6 address
Names == {"host", "fd2e", "https"}   \* begin with a letter
Words == Numbers \union Groups \union {"host"}

Index(u, t) == SelectInSeq(u, LAMBDA x : x = t)
LastIndex(u, t) == SelectLastInSeq(u, LAMBDA x : x = t)
Before(u, i) == SubSeq(u, 1, i - 1)
From(u, i) == SubSeq(u, i, Len(u))

-----------------------------------------------------------------------------
(* net and net/url of Go 1.26 *)

\* net.ParseIP accepts h, and h is an IPv6 address: eight groups, or fewer and
\* one "::".
IsLiteral(h) ==
  LET colons == {i \in DOMAIN h : h[i] = ":"}
      ellipses == {i \in colons : i + 1 \in colons}
      groups == DOMAIN h \ colons
  IN /\ \A i \in groups : h[i] \in Groups /\ i + 1 \notin groups
     /\ 1 \in colons => 1 \in ellipses
     /\ Len(h) \in colons => Len(h) - 1 \in ellipses
     /\ \/ ellipses = {} /\ Cardinality(groups) = 8
        \/ Cardinality(ellipses) = 1 /\ Cardinality(groups) < 8

ValidOptionalPort(p) == p = <<>> \/ p = <<":">> \/ \E n \in Numbers : p = <<":", n>>

\* Brackets hold an IPv6 address; elsewhere the first colon begins the port.
ValidHost(h) ==
  LET close == LastIndex(h, "]")
      colon == Index(h, ":")
  IN IF h # <<>> /\ h[1] = "["
       THEN /\ close > 0 /\ IsLiteral(SubSeq(h, 2, close - 1))
            /\ ValidOptionalPort(From(h, close + 1))
       ELSE colon = 0 \/ ValidOptionalPort(From(h, colon))

\* url.Parse: the query is cut off first, what precedes ":" is the scheme, and a
\* URL without one has no colon in its first segment.
Parse(u) ==
  LET q == Index(u, "?")
      body == IF q = 0 THEN u ELSE Before(u, q)
      rest == From(body, 3)
      slash == Index(rest, "/")
      segment == IF Index(body, "/") = 0 THEN body ELSE Before(body, Index(body, "/"))
      parts == [ok |-> TRUE, scheme |-> <<>>, opaque |-> <<>>, host |-> <<>>,
                path |-> <<>>, query |-> IF q = 0 THEN <<>> ELSE From(u, q)]
      follows(t) == Len(body) > 1 /\ body[1] \in Names /\ body[2] = t
  IN CASE follows("://") ->
            LET h == IF slash = 0 THEN rest ELSE Before(rest, slash) IN
            [parts EXCEPT !.ok = ValidHost(h), !.scheme = <<body[1]>>, !.host = h,
                          !.path = IF slash = 0 THEN <<>> ELSE From(rest, slash)]
       [] follows(":") /\ slash = 1 ->
            [parts EXCEPT !.scheme = <<body[1]>>, !.path = rest]
       [] follows(":") /\ slash # 1 ->
            [parts EXCEPT !.scheme = <<body[1]>>, !.opaque = rest]
       [] OTHER ->
            [parts EXCEPT !.ok = {":", "://"} \intersect ToSet(segment) = {},
                          !.path = body]

\* URL.String of a URL with a scheme, and with a path only if it has a host.
String(p) ==
  p.scheme \o (IF p.host # <<>> THEN <<"://">> ELSE <<":">>)
    \o p.opaque \o p.host \o p.path \o p.query

JoinHostPort(h, p) == <<"[">> \o h \o <<"]", ":">> \o p

-----------------------------------------------------------------------------
(* controllers/ignition_endpoint.go *)

\* Where the port begins: the last colon of host and port.
FirstColon(hostport) == Index(hostport, ":")
PortColon(hostport) == LastIndex(hostport, ":")

\* Is this the host of a URL to be rewritten?
HostNeedsBrackets(host) == ":" \in ToSet(host) /\ IsLiteral(host)

\* The URL with brackets: what follows the host is put back.
PathForgotten(scheme, host, port, path) == scheme \o JoinHostPort(host, port)
Rewritten(scheme, host, port, path) == scheme \o JoinHostPort(host, port) \o path

NormalizeHTTPURL(u) ==
  LET sep == Index(u, "://")
      rest == From(u, sep + 1)
      slash == Index(rest, "/")
      hostport == IF slash = 0 THEN rest ELSE Before(rest, slash)
      path == IF slash = 0 THEN <<>> ELSE From(rest, slash)
      colon == PortColon(hostport)
      host == Before(hostport, colon)
      port == From(hostport, colon + 1)
  IN IF \/ u = <<>> \/ Parse(u).ok \/ sep = 0
        \/ (hostport # <<>> /\ hostport[1] = "[")
        \/ colon = 0 \/ port = <<>> \/ ~HostNeedsBrackets(host)
       THEN u
       ELSE Rewritten(SubSeq(u, 1, sep), host, port, path)

\* The parts of the URL that the AgentClusterInstall is to have.
LastSegmentStripped(p) == [p EXCEPT !.path = Before(@, LastIndex(@, "/"))]
AllStripped(p) == [p EXCEPT !.path = <<>>, !.query = <<>>]
Stripped(p) == [p EXCEPT !.path = <<>>]

IgnitionEndpointURLForACI(u) ==
  LET normalized == NormalizeHTTPURL(u)
      parsed == Parse(normalized)
  IN IF ~parsed.ok \/ parsed.scheme = <<>> THEN normalized ELSE String(Stripped(parsed))

-----------------------------------------------------------------------------
(* URLs to be rewritten: all that the bounds allow, addresses of seven to nine *)
(* groups, with and without a port, and some with an IPv4 address.             *)

\* Two words in a row would be one.
Separated(s) == \A i \in 1..Len(s) - 1 : s[i] = ":" \/ s[i + 1] = ":"

ColonForms(n) == {s \in SeqOf(Words \union {":"}, n) : Separated(s)}

FullLength(k) == [i \in 1..2 * k - 1 |-> IF i % 2 = 1 THEN "14" ELSE ":"]

Ports == {<<>>, <<":">>, <<":", "14">>, <<":", "31187">>, <<":", "fd2e">>}

HostPorts ==
  ColonForms(MaxColonForm)
  \union {FullLength(k) \o p : k \in 7..9, p \in Ports}
  \union {<<"[">> \o h \o <<"]">> \o p : h \in ColonForms(MaxBracketed), p \in Ports}
  \union {<<"1.2.3.4">> \o p : p \in Ports}

Tails ==
  {<<>>, <<"/">>, <<"/", "ignition">>, <<"/", "ignition", "/", "config">>,
   <<"?", "query">>, <<"/", "ignition", "?", "query">>,
   <<"?", "query", ":", "14">>, <<"/", "ignition", "?", "query", ":", "14">>}

Init ==
  /\ \E scheme \in {<<>>, <<"://">>, <<"https", "://">>}, h \in HostPorts, t \in Tails :
       raw = scheme \o h \o t
  /\ url = raw
  /\ pc = "given"

\* Both halves of what createAgentClusterInstall makes of the URL.
Normalize ==
  /\ pc = "given"
  /\ url' = NormalizeHTTPURL(url)
  /\ pc' = "normalized"
  /\ UNCHANGED raw

Store ==
  /\ pc = "normalized"
  /\ url' = IgnitionEndpointURLForACI(raw)
  /\ pc' = "stored"
  /\ UNCHANGED raw

Next == Normalize \/ Store

Spec == Init /\ [][Next]_vars

-----------------------------------------------------------------------------
(* Properties *)

\* An IPv6 address and a port written without brackets, with whatever follows,
\* become a URL net/url can read, and it reads that very address and that very
\* port out of it.  Which of the colons begins the port is for the code to find: it
\* takes the last one before a slash, so that a query that has one must come after
\* a path.
LiteralEndpointKept ==
  pc = "stored" =>
    \A i \in DOMAIN raw : \A n \in Numbers :
      LET address == SubSeq(raw, 3, i - 1)
          tail == From(raw, i + 2)
      IN /\ i > 3 /\ i < Len(raw) /\ raw[1] \in Names /\ raw[2] = "://"
         /\ IsLiteral(address) /\ raw[i] = ":" /\ raw[i + 1] = n
         /\ tail = <<>> \/ tail[1] \in {"/", "?"}
         /\ \A k \in DOMAIN tail : tail[k] = ":" => \E l \in 1..k - 1 : tail[l] = "/"
         => /\ Parse(url).ok
            /\ Parse(url).scheme = <<raw[1]>>
            /\ Parse(url).host = <<"[">> \o address \o <<"]", ":", n>>
            /\ Parse(url).query = Parse(<<"host">> \o tail).query

\* A URL that net/url can read as it is leads to the same place afterwards, with
\* its query, wherever in the URL there may be colons, slashes and brackets.
ReadableEndpointKept ==
  pc = "stored" /\ Parse(raw).ok =>
    LET before == Parse(raw)
        after == Parse(url)
    IN /\ after.ok
       /\ after.scheme = before.scheme
       /\ after.opaque = before.opaque
       /\ after.host = before.host
       /\ after.query = before.query

\* A URL that cannot be read and can be afterwards had an IPv6 address and a colon
\* where the host is, and reads afterwards as it does with a host name in place of
\* the address: scheme, port and query are the ones written there.  What cannot be
\* read for any other reason stays unreadable, for the service behind the
\* AgentClusterInstall to complain about.  The last group of an address without a
\* port counts as the port if it is a number: nothing tells the two apart.
OnlyLiteralsBecomeReadable ==
  pc = "stored" /\ ~Parse(raw).ok /\ Parse(url).ok =>
    \E i \in DOMAIN raw :
      LET address == SubSeq(raw, 3, i - 1)
          named == Parse(<<raw[1], "://", "host">> \o From(raw, i))
      IN /\ raw[2] = "://" /\ IsLiteral(address) /\ raw[i] = ":" /\ named.ok
         /\ Parse(url).scheme = named.scheme
         /\ Parse(url).host = <<"[">> \o address \o <<"]">> \o Tail(named.host)
         /\ Parse(url).query = named.query

\* The URL in the AgentClusterInstall is final: to prepare it a second time, as
\* it would be if it were read back, changes nothing.
StoredForGood == pc = "stored" => IgnitionEndpointURLForACI(url) = url

=============================================================================
