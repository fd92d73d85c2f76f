-------------------------- MODULE MCRequestParser ---------------------------
(***************************************************************************)
(* Requests for RequestParser: every combination of up to two headers out *)
(* of six (Accept-Encoding with gzip, deflate or both, Referer, two       *)
(* User-Agents) with an empty or a non-empty URI and a one- or two-digit  *)
(* version; and, for the requests with at most one header, every variant  *)
(* with one character replaced by one of the character classes, whose    *)
(* validity is left to the parser.                                        *)
(***************************************************************************)
EXTENDS RequestParser

CRLF == <<"CR", "LF">>

Hdr(name, value) == [name |-> <<name>>, value |-> value]

HeaderChoices ==
    { Hdr("Accept-Encoding", <<"gzip">>), Hdr("Accept-Encoding", <<"deflate">>),
      Hdr("Accept-Encoding", <<"deflate", ",", "SP", "gzip">>),
      Hdr("Referer", <<"a", "/">>), Hdr("User-Agent", <<"a">>),
      Hdr("User-Agent", <<"HIGH", "0">>) }

HeaderLists(n) == UNION {[1..k -> HeaderChoices] : k \in 0..n}

HeaderText(h) == h.name \o <<":", "SP">> \o h.value \o CRLF

RequestText(uri, version, hs) ==
    <<"a", "SP">> \o uri \o <<"SP", "H", "T", "T", "P", "/">> \o version \o CRLF
        \o FoldLeft(LAMBDA acc, h : acc \o HeaderText(h), <<>>, hs) \o CRLF

Uris == {<<>>, <<"a", "/", "HIGH">>}
Versions == {<<"0", ".", "0">>, <<"0", "0", ".", "0", "0">>}

WellFormed(n) ==
    { [chars |-> RequestText(u, v, hs), headers |-> hs, valid |-> TRUE] :
        u \in Uris, v \in Versions, hs \in HeaderLists(n) }

Replacements == {"SP", "CR", "LF", "TAB", "HIGH", ":", "a", "0"}

Corrupted ==
    { [chars |-> [r.chars EXCEPT ![i] = x], headers |-> <<>>, valid |-> FALSE] :
        r \in WellFormed(1), x \in Replacements, i \in 1..20 }

\* One request per connection.
SingleRequests == { <<r>> : r \in WellFormed(2) \cup Corrupted }

\* A request with one header, then on the same parser a request with none.
ReusedParser ==
    { <<r1, r2>> : r1 \in {r \in WellFormed(1) : Len(r.headers) = 1},
                   r2 \in {r \in WellFormed(0) : TRUE} }

\* A request with no headers, then on the same parser a request with up to
\* one.
ReusedAfterBare ==
    { <<r1, r2>> : r1 \in WellFormed(0), r2 \in WellFormed(1) }

\* One request per connection, and parsers reused after a bare request.
AllConnections == SingleRequests \cup ReusedAfterBare

=============================================================================
