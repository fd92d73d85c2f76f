--------------------------- MODULE RequestParser ---------------------------
(***************************************************************************)
(* The HTTP request parser of src/Server/RequestParser.cpp: consume() is  *)
(* a state machine fed one character at a time; it returns false on a    *)
(* character its state does not allow, true on the final newline, and    *)
(* indeterminate otherwise. A header is applied to the request (and to    *)
(* the compression type) when the parser enters header_line_start again, *)
(* that is, when the line after it starts. Reset() returns the parser to  *)
(* method_start for the next request on the same parser.                  *)
(*                                                                         *)
(* Characters are symbols. Besides single characters ("SP" for ' ', "CR", *)
(* "LF", "TAB", "H", "T", "P", "/", ".", ":", ",", "0" for a digit, "a"   *)
(* for another token character, "HIGH" for a byte above 127, which is     *)
(* negative as a char), a symbol may be a word: a run of token characters *)
(* such as "Accept-Encoding" or "gzip", which every state that accepts a  *)
(* token character takes as a whole. Strings are sequences of symbols.   *)
(* The states uri_start and header_lws have cases in consume() but no     *)
(* transition leads to them; they are left out.                            *)
(***************************************************************************)
EXTENDS Naturals, Sequences, SequencesExt

CONSTANTS
    Connections   \* the inputs: sequences of requests sent on one parser

VARIABLES
    pending,      \* requests still to come on this parser
    input,        \* the current request: [chars, headers, valid]
    pos,          \* the next character to consume
    state_,       \* RequestParser::state_
    header,       \* RequestParser::header: [name, value]
    req,          \* the Request being filled: [uri, referrer, agent]
    compressionType,
    result        \* the tribool consume returned last: "true", "false" or "indeterminate"

vars == <<pending, input, pos, state_, header, req, compressionType, result>>

\* isChar, isCTL, isTSpecial, isDigit on the symbols.
HighChars == {"HIGH"}
CtlChars == {"CR", "LF", "TAB"}
TSpecialChars == {"SP", "TAB", "/", ":", ","}
isChar(c) == c \notin HighChars
isCTL(c) == c \in CtlChars
isTSpecial(c) == c \in TSpecialChars
isDigit(c) == c = "0"

\* A character no token may contain (method, header name).
NotToken(c) == ~isChar(c) \/ isCTL(c) \/ isTSpecial(c)

States == {"method_start", "method", "uri", "http_version_h", "http_version_t_1",
           "http_version_t_2", "http_version_p", "http_version_slash",
           "http_version_major_start", "http_version_major",
           "http_version_minor_start", "http_version_minor",
           "expecting_newline_1", "header_line_start", "header_name",
           "space_before_header_value", "header_value", "expecting_newline_2",
           "expecting_newline_3"}

Compressions == {"noCompression", "gzipRFC1952", "deflateRFC1951"}

chars == input.chars

EmptyHeader == [name |-> <<>>, value |-> <<>>]
EmptyRequest == [uri |-> <<>>, referrer |-> <<>>, agent |-> <<>>]

TypeOK ==
    /\ state_ \in States
    /\ pos \in 1..(Len(chars) + 1)
    /\ result \in {"true", "false", "indeterminate"}
    /\ compressionType \in Compressions
    /\ header.name \in Seq(STRING) /\ header.value \in Seq(STRING)
    /\ req.uri \in Seq(STRING) /\ req.referrer \in Seq(STRING) /\ req.agent \in Seq(STRING)

\* A connection starts with a new parser (state_ = method_start, an empty
\* header), a new Request and the caller's noCompression.
Init ==
    \E conn \in Connections :
        /\ input = Head(conn)
        /\ pending = Tail(conn)
        /\ pos = 1
        /\ state_ = "method_start"
        /\ header = EmptyHeader
        /\ req = EmptyRequest
        /\ compressionType = "noCompression"
        /\ result = "indeterminate"

----------------------------------------------------------------------------
(* consume(req, input, compressionType), one action per case.             *)

c == chars[pos]

\* Every case reads one character while Parse is still looping.
Reading(s) ==
    /\ result = "indeterminate"
    /\ pos <= Len(chars)
    /\ state_ = s
    /\ pos' = pos + 1
    /\ UNCHANGED <<pending, input>>

\* return boost::indeterminate, in state s next.
Go(s) == state_' = s /\ result' = "indeterminate"

\* return false.
Fail == result' = "false" /\ UNCHANGED state_

MethodStart ==
    /\ Reading("method_start")
    /\ IF NotToken(c) THEN Fail ELSE Go("method")
    /\ UNCHANGED <<header, req, compressionType>>

Method ==
    /\ Reading("method")
    /\ CASE c = "SP"     -> Go("uri")
         [] NotToken(c)  -> Fail
         [] OTHER        -> Go("method")
    /\ UNCHANGED <<header, req, compressionType>>

Uri ==
    /\ Reading("uri")
    /\ \/ c = "SP" /\ Go("http_version_h") /\ UNCHANGED req
       \/ c # "SP" /\ isCTL(c) /\ Fail /\ UNCHANGED req
       \/ c # "SP" /\ ~isCTL(c) /\ Go("uri") /\ req' = [req EXCEPT !.uri = Append(@, c)]
    /\ UNCHANGED <<header, compressionType>>

\* "HTTP/" one fixed character per state.
VersionText ==
    [http_version_h |-> <<"H", "http_version_t_1">>,
     http_version_t_1 |-> <<"T", "http_version_t_2">>,
     http_version_t_2 |-> <<"T", "http_version_p">>,
     http_version_p |-> <<"P", "http_version_slash">>,
     http_version_slash |-> <<"/", "http_version_major_start">>]

VersionChar ==
    \E s \in DOMAIN VersionText :
        /\ Reading(s)
        /\ IF c = VersionText[s][1] THEN Go(VersionText[s][2]) ELSE Fail
        /\ UNCHANGED <<header, req, compressionType>>

\* A digit must start the major and the minor number.
NumberStart ==
    \E s \in {"http_version_major_start", "http_version_minor_start"} :
        /\ Reading(s)
        /\ IF isDigit(c)
           THEN Go(IF s = "http_version_major_start" THEN "http_version_major"
                                                    ELSE "http_version_minor")
           ELSE Fail
        /\ UNCHANGED <<header, req, compressionType>>

\* A variant that takes a single digit for the major number.
VersionMajorSingleDigit ==
    /\ Reading("http_version_major")
    /\ IF c = "." THEN Go("http_version_minor_start") ELSE Fail
    /\ UNCHANGED <<header, req, compressionType>>

VersionMajor ==
    /\ Reading("http_version_major")
    /\ CASE c = "."      -> Go("http_version_minor_start")
         [] isDigit(c)   -> Go("http_version_major")
         [] OTHER        -> Fail
    /\ UNCHANGED <<header, req, compressionType>>

VersionMinor ==
    /\ Reading("http_version_minor")
    /\ CASE c = "CR"     -> Go("expecting_newline_1")
         [] isDigit(c)   -> Go("http_version_minor")
         [] OTHER        -> Fail
    /\ UNCHANGED <<header, req, compressionType>>

\* expecting_newline_1 and expecting_newline_2 both lead to a new line.
Newline ==
    \E s \in {"expecting_newline_1", "expecting_newline_2"} :
        /\ Reading(s)
        /\ IF c = "LF" THEN Go("header_line_start") ELSE Fail
        /\ UNCHANGED <<header, req, compressionType>>

\* The header read last is applied first: Accept-Encoding sets the
\* compression, deflate first and then gzip, so that gzip wins; Referer and
\* User-Agent are copied into the request. value.find(w) is a search for
\* the word w.
\* A variant that tests gzip first, so that deflate wins.
EncodingAfterDeflateLast(h, enc) ==
    CASE h.name # <<"Accept-Encoding">>   -> enc
      [] "deflate" \in ToSet(h.value)     -> "deflateRFC1951"
      [] "gzip" \in ToSet(h.value)        -> "gzipRFC1952"
      [] OTHER                            -> enc

EncodingAfter(h, enc) ==
    CASE h.name # <<"Accept-Encoding">>   -> enc
      [] "gzip" \in ToSet(h.value)        -> "gzipRFC1952"
      [] "deflate" \in ToSet(h.value)     -> "deflateRFC1951"
      [] OTHER                            -> enc

ApplyHeader ==
    /\ compressionType' = EncodingAfter(header, compressionType)
    /\ req' = [req EXCEPT
                 !.referrer = IF header.name = <<"Referer">> THEN header.value ELSE @,
                 !.agent = IF header.name = <<"User-Agent">> THEN header.value ELSE @]

HeaderLineStart ==
    /\ Reading("header_line_start")
    /\ ApplyHeader
    /\ CASE c = "CR"     -> Go("expecting_newline_3") /\ UNCHANGED header
         [] NotToken(c)  -> Fail /\ UNCHANGED header
         [] OTHER        -> Go("header_name") /\ header' = [name |-> <<c>>, value |-> <<>>]

HeaderName ==
    /\ Reading("header_name")
    /\ CASE c = ":"      -> Go("space_before_header_value") /\ UNCHANGED header
         [] NotToken(c)  -> Fail /\ UNCHANGED header
         [] OTHER        -> Go("header_name") /\ header' = [header EXCEPT !.name = Append(@, c)]
    /\ UNCHANGED <<req, compressionType>>

SpaceBeforeHeaderValue ==
    /\ Reading("space_before_header_value")
    /\ IF c = "SP" THEN Go("header_value") ELSE Fail
    /\ UNCHANGED <<header, req, compressionType>>

HeaderValue ==
    /\ Reading("header_value")
    /\ CASE c = "CR"     -> Go("expecting_newline_2") /\ UNCHANGED header
         [] isCTL(c)     -> Fail /\ UNCHANGED header
         [] OTHER        -> Go("header_value") /\ header' = [header EXCEPT !.value = Append(@, c)]
    /\ UNCHANGED <<req, compressionType>>

\* return (input == '\n'): true ends the request, false rejects it.
Newline3 ==
    /\ Reading("expecting_newline_3")
    /\ result' = IF c = "LF" THEN "true" ELSE "false"
    /\ UNCHANGED <<state_, header, req, compressionType>>

Consume ==
    \/ MethodStart \/ Method \/ Uri \/ VersionChar \/ NumberStart
    \/ VersionMajor \/ VersionMinor \/ Newline \/ HeaderLineStart
    \/ HeaderName \/ SpaceBeforeHeaderValue \/ HeaderValue \/ Newline3

\* The connection takes the next request on the same parser: Reset() sets
\* state_ to method_start and nothing else; the request and compression
\* type are new.
Reset ==
    /\ result # "indeterminate"
    /\ pending # <<>>
    /\ input' = Head(pending)
    /\ pending' = Tail(pending)
    /\ pos' = 1
    /\ state_' = "method_start"
    /\ req' = EmptyRequest
    /\ compressionType' = "noCompression"
    /\ result' = "indeterminate"
    /\ UNCHANGED header

Next == Consume \/ Reset

Spec == Init /\ [][Next]_vars

----------------------------------------------------------------------------
(* Properties, for requests whose headers are known.                       *)

\* The value of the last header called name, or the empty string.
LastValue(hs, name) ==
    LET named == SelectSeq(hs, LAMBDA h : h.name = <<name>>)
    IN  IF named = <<>> THEN <<>> ELSE Last(named).value

\* The last Accept-Encoding header that names gzip or deflate decides, and
\* gzip is preferred when it names both.
RequestedEncoding(hs) ==
    LET named == SelectSeq(hs, LAMBDA h : h.name = <<"Accept-Encoding">> /\
                                          {"gzip", "deflate"} \cap ToSet(h.value) # {})
    IN  CASE named = <<>>                     -> "noCompression"
          [] "gzip" \in ToSet(Last(named).value) -> "gzipRFC1952"
          [] OTHER                             -> "deflateRFC1951"

\* Every well-formed request is taken in full: consume never rejects one
\* of its characters and returns true on its last one, not before.
AcceptsWellFormed ==
    input.valid =>
        /\ result # "false"
        /\ result = "true" <=> pos = Len(chars) + 1

\* When a request is accepted, the request carries the value of its last
\* Referer and User-Agent header, and the compression type is set by its
\* Accept-Encoding headers, a later one overriding an earlier one and gzip
\* preferred to deflate within one, even though each header is applied
\* only when the line after it starts.
HeadersReachRequest ==
    (input.valid /\ result = "true") =>
        /\ req.referrer = LastValue(input.headers, "Referer")
        /\ req.agent = LastValue(input.headers, "User-Agent")
        /\ compressionType = RequestedEncoding(input.headers)
=============================================================================
