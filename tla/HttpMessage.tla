---------------------------- MODULE HttpMessage ----------------------------
(***************************************************************************)
(* HttpRequest, HttpResponse and HttpRequestParser: a message as an        *)
(* object, as text, and the callbacks that turn the text into an object.   *)
(* Texts are sequences of the symbols of http_parser.                      *)
(***************************************************************************)
EXTENDS http_parser_url

Digit(n) == CHOOSE c \in DOMAIN Value : Value[c] = n
Crlf == <<CR, LF>>
Letter == [m \in {"GET", "POST", "CONNECT", "HEAD", "TRACE"} |->
              CHOOSE c \in DOMAIN MethodOf : MethodOf[c] = m]

httpMethodToString(m) == <<Letter[m], "rest">>

(* A version is (major << 4) | minor, and is written as two numbers.       *)
VersionText(v) ==
    <<"H", "T", "T", "P", "/", Digit(v \div 16), ".", Digit(v % 16)>>

Connection == <<"C", "o", "n", "n", "ection">>
ContentLength == <<"C", "o", "n", "T", "ent-length">>
ConnectionValue(close) == IF close THEN <<"C", "lose">> ELSE <<"K", "eep-alive">>
Line(key, value) == key \o <<":", SP>> \o value \o Crlf

-----------------------------------------------------------------------------
(* Requests *)

HttpRequest ==
    [method |-> "GET", version |-> 17, close |-> FALSE, path |-> <<"/">>,
     query |-> <<>>, fragment |-> <<>>, headers |-> <<>>, body |-> <<>>]

(* The headers are a function from keys to values.                         *)
setHeader(r, key, value) == [r EXCEPT !.headers = key :> value @@ @]

HeaderLines(headers) ==
    FlattenSeq([i \in DOMAIN SetToSeq(DOMAIN headers) |->
        Line(SetToSeq(DOMAIN headers)[i], headers[SetToSeq(DOMAIN headers)[i]])])

RequestDump(r) ==
    httpMethodToString(r.method) \o <<SP>> \o r.path
    \o (IF r.query = <<>> THEN <<>> ELSE <<"?">> \o r.query)
    \o (IF r.fragment = <<>> THEN <<>> ELSE <<"#">> \o r.fragment)
    \o <<SP>> \o VersionText(r.version) \o Crlf
    \o Line(Connection, ConnectionValue(r.close))
    \o HeaderLines(r.headers)
    \o (IF r.body = <<>> \/ ContentLength \in DOMAIN r.headers THEN <<>>
        ELSE Line(ContentLength, <<Digit(Len(r.body))>>))
    \o Crlf \o r.body

-----------------------------------------------------------------------------
(* Responses *)

HttpResponse(version, close) ==
    [status |-> <<"2", "0", "0">>, version |-> version, close |-> close,
     headers |-> <<>>, body |-> <<>>]

(* Fault: nothing says how long the body is.                               *)
DumpWithoutLength(r) ==
    VersionText(r.version) \o <<SP>> \o r.status \o <<SP, "o", "K">> \o Crlf
    \o Line(Connection, ConnectionValue(r.close)) \o Crlf \o r.body

ResponseDump(r) ==
    VersionText(r.version) \o <<SP>> \o r.status \o <<SP, "o", "K">> \o Crlf
    \o (IF Connection \in DOMAIN r.headers THEN <<>>
        ELSE Line(Connection, ConnectionValue(r.close)))
    \o HeaderLines(r.headers)
    \o (IF r.body = <<>> THEN <<>> ELSE Line(ContentLength, <<Digit(Len(r.body))>>))
    \o Crlf \o r.body

-----------------------------------------------------------------------------
(* HttpRequestParser *)

HttpRequestParser ==
    [parser |-> http_parser_init("REQUEST"), data |-> HttpRequest,
     finished |-> FALSE, field |-> <<>>]

(* on_url takes what it is given for a whole URL, without CONNECT.         *)
UrlRefused(text) == http_parser_parse_url(text, FALSE).rc # 0

on_url(rp, text) ==
    LET u == http_parser_parse_url(text, FALSE)
    IN  IF u.rc # 0 THEN rp
        ELSE [rp EXCEPT
                !.data.path = IF "PATH" \in u.set THEN Slice(text, u, "PATH") ELSE @,
                !.data.query = IF "QUERY" \in u.set THEN Slice(text, u, "QUERY") ELSE @,
                !.data.fragment = IF "FRAGMENT" \in u.set
                                  THEN Slice(text, u, "FRAGMENT") ELSE @]

(* The callback "on" with its text.                                        *)
Deliver(rp, on, text) ==
    CASE on = "url" -> on_url(rp, text)
      [] on = "header_field" -> [rp EXCEPT !.field = text]
      [] on = "header_value" -> [rp EXCEPT !.data = setHeader(@, rp.field, text)]
      [] on = "body" -> [rp EXCEPT !.data.body = text]
      [] on = "headers_complete" ->
            [rp EXCEPT !.data.version = rp.parser.major * 16 + rp.parser.minor,
                       !.data.method = rp.parser.method]
      [] on = "message_complete" -> [rp EXCEPT !.finished = TRUE]
      [] OTHER -> rp      \* message_begin, status, chunk_header, chunk_complete

(* The text of a callback that is made at byte i of the buffer.            *)
TextOf(e, buf, i) == SubSeq(buf, i - e.len + e.more, i - 1 + e.more)

(* The callback that fails at byte i, if ps is the parser behind it.       *)
Failing(ps, buf, i) ==
    IF \E j \in DOMAIN ps.out : ps.out[j].on = "url" /\ UrlRefused(TextOf(ps.out[j], buf, i))
    THEN "url" ELSE "none"

(* rp when its parser has become ps at byte i.                             *)
CalledBack(rp, ps, buf, i) ==
    FoldLeft(LAMBDA acc, e : Deliver(acc, e.on, TextOf(e, buf, i)),
             [rp EXCEPT !.parser = ps], ps.out)

(* "next" is what becomes of the parser at byte i, by the failing callback. *)
Outcome(rp, next, buf, i) ==
    CalledBack(rp, next[Failing(next["none"], buf, i)], buf, i)

ExecuteByte(rp, buf, i) ==
    IF Returned(rp.parser) THEN rp
    ELSE Outcome(rp, [f \in {"none", "url"} |-> Consume(rp.parser, buf[i], f)], buf, i)

ExecuteEnd(rp, buf) ==
    IF Returned(rp.parser) THEN rp
    ELSE Outcome(rp, [f \in {"none", "url"} |-> FinishCall(rp.parser, f)], buf,
                 Len(buf) + 1)

(* HttpRequestParser::execute(buf): one call of http_parser_execute.       *)
execute(rp, buf) ==
    LET read[i \in 0 .. Len(buf)] ==
            IF i = 0 THEN [rp EXCEPT !.parser = StartCall(@)]
            ELSE ExecuteByte(read[i - 1], buf, i)
    IN  ExecuteEnd(read[Len(buf)], buf)
=============================================================================
