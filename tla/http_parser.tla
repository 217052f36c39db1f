---------------------------- MODULE http_parser ----------------------------
(***************************************************************************)
(* The HTTP parser that HttpRequestParser and HttpResponseParser drive.    *)
(*                                                                         *)
(* http_parser_execute is a loop over the bytes of a buffer around a       *)
(* switch on the state.  Here one symbol goes through the loop at a time:  *)
(* Consume(ps, ch) is the body of the loop, and a call is StartCall, any   *)
(* number of symbols, FinishCall, so that a message may be cut into calls  *)
(* anywhere.  The parser is a record, and the operators are functions of   *)
(* it, so that HttpSession can run it over a buffer.                       *)
(*                                                                         *)
(* A symbol is a character, one letter for its class, or the rest of a     *)
(* word that the parser compares letter by letter ("lose" after "C").      *)
(* The build is the default one (HTTP_PARSER_STRICT), and the options that *)
(* http_parser_init clears (lenient, allow_chunked_length) stay cleared.   *)
(***************************************************************************)
EXTENDS Integers, Sequences, FiniteSets

CONSTANTS
    max_header_size,    \* HTTP_MAX_HEADER_SIZE
    MaxLength           \* ULLONG_MAX: content_length is not known

ASSUME ParserBounds ==
    /\ max_header_size \in Nat
    /\ MaxLength \in Nat /\ MaxLength >= 16

-----------------------------------------------------------------------------
(* Characters *)

CR == "CR"
LF == "LF"
SP == "SP"
TAB == "TAB"
CTL == "CTL"        \* NUL and the other control characters

IsEol(ch) == ch \in {CR, LF}
IsBlank(ch) == ch \in {SP, TAB}

(* The rest of the words that are matched through parser->index.           *)
Words == {"rest", "ource", "ection", "roxy-connection", "ent-length",
          "ransfer-encoding", "pgrade", "hunked", "eep-alive", "lose"}
Letters == {"H", "T", "P", "I", "C", "E", "G", "S", "U", "K",
            "o", "n", "f", "x"} \cup Words
Value == [c \in {"0", "1", "2"} |->
             CASE c = "0" -> 0 [] c = "1" -> 1 [] c = "2" -> 2]
Signs == {"/", ":", "?", "#", "@", ".", ",", ";", "*", "[", "]", "%"}
Alphabet == Letters \cup DOMAIN Value \cup Signs \cup {CR, LF, SP, TAB, CTL}

IS_ALPHA(ch) == ch \in Letters
IS_NUM(ch) == ch \in DOMAIN Value
TOKEN(ch) == ch \in Letters \cup DOMAIN Value \cup {"#", ".", "*", "%"}
IS_URL_CHAR(ch) == ch \in (Letters \cup DOMAIN Value \cup Signs) \ {"?", "#"}
IS_USERINFO_CHAR(ch) ==
    ch \in Letters \cup DOMAIN Value \cup {".", "*", ";", ":", ",", "%"}
IS_HOST_CHAR(ch) == ch \in Letters \cup DOMAIN Value \cup {"."}
IS_HEADER_CHAR(ch) == ch # CTL
Unhex == [c \in DOMAIN Value \cup {"C", "E", "f"} |->
             CASE c \in DOMAIN Value -> Value[c]
               [] c = "C" -> 12 [] c = "E" -> 14 [] c = "f" -> 15]

-----------------------------------------------------------------------------
(* The parser *)

UrlStates ==
    {"s_req_schema", "s_req_schema_slash", "s_req_schema_slash_slash",
     "s_req_server_start", "s_req_server", "s_req_server_with_at",
     "s_req_path", "s_req_query_string_start", "s_req_query_string",
     "s_req_fragment_start", "s_req_fragment"}

(* The states that are not counted as header, see PARSING_HEADER.          *)
BodyStates ==
    {"s_chunk_data", "s_chunk_data_almost_done", "s_chunk_data_done",
     "s_body_identity", "s_body_identity_eof", "s_message_done"}

States ==
    {"s_dead", "s_start_req_or_res", "s_res_or_resp_H", "s_start_res",
     "s_res_H", "s_res_HT", "s_res_HTT", "s_res_HTTP", "s_res_http_major",
     "s_res_http_dot", "s_res_http_minor", "s_res_http_end",
     "s_res_first_status_code", "s_res_status_code", "s_res_status_start",
     "s_res_status", "s_res_line_almost_done", "s_start_req",
     "s_req_method", "s_req_spaces_before_url", "s_req_http_start",
     "s_req_http_H", "s_req_http_HT", "s_req_http_HTT", "s_req_http_HTTP",
     "s_req_http_I", "s_req_http_IC", "s_req_http_major", "s_req_http_dot",
     "s_req_http_minor", "s_req_http_end", "s_req_line_almost_done",
     "s_header_field_start", "s_header_field", "s_header_value_discard_ws",
     "s_header_value_discard_ws_almost_done", "s_header_value_discard_lws",
     "s_header_value_start", "s_header_value", "s_header_value_lws",
     "s_header_almost_done", "s_chunk_size_start", "s_chunk_size",
     "s_chunk_parameters", "s_chunk_size_almost_done",
     "s_headers_almost_done", "s_headers_done"}
    \cup UrlStates \cup BodyStates

(* The items that are delivered as (pointer, length), possibly in parts.   *)
DataKinds == {"header_field", "header_value", "url", "body", "status"}
NoticeKinds == {"message_begin", "headers_complete", "message_complete",
                "chunk_header", "chunk_complete"}
NoMark == -1
NoMarks == [k \in DataKinds |-> NoMark]

(* http_parser_init.  "out" are the callbacks of the symbol that is being  *)
(* consumed, "fail" is the callback that returns nonzero in it, "index"    *)
(* says whether the method is complete, "run" is p - start inside the loops*)
(* over a header field and a header value, and "left" says that the call   *)
(* returned because another protocol follows.                              *)
http_parser_init(t) ==
    [type |-> t,
     state |-> CASE t = "REQUEST" -> "s_start_req"
                 [] t = "RESPONSE" -> "s_start_res"
                 [] OTHER -> "s_start_req_or_res",
     header_state |-> "h_general", flags |-> {}, te |-> FALSE,
     content_length |-> 0, method |-> "DELETE", index |-> 0, major |-> 0,
     minor |-> 0, status_code |-> 0, upgrade |-> FALSE, nread |-> 0,
     run |-> 0, errno |-> "OK", mark |-> NoMarks, out |-> <<>>, fail |-> "none",
     left |-> FALSE]

Ok(ps) == ps.errno = "OK"
SET_ERRNO(ps, e) == [ps EXCEPT !.errno = e]
UPDATE_STATE(ps, s) == [ps EXCEPT !.state = s]
Expect(ps, cond, e, s) == IF cond THEN UPDATE_STATE(ps, s) ELSE SET_ERRNO(ps, e)
Asserted(ps, cond) == IF cond THEN ps ELSE SET_ERRNO(ps, "ASSERT")
Flag(ps, f) == [ps EXCEPT !.flags = @ \cup {f}]

Called(ps, k, len, more) ==
    [ps EXCEPT !.out = Append(@, [on |-> k, len |-> len, more |-> more]),
               !.errno = IF ps.fail = k THEN "CB" ELSE @]

(* Fault: the last byte of a body is not delivered.                        *)
CallbackShort(ps, k, more) ==
    IF Ok(ps) /\ ps.mark[k] # NoMark
    THEN [Called(ps, k, ps.mark[k], more) EXCEPT !.mark[k] = NoMark]
    ELSE ps

CALLBACK_NOTIFY(ps, k) == IF Ok(ps) THEN Called(ps, k, 0, 0) ELSE ps

(* "more" is 1 when the current byte belongs to the item.                  *)
CALLBACK_DATA_(ps, k, more) ==
    IF Ok(ps) /\ ps.mark[k] # NoMark
    THEN [Called(ps, k, ps.mark[k] + more, more) EXCEPT !.mark[k] = NoMark]
    ELSE ps
CALLBACK_DATA(ps, k) == CALLBACK_DATA_(ps, k, 0)
MARK(ps, k) == IF ps.mark[k] = NoMark THEN [ps EXCEPT !.mark[k] = 0] ELSE ps

(* nread += n.                                                             *)
COUNT_HEADER_SIZE(ps, n) ==
    LET counted == [ps EXCEPT !.nread = @ + n]
    IN  IF counted.nread > max_header_size
        THEN SET_ERRNO(counted, "HEADER_OVERFLOW") ELSE counted

(* The states with a loop of their own over the bytes of the buffer.  It   *)
(* counts them when it ends, all at once, so that nread may pass the limit *)
(* by more than one.                                                       *)
LoopStates == {"s_header_field", "s_header_value"}

(* Leave the rest of the symbol to the next state, unless the call is over.*)
REEXECUTE(ps, Next(_)) == IF Ok(ps) THEN Next(ps) ELSE ps

-----------------------------------------------------------------------------
(* URLs *)

ServerChar(ch) ==
    CASE ch = "/" -> "s_req_path"
      [] ch = "?" -> "s_req_query_string_start"
      [] ch = "@" -> "s_req_server_with_at"
      [] IS_USERINFO_CHAR(ch) \/ ch \in {"[", "]"} -> "s_req_server"
      [] OTHER -> "s_dead"

QueryChar(ch) ==
    CASE IS_URL_CHAR(ch) \/ ch = "?" -> "s_req_query_string"
      [] ch = "#" -> "s_req_fragment_start"
      [] OTHER -> "s_dead"

(* The state after ch, s_dead when ch may not stand there.                 *)
parse_url_char(s, ch) ==
    CASE s = "s_req_spaces_before_url" ->
            (CASE ch \in {"/", "*"} -> "s_req_path"
               [] IS_ALPHA(ch) -> "s_req_schema"
               [] OTHER -> "s_dead")
      [] s = "s_req_schema" ->
            (CASE IS_ALPHA(ch) -> s
               [] ch = ":" -> "s_req_schema_slash"
               [] OTHER -> "s_dead")
      [] s = "s_req_schema_slash" /\ ch = "/" -> "s_req_schema_slash_slash"
      [] s = "s_req_schema_slash_slash" /\ ch = "/" -> "s_req_server_start"
      [] s = "s_req_server_with_at" /\ ch # "@" -> ServerChar(ch)
      [] s \in {"s_req_server_start", "s_req_server"} -> ServerChar(ch)
      [] s = "s_req_path" ->
            (CASE IS_URL_CHAR(ch) -> s
               [] ch = "?" -> "s_req_query_string_start"
               [] ch = "#" -> "s_req_fragment_start"
               [] OTHER -> "s_dead")
      [] s \in {"s_req_query_string_start", "s_req_query_string"} -> QueryChar(ch)
      [] s = "s_req_fragment_start" ->
            (CASE IS_URL_CHAR(ch) \/ ch = "?" -> "s_req_fragment"
               [] ch = "#" -> s
               [] OTHER -> "s_dead")
      [] s = "s_req_fragment" ->
            IF IS_URL_CHAR(ch) \/ ch \in {"?", "#"} THEN s ELSE "s_dead"
      [] OTHER -> "s_dead"

UrlStep(ps, s, ch) ==
    Expect(ps, parse_url_char(s, ch) # "s_dead", "INVALID_URL",
           parse_url_char(s, ch))

-----------------------------------------------------------------------------
(* The end of a message *)

http_message_needs_eof(ps) ==
    /\ ps.type # "REQUEST"
    /\ ps.status_code \div 100 # 1
    /\ ps.status_code \notin {204, 304}
    /\ "SKIPBODY" \notin ps.flags
    /\ \/ ps.te /\ "CHUNKED" \notin ps.flags
       \/ "CHUNKED" \notin ps.flags /\ ps.content_length = MaxLength

http_should_keep_alive(ps) ==
    /\ IF ps.major > 0 /\ ps.minor > 0
       THEN "CONNECTION_CLOSE" \notin ps.flags
       ELSE "CONNECTION_KEEP_ALIVE" \in ps.flags
    /\ ~http_message_needs_eof(ps)

NEW_MESSAGE(ps) ==
    IF ~http_should_keep_alive(ps) THEN "s_dead"
    ELSE IF ps.type = "REQUEST" THEN "s_start_req" ELSE "s_start_res"

(* s_message_done; also the messages without body.                         *)
MessageDone(ps) ==
    LET done == CALLBACK_NOTIFY(UPDATE_STATE(ps, NEW_MESSAGE(ps)),
                                "message_complete")
    IN  [done EXCEPT !.left = Ok(done) /\ ps.upgrade]

HasBody(ps) ==
    "CHUNKED" \in ps.flags \/ ps.content_length \notin {0, MaxLength}

(* Fault: the count goes on.                                               *)
KeepCount(ps) == ps

ResetCount(ps) == [ps EXCEPT !.nread = 0]

(* s_headers_done: what follows the header.                                *)
HeadersDone(ps) ==
    LET new == ResetCount(ps)
        complete == CALLBACK_NOTIFY(UPDATE_STATE(new, NEW_MESSAGE(new)),
                                    "message_complete")
        leaves == ps.upgrade /\ (\/ ps.method = "CONNECT"
                                 \/ "SKIPBODY" \in ps.flags
                                 \/ ~HasBody(ps))
    IN  IF leaves THEN [complete EXCEPT !.left = Ok(complete)]
        ELSE IF "SKIPBODY" \in ps.flags THEN complete
        ELSE IF "CHUNKED" \in ps.flags THEN UPDATE_STATE(new, "s_chunk_size_start")
        ELSE IF ps.te THEN
            Expect(new, ps.type # "REQUEST", "INVALID_TRANSFER_ENCODING",
                   "s_body_identity_eof")
        ELSE CASE ps.content_length = 0 -> complete
               [] ps.content_length \notin {0, MaxLength} ->
                     UPDATE_STATE(new, "s_body_identity")
               [] ps.content_length = MaxLength ->
                     IF http_message_needs_eof(ps)
                     THEN UPDATE_STATE(new, "s_body_identity_eof") ELSE complete

(* on_headers_complete may say that there is no body, or that another      *)
(* protocol follows.                                                       *)
HeadersComplete(ps) ==
    LET called == CALLBACK_NOTIFY(ps, "headers_complete")
    IN  CASE ps.fail = "no_body" -> Flag(called, "SKIPBODY")
          [] ps.fail = "upgrade" -> [Flag(called, "SKIPBODY") EXCEPT !.upgrade = TRUE]
          [] OTHER -> called

Upgrades(ps) ==
    IF {"UPGRADE", "CONNECTION_UPGRADE"} \subseteq ps.flags
    THEN ps.type = "REQUEST" \/ ps.status_code = 101
    ELSE ps.method = "CONNECT"

(* Fault: both are accepted.                                               *)
NeverBoth(ps) == FALSE

BothFramings(ps) == ps.te /\ "CONTENTLENGTH" \in ps.flags

HeadersAlmostDone(ps, ch) ==
    IF ch # LF THEN SET_ERRNO(ps, "STRICT")
    ELSE IF "TRAILING" \in ps.flags THEN
        REEXECUTE(CALLBACK_NOTIFY(UPDATE_STATE(ps, "s_message_done"),
                                  "chunk_complete"), MessageDone)
    ELSE IF BothFramings(ps) THEN SET_ERRNO(ps, "UNEXPECTED_CONTENT_LENGTH")
    ELSE REEXECUTE(HeadersComplete([UPDATE_STATE(ps, "s_headers_done")
                                       EXCEPT !.upgrade = Upgrades(ps)]),
                   HeadersDone)

-----------------------------------------------------------------------------
(* Header lines *)

(* What the first letter of a field may be the beginning of.               *)
FieldStart(ch) ==
    CASE ch = "C" -> "h_C"
      [] ch = "P" -> "h_matching_proxy_connection"
      [] ch = "T" -> "h_matching_transfer_encoding"
      [] ch = "U" -> "h_matching_upgrade"
      [] OTHER -> "h_general"

HeaderFieldStart(ps, ch) ==
    CASE ch = CR -> UPDATE_STATE(ps, "s_headers_almost_done")
      [] ch = LF ->
            HeadersAlmostDone(UPDATE_STATE(ps, "s_headers_almost_done"), ch)
      [] ~IsEol(ch) /\ ~TOKEN(ch) -> SET_ERRNO(ps, "INVALID_HEADER_TOKEN")
      [] OTHER -> [MARK(UPDATE_STATE(ps, "s_header_field"), "header_field")
                      EXCEPT !.header_state = FieldStart(ch)]

(* What continues a field name that may be special: symbol, new state.     *)
FieldWord ==
    [h_C |-> [o |-> "h_CO"],
     h_CO |-> [n |-> "h_CON"],
     h_CON |-> [n |-> "h_matching_connection", T |-> "h_matching_content_length"],
     h_matching_connection |-> [c \in {"ection"} |-> "h_connection"],
     h_matching_proxy_connection |-> [c \in {"roxy-connection"} |-> "h_connection"],
     h_matching_content_length |-> [c \in {"ent-length"} |-> "h_content_length"],
     h_matching_transfer_encoding |->
        [c \in {"ransfer-encoding"} |-> "h_transfer_encoding"],
     h_matching_upgrade |-> [c \in {"pgrade"} |-> "h_upgrade"]]

FieldChar(hs, ch) ==
    IF hs \in DOMAIN FieldWord /\ ch \in DOMAIN FieldWord[hs]
    THEN FieldWord[hs][ch] ELSE "h_general"

HeaderField(ps, ch) ==
    LET hs == FieldChar(ps.header_state, ch)
        counted == COUNT_HEADER_SIZE(ps, ps.run)
    IN  CASE TOKEN(ch) -> [ps EXCEPT !.header_state = hs,
                                     !.te = @ \/ hs = "h_transfer_encoding"]
          [] ~TOKEN(ch) /\ ~Ok(counted) -> counted
          [] ch = ":" /\ Ok(counted) ->
                CALLBACK_DATA(UPDATE_STATE(counted, "s_header_value_discard_ws"),
                              "header_field")
          [] OTHER -> SET_ERRNO(counted, "INVALID_HEADER_TOKEN")

ConnectionToken(ch) ==
    CASE ch = "K" -> "h_matching_connection_keep_alive"
      [] ch = "C" -> "h_matching_connection_close"
      [] ch = "U" -> "h_matching_connection_upgrade"
      [] OTHER -> "h_matching_connection_token"

EncodingToken(ch) ==
    IF ch = "C" THEN "h_matching_transfer_encoding_chunked"
    ELSE "h_matching_transfer_encoding_token"

(* s_header_value_start: the first character, also of a folded line.       *)
HeaderValueStart(ps, ch) ==
    LET hs == ps.header_state
        in == MARK(UPDATE_STATE(ps, "s_header_value"), "header_value")
        To(p, h) == [p EXCEPT !.header_state = h]
    IN  CASE hs = "h_upgrade" -> To(Flag(in, "UPGRADE"), "h_general")
          [] hs = "h_transfer_encoding" -> To(in, EncodingToken(ch))
          [] hs = "h_content_length" ->
                (CASE ~IS_NUM(ch) -> SET_ERRNO(in, "INVALID_CONTENT_LENGTH")
                   [] IS_NUM(ch) /\ "CONTENTLENGTH" \in ps.flags ->
                         SET_ERRNO(in, "UNEXPECTED_CONTENT_LENGTH")
                   [] OTHER -> To([Flag(in, "CONTENTLENGTH")
                                      EXCEPT !.content_length = Value[ch]],
                                  "h_content_length_num"))
          [] hs = "h_connection" -> To(in, ConnectionToken(ch))
          [] hs \in {"h_matching_transfer_encoding_token_start",
                     "h_matching_connection_token_start",
                     "h_content_length_ws"} -> in
          [] OTHER -> To(in, "h_general")

HeaderValueDiscardWs(ps, ch) ==
    CASE IsBlank(ch) -> ps
      [] ch = CR -> UPDATE_STATE(ps, "s_header_value_discard_ws_almost_done")
      [] ch = LF -> UPDATE_STATE(ps, "s_header_value_discard_lws")
      [] OTHER -> HeaderValueStart(ps, ch)

(* The rest of a value that means something, and what it then means.       *)
ValueWord ==
    [h_matching_transfer_encoding_chunked |->
        <<"hunked", "h_transfer_encoding_chunked">>,
     h_matching_connection_keep_alive |-> <<"eep-alive", "h_connection_keep_alive">>,
     h_matching_connection_close |-> <<"lose", "h_connection_close">>,
     h_matching_connection_upgrade |-> <<"pgrade", "h_connection_upgrade">>]

Meaning ==
    [h_connection_keep_alive |-> "CONNECTION_KEEP_ALIVE",
     h_connection_close |-> "CONNECTION_CLOSE",
     h_connection_upgrade |-> "CONNECTION_UPGRADE",
     h_transfer_encoding_chunked |-> "CHUNKED"]

TokenOf(hs) ==
    IF hs \in {"h_matching_transfer_encoding_chunked", "h_transfer_encoding_chunked"}
    THEN "h_matching_transfer_encoding_token" ELSE "h_matching_connection_token"

(* STRICT_TOKEN(LOWER(ch)).  LOWER sets a bit, which makes a token of "@"   *)
(* and a ")" of a tabulator, so that only blanks are skipped as intended.  *)
LowerToken(ch) == TOKEN(ch) \/ ch = "@"

(* The header_state after one more character of a list of tokens.          *)
ValueState(hs, ch) ==
    CASE hs \in {"h_matching_transfer_encoding_token_start",
                 "h_matching_connection_token_start"} ->
            (CASE LowerToken(ch) -> IF hs = "h_matching_connection_token_start"
                                    THEN ConnectionToken(ch) ELSE EncodingToken(ch)
               [] ch = SP -> hs
               [] OTHER -> "h_general")
      [] hs \in DOMAIN ValueWord ->
            IF ch = ValueWord[hs][1] THEN ValueWord[hs][2] ELSE TokenOf(hs)
      [] hs = "h_transfer_encoding_chunked" -> IF ch = SP THEN hs ELSE TokenOf(hs)
      [] hs \in DOMAIN Meaning \ {"h_transfer_encoding_chunked"} ->
            (CASE ch = "," -> "h_matching_connection_token_start"
               [] ch = SP -> hs
               [] OTHER -> TokenOf(hs))
      [] hs = "h_matching_transfer_encoding_token" ->
            IF ch = "," THEN "h_matching_transfer_encoding_token_start" ELSE hs
      [] hs = "h_matching_connection_token" ->
            IF ch = "," THEN "h_matching_connection_token_start" ELSE hs
      [] OTHER -> "h_general"

(* Fault: no test.                                                         *)
AddUnchecked(ps, base, digit) == [ps EXCEPT !.content_length = base * @ + digit]

(* One more digit, with the conservative test for overflow.                *)
AddDigit(ps, base, digit) ==
    IF (MaxLength - base) \div base < ps.content_length
    THEN SET_ERRNO(ps, "INVALID_CONTENT_LENGTH")
    ELSE [ps EXCEPT !.content_length = base * @ + digit]

ContentLengthChar(ps, ch) ==
    CASE ch = SP -> [ps EXCEPT !.header_state = "h_content_length_ws"]
      [] ps.header_state = "h_content_length_num" /\ IS_NUM(ch) ->
            AddDigit(ps, 10, Value[ch])
      [] OTHER -> SET_ERRNO(ps, "INVALID_CONTENT_LENGTH")

HeaderAlmostDone(ps, ch) ==
    Expect(ps, ch = LF, "LF_EXPECTED", "s_header_value_lws")

(* A character of the value.                                               *)
ValueChar(ps, ch) ==
    LET hs == ps.header_state
        read == [ps EXCEPT !.header_state = ValueState(hs, ch)]
    IN  CASE hs \in {"h_connection", "h_transfer_encoding"} -> Asserted(ps, FALSE)
          [] hs \in {"h_content_length_num", "h_content_length_ws"} ->
                ContentLengthChar(ps, ch)
          [] OTHER -> IF hs \in DOMAIN Meaning /\ ch = "," /\ Meaning[hs] # "CHUNKED"
                      THEN Flag(read, Meaning[hs]) ELSE read

(* A value that ends in CR is delivered before its bytes are counted.      *)
HeaderValue(ps, ch) ==
    LET over == UPDATE_STATE(ps, "s_header_almost_done")
        ended == CALLBACK_DATA(over, "header_value")
        counted == CALLBACK_DATA(COUNT_HEADER_SIZE(over, ps.run), "header_value")
    IN  CASE ch = CR -> IF Ok(ended) THEN COUNT_HEADER_SIZE(ended, ps.run) ELSE ended
          [] ch = LF -> IF Ok(counted) THEN HeaderAlmostDone(counted, ch) ELSE counted
          [] ~IS_HEADER_CHAR(ch) -> SET_ERRNO(ps, "INVALID_HEADER_TOKEN")
          [] OTHER -> ValueChar(ps, ch)

(* The value is over: what it meant becomes a flag.                        *)
Conclude(ps) ==
    IF ps.header_state \in DOMAIN Meaning
    THEN Flag(ps, Meaning[ps.header_state]) ELSE ps

HeaderValueLws(ps, ch) ==
    IF IsBlank(ch)
    THEN HeaderValueStart(
            [ps EXCEPT !.header_state = IF @ = "h_content_length_num"
                                        THEN "h_content_length_ws" ELSE @], ch)
    ELSE HeaderFieldStart(Conclude(ps), ch)

(* Fault: an empty value is not delivered.                                 *)
SkipEmpty(ps) == UPDATE_STATE(Conclude(ps), "s_header_field_start")

EmptyValue(ps) ==
    CALLBACK_DATA(UPDATE_STATE(MARK(Conclude(ps), "header_value"),
                               "s_header_field_start"), "header_value")

(* The line was empty: fold, or deliver an empty value.                    *)
HeaderValueDiscardLws(ps, ch) ==
    CASE IsBlank(ch) -> UPDATE_STATE(ps, "s_header_value_discard_ws")
      [] ~IsBlank(ch) /\ ps.header_state = "h_content_length" ->
            SET_ERRNO(ps, "INVALID_CONTENT_LENGTH")
      [] OTHER ->
            LET empty == EmptyValue(ps)
            IN  IF Ok(empty) THEN HeaderFieldStart(empty, ch) ELSE empty

-----------------------------------------------------------------------------
(* The first line *)

(* The states that expect one character: character, error, next state.     *)
Literal ==
    [s_res_H |-> <<"T", "STRICT", "s_res_HT">>,
     s_res_HT |-> <<"T", "STRICT", "s_res_HTT">>,
     s_res_HTT |-> <<"P", "STRICT", "s_res_HTTP">>,
     s_res_HTTP |-> <<"/", "STRICT", "s_res_http_major">>,
     s_res_http_dot |-> <<".", "INVALID_VERSION", "s_res_http_minor">>,
     s_res_http_end |-> <<SP, "INVALID_VERSION", "s_res_first_status_code">>,
     s_res_line_almost_done |-> <<LF, "STRICT", "s_header_field_start">>,
     s_header_value_discard_ws_almost_done |->
        <<LF, "STRICT", "s_header_value_discard_lws">>]

ReqLiteral ==
    [s_req_http_H |-> <<"T", "STRICT", "s_req_http_HT">>,
     s_req_http_HT |-> <<"T", "STRICT", "s_req_http_HTT">>,
     s_req_http_HTT |-> <<"P", "STRICT", "s_req_http_HTTP">>,
     s_req_http_I |-> <<"C", "STRICT", "s_req_http_IC">>,
     s_req_http_IC |-> <<"E", "STRICT", "s_req_http_HTTP">>,
     s_req_http_HTTP |-> <<"/", "STRICT", "s_req_http_major">>,
     s_req_http_dot |-> <<".", "INVALID_VERSION", "s_req_http_minor">>,
     s_req_line_almost_done |-> <<LF, "LF_EXPECTED", "s_header_field_start">>]

Match(ps, table, ch) ==
    Expect(ps, ch = table[ps.state][1], table[ps.state][2], table[ps.state][3])

Reset(ps) ==
    [ps EXCEPT !.flags = {}, !.te = FALSE, !.content_length = MaxLength]

MethodOf == [G |-> "GET", C |-> "CONNECT", S |-> "SUBSCRIBE", P |-> "POST",
             H |-> "HEAD", T |-> "TRACE", U |-> "UNLOCK"]

StartReq(ps, ch) ==
    CASE IsEol(ch) -> ps
      [] ~IsEol(ch) /\ ch \notin DOMAIN MethodOf ->
            SET_ERRNO(Reset(ps), "INVALID_METHOD")
      [] OTHER ->
            CALLBACK_NOTIFY([Reset(ps) EXCEPT !.method = MethodOf[ch], !.index = 1,
                                              !.state = "s_req_method"],
                            "message_begin")

StartRes(ps, ch) ==
    CASE IsEol(ch) -> ps
      [] ch = "H" -> CALLBACK_NOTIFY(UPDATE_STATE(Reset(ps), "s_res_H"), "message_begin")
      [] OTHER -> SET_ERRNO(Reset(ps), "INVALID_CONSTANT")

StartReqOrRes(ps, ch) ==
    CASE IsEol(ch) -> ps
      [] ch = "H" -> CALLBACK_NOTIFY(UPDATE_STATE(Reset(ps), "s_res_or_resp_H"),
                                     "message_begin")
      [] OTHER -> StartReq([Reset(ps) EXCEPT !.type = "REQUEST",
                                             !.state = "s_start_req"], ch)

ResOrRespH(ps, ch) ==
    CASE ch = "T" -> [ps EXCEPT !.type = "RESPONSE", !.state = "s_res_HT"]
      [] ch = "E" -> [ps EXCEPT !.type = "REQUEST", !.method = "HEAD",
                                !.index = 1, !.state = "s_req_method"]
      [] OTHER -> SET_ERRNO(ps, "INVALID_CONSTANT")

ReqMethod(ps, ch) ==
    CASE ch = SP /\ ps.index = 2 -> UPDATE_STATE(ps, "s_req_spaces_before_url")
      [] ch = "rest" /\ ps.index = 1 -> [ps EXCEPT !.index = 2]
      [] ch = "ource" /\ ps.index = 1 /\ ps.method = "SUBSCRIBE" ->
            [ps EXCEPT !.method = "SOURCE", !.index = 2]
      [] OTHER -> SET_ERRNO(ps, "INVALID_METHOD")

ReqSpacesBeforeUrl(ps, ch) ==
    IF ch = SP THEN ps
    ELSE UrlStep(MARK(ps, "url"),
                 IF ps.method = "CONNECT" THEN "s_req_server_start" ELSE ps.state,
                 ch)

(* A URL may end after a host or anywhere behind it; "HTTP/0.9" has no     *)
(* version.                                                                *)
ReqUrl(ps, ch) ==
    LET mayEnd == ps.state \notin {"s_req_schema", "s_req_schema_slash",
                                   "s_req_schema_slash_slash", "s_req_server_start"}
    IN  CASE ch = SP /\ mayEnd ->
                CALLBACK_DATA(UPDATE_STATE(ps, "s_req_http_start"), "url")
          [] IsEol(ch) /\ mayEnd ->
                CALLBACK_DATA([ps EXCEPT !.major = 0, !.minor = 9,
                                  !.state = IF ch = CR THEN "s_req_line_almost_done"
                                            ELSE "s_header_field_start"], "url")
          [] OTHER -> UrlStep(ps, ps.state, ch)

ReqHttpStart(ps, ch) ==
    CASE ch = SP -> ps
      [] ch = "H" -> UPDATE_STATE(ps, "s_req_http_H")
      [] ch = "I" /\ ps.method = "SOURCE" -> UPDATE_STATE(ps, "s_req_http_I")
      [] OTHER -> SET_ERRNO(ps, "INVALID_CONSTANT")

Major(ps, ch, s) ==
    IF IS_NUM(ch) THEN [ps EXCEPT !.major = Value[ch], !.state = s]
    ELSE SET_ERRNO(ps, "INVALID_VERSION")
Minor(ps, ch, s) ==
    IF IS_NUM(ch) THEN [ps EXCEPT !.minor = Value[ch], !.state = s]
    ELSE SET_ERRNO(ps, "INVALID_VERSION")

ReqHttpEnd(ps, ch) ==
    CASE ch = CR -> UPDATE_STATE(ps, "s_req_line_almost_done")
      [] ch = LF -> UPDATE_STATE(ps, "s_header_field_start")
      [] OTHER -> SET_ERRNO(ps, "INVALID_VERSION")

ResStatus(ps, ch) ==
    CASE ch = CR -> CALLBACK_DATA(UPDATE_STATE(ps, "s_res_line_almost_done"), "status")
      [] ch = LF -> CALLBACK_DATA(UPDATE_STATE(ps, "s_header_field_start"), "status")
      [] OTHER -> ps

ResStatusStart(ps, ch) ==
    LET in == MARK(UPDATE_STATE(ps, "s_res_status"), "status")
    IN  IF IsEol(ch) THEN ResStatus(in, ch) ELSE in

ResFirstStatusCode(ps, ch) ==
    CASE IS_NUM(ch) -> [ps EXCEPT !.status_code = Value[ch],
                                  !.state = "s_res_status_code"]
      [] ch = SP -> ps
      [] OTHER -> SET_ERRNO(ps, "INVALID_STATUS")

ResStatusCode(ps, ch) ==
    CASE IS_NUM(ch) /\ 10 * ps.status_code + Value[ch] <= 999 ->
            [ps EXCEPT !.status_code = 10 * @ + Value[ch]]
      [] ch = SP -> UPDATE_STATE(ps, "s_res_status_start")
      [] IsEol(ch) -> ResStatusStart(ps, ch)
      [] OTHER -> SET_ERRNO(ps, "INVALID_STATUS")

-----------------------------------------------------------------------------
(* The body *)

BodyIdentity(ps) ==
    LET read == [MARK(ps, "body") EXCEPT !.content_length = @ - 1]
        asserted == Asserted(read, ps.content_length \notin {0, MaxLength})
    IN  IF read.content_length = 0
        THEN REEXECUTE(CALLBACK_DATA_(UPDATE_STATE(asserted, "s_message_done"),
                                      "body", 1), MessageDone)
        ELSE asserted

ChunkSizeStart(ps, ch) ==
    Asserted(IF ch \in DOMAIN Unhex
             THEN [ps EXCEPT !.content_length = Unhex[ch], !.state = "s_chunk_size"]
             ELSE SET_ERRNO(ps, "INVALID_CHUNK_SIZE"),
             ps.nread = 1)

ChunkSize(ps, ch) ==
    CASE ch = CR -> UPDATE_STATE(ps, "s_chunk_size_almost_done")
      [] ch \in DOMAIN Unhex -> AddDigit(ps, 16, Unhex[ch])
      [] ch \in {";", SP} -> UPDATE_STATE(ps, "s_chunk_parameters")
      [] OTHER -> SET_ERRNO(ps, "INVALID_CHUNK_SIZE")

ChunkParameters(ps, ch) ==
    IF ch = CR THEN UPDATE_STATE(ps, "s_chunk_size_almost_done") ELSE ps

ChunkSizeAlmostDone(ps, ch) ==
    LET new == ResetCount(ps)
    IN  IF ch # LF THEN SET_ERRNO(ps, "STRICT")
        ELSE IF ps.content_length = 0 THEN
            CALLBACK_NOTIFY(UPDATE_STATE(Flag(new, "TRAILING"),
                                         "s_header_field_start"), "chunk_header")
        ELSE CALLBACK_NOTIFY(UPDATE_STATE(new, "s_chunk_data"), "chunk_header")

ChunkData(ps) ==
    LET read == [MARK(ps, "body") EXCEPT !.content_length = @ - 1]
    IN  Asserted([read EXCEPT !.state = IF read.content_length = 0
                                        THEN "s_chunk_data_almost_done" ELSE @],
                 ps.content_length \notin {0, MaxLength})

ChunkDataAlmostDone(ps, ch) ==
    Asserted(IF ch = CR
             THEN CALLBACK_DATA(UPDATE_STATE(ps, "s_chunk_data_done"), "body")
             ELSE SET_ERRNO(ps, "STRICT"),
             ps.content_length = 0)

ChunkDataDone(ps, ch) ==
    IF ch = LF
    THEN CALLBACK_NOTIFY(UPDATE_STATE(ResetCount(ps), "s_chunk_size_start"),
                         "chunk_complete")
    ELSE SET_ERRNO(ps, "STRICT")

-----------------------------------------------------------------------------
(* http_parser_execute *)

Dead(ps, ch) == IF IsEol(ch) THEN ps ELSE SET_ERRNO(ps, "CLOSED_CONNECTION")

FirstLine(ps, ch) ==
    LET s == ps.state
    IN  CASE s = "s_start_req_or_res" -> StartReqOrRes(ps, ch)
          [] s = "s_res_or_resp_H" -> ResOrRespH(ps, ch)
          [] s = "s_start_res" -> StartRes(ps, ch)
          [] s = "s_res_http_major" -> Major(ps, ch, "s_res_http_dot")
          [] s = "s_res_http_minor" -> Minor(ps, ch, "s_res_http_end")
          [] s = "s_res_first_status_code" -> ResFirstStatusCode(ps, ch)
          [] s = "s_res_status_code" -> ResStatusCode(ps, ch)
          [] s = "s_res_status_start" -> ResStatusStart(ps, ch)
          [] s = "s_res_status" -> ResStatus(ps, ch)
          [] s = "s_start_req" -> StartReq(ps, ch)
          [] s = "s_req_method" -> ReqMethod(ps, ch)
          [] s = "s_req_spaces_before_url" -> ReqSpacesBeforeUrl(ps, ch)
          [] s \in UrlStates -> ReqUrl(ps, ch)
          [] s = "s_req_http_start" -> ReqHttpStart(ps, ch)
          [] s = "s_req_http_major" -> Major(ps, ch, "s_req_http_dot")
          [] s = "s_req_http_minor" -> Minor(ps, ch, "s_req_http_end")
          [] s = "s_req_http_end" -> ReqHttpEnd(ps, ch)
          [] OTHER -> Asserted(ps, FALSE)

HeaderLine(ps, ch) ==
    LET s == ps.state
    IN  CASE s = "s_header_field_start" -> HeaderFieldStart(ps, ch)
          [] s = "s_header_field" -> HeaderField(ps, ch)
          [] s = "s_header_value_discard_ws" -> HeaderValueDiscardWs(ps, ch)
          [] s = "s_header_value_discard_lws" -> HeaderValueDiscardLws(ps, ch)
          [] s = "s_header_value" -> HeaderValue(ps, ch)
          [] s = "s_header_almost_done" -> HeaderAlmostDone(ps, ch)
          [] s = "s_header_value_lws" -> HeaderValueLws(ps, ch)
          [] s = "s_headers_almost_done" -> HeadersAlmostDone(ps, ch)
          [] OTHER -> FirstLine(ps, ch)

Chunk(ps, ch) ==
    LET s == ps.state
    IN  CASE s = "s_chunk_size_start" -> ChunkSizeStart(ps, ch)
          [] s = "s_chunk_size" -> ChunkSize(ps, ch)
          [] s = "s_chunk_parameters" -> ChunkParameters(ps, ch)
          [] s = "s_chunk_size_almost_done" -> ChunkSizeAlmostDone(ps, ch)
          [] s = "s_chunk_data" -> ChunkData(ps)
          [] s = "s_chunk_data_almost_done" -> ChunkDataAlmostDone(ps, ch)
          [] s = "s_chunk_data_done" -> ChunkDataDone(ps, ch)

ChunkStates ==
    {"s_chunk_size_start", "s_chunk_size", "s_chunk_parameters",
     "s_chunk_size_almost_done", "s_chunk_data", "s_chunk_data_almost_done",
     "s_chunk_data_done"}

(* The switch on the state.                                                *)
Step(ps, ch) ==
    LET s == ps.state
    IN  CASE s = "s_dead" -> Dead(ps, ch)
          [] s \in DOMAIN Literal -> Match(ps, Literal, ch)
          [] s \in DOMAIN ReqLiteral -> Match(ps, ReqLiteral, ch)
          [] s \in ChunkStates -> Asserted(Chunk(ps, ch), "CHUNKED" \in ps.flags)
          [] s = "s_body_identity" -> BodyIdentity(ps)
          [] s = "s_body_identity_eof" -> MARK(ps, "body")
          [] OTHER -> HeaderLine(ps, ch)

Returned(ps) == ~Ok(ps) \/ ps.left

Advance(mark) == IF mark = NoMark THEN NoMark ELSE mark + 1

(* One turn of the loop, p++ included; f says which callback fails.  The   *)
(* inner loops go on as long as the state stays.                           *)
Consume(ps, ch, f) ==
    LET new == [ps EXCEPT !.out = <<>>, !.fail = f]
        read == IF ps.state \in BodyStates \/ ps.run > 0 THEN new
                ELSE COUNT_HEADER_SIZE(new, 1)
        next == IF Ok(read) THEN Step(read, ch) ELSE read
    IN  [next EXCEPT !.fail = "none",
                     !.run = IF ~Returned(next) /\ next.state \in LoopStates \cap {ps.state}
                             THEN ps.run + 1 ELSE 0,
                     !.mark = IF Returned(next) THEN NoMarks
                              ELSE [header_field |-> Advance(@.header_field),
                                    header_value |-> Advance(@.header_value),
                                    url |-> Advance(@.url),
                                    body |-> Advance(@.body),
                                    status |-> Advance(@.status)]]

(* The marks are local: an item that began in an earlier call goes on at   *)
(* the first byte of the buffer.                                           *)
ItemOf(s) ==
    CASE s = "s_header_field" -> "header_field"
      [] s = "s_header_value" -> "header_value"
      [] s \in UrlStates -> "url"
      [] s = "s_res_status" -> "status"
      [] OTHER -> "none"

(* Fault: an item does not go on.                                          *)
ForgetItem(ps) == [ps EXCEPT !.out = <<>>, !.left = FALSE, !.mark = NoMarks]

StartCall(ps) ==
    [ps EXCEPT !.out = <<>>, !.left = FALSE,
               !.mark = [k \in DataKinds |-> IF k = ItemOf(ps.state) THEN 0
                                             ELSE NoMark]]

Marked(ps) == {k \in DataKinds : ps.mark[k] # NoMark}

(* Deliver what is marked.  At most one item is.                           *)
Flush(ps) ==
    IF Cardinality(Marked(ps)) > 1 THEN Asserted(ps, FALSE)
    ELSE IF Marked(ps) = {} THEN ps
    ELSE CALLBACK_DATA(ps, CHOOSE k \in DataKinds : k \in Marked(ps))

(* Out of bytes: an inner loop ends here, too, one byte before p.          *)
FinishCall(ps, f) ==
    LET new == [ps EXCEPT !.out = <<>>, !.fail = f]
        read == IF ps.run > 0 THEN COUNT_HEADER_SIZE(new, ps.run - 1) ELSE new
        end == IF Ok(read) THEN Flush(read) ELSE read
    IN  [end EXCEPT !.fail = "none", !.run = 0, !.mark = NoMarks]

(* Fault: a truncated message is ignored.                                  *)
AlwaysFine(ps) == [ps EXCEPT !.out = <<>>]

(* A call with len = 0: the connection is closed.                          *)
EndOfInput(ps) ==
    LET new == [ps EXCEPT !.out = <<>>]
    IN  CASE ps.state = "s_body_identity_eof" -> CALLBACK_NOTIFY(new, "message_complete")
          [] ps.state \in {"s_dead", "s_start_req_or_res", "s_start_res",
                           "s_start_req"} -> new
          [] OTHER -> SET_ERRNO(new, "INVALID_EOF_STATE")
=============================================================================
