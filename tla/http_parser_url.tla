-------------------------- MODULE http_parser_url --------------------------
(***************************************************************************)
(* http_parser_parse_url: the fields of a URL, each an offset and a        *)
(* length.  The first pass, over all characters, separates the schema, the *)
(* server, the path, the query and the fragment with the state machine     *)
(* that http_parser_execute also uses; the second one, http_parse_host,    *)
(* separates the server into user, host and port.  A pass is a fold over   *)
(* the positions of the buffer.                                            *)
(***************************************************************************)
EXTENDS http_parser, SequencesExt

CONSTANTS
    MaxPort,        \* 0xffff
    OffMod          \* 2^16: offsets and lengths are uint16_t

ASSUME UrlBounds == MaxPort \in Nat /\ OffMod \in Nat \ {0}

Fields == {"SCHEMA", "HOST", "PORT", "PATH", "QUERY", "FRAGMENT", "USERINFO"}

NoField == [off |-> 0, len |-> 0]

(* The result.  A length counts only for a field that is set; the length   *)
(* of the host is reset by the second pass.                                *)
http_parser_url_init ==
    [rc |-> 0, set |-> {}, field |-> [f \in Fields |-> NoField], port |-> 0]

Fail(u) == [u EXCEPT !.rc = 1]
Uint16(n) == n % OffMod
Begin(u, f, off) == [u EXCEPT !.set = @ \cup {f},
                              !.field[f] = [off |-> Uint16(off), len |-> 1]]
Grow(u, f) == [u EXCEPT !.field[f].len = Uint16(@ + 1)]
MoveHost(u, off) == [u EXCEPT !.field["HOST"].off = Uint16(off)]
Slice(buf, u, f) ==
    IF f \in u.set
    THEN SubSeq(buf, u.field[f].off + 1, u.field[f].off + u.field[f].len)
    ELSE <<>>

-----------------------------------------------------------------------------
(* The server *)

HostStates ==
    {"s_http_host_dead", "s_http_userinfo_start", "s_http_userinfo",
     "s_http_host_start", "s_http_host_v6_start", "s_http_host",
     "s_http_host_v6", "s_http_host_v6_end", "s_http_host_v6_zone_start",
     "s_http_host_v6_zone", "s_http_host_port_start", "s_http_host_port"}

IS_HEX(ch) == ch \in DOMAIN Unhex

http_parse_host_char(s, ch) ==
    CASE s \in {"s_http_userinfo", "s_http_userinfo_start"} /\ ch = "@" ->
            "s_http_host_start"
      [] s \in {"s_http_userinfo", "s_http_userinfo_start"} /\ IS_USERINFO_CHAR(ch) ->
            "s_http_userinfo"
      [] s = "s_http_host_start" /\ ch = "[" -> "s_http_host_v6_start"
      [] s \in {"s_http_host_start", "s_http_host"} /\ IS_HOST_CHAR(ch) ->
            "s_http_host"
      [] s \in {"s_http_host", "s_http_host_v6_end"} /\ ch = ":" ->
            "s_http_host_port_start"
      [] s \in {"s_http_host_v6", "s_http_host_v6_zone"} /\ ch = "]" ->
            "s_http_host_v6_end"
      [] s \in {"s_http_host_v6", "s_http_host_v6_start"}
            /\ (IS_HEX(ch) \/ ch \in {":", "."}) -> "s_http_host_v6"
      [] s = "s_http_host_v6" /\ ch = "%" -> "s_http_host_v6_zone_start"
      [] s \in {"s_http_host_v6_zone", "s_http_host_v6_zone_start"}
            /\ (IS_ALPHA(ch) \/ IS_NUM(ch) \/ ch \in {"%", "."}) ->
            "s_http_host_v6_zone"
      [] s \in {"s_http_host_port", "s_http_host_port_start"} /\ IS_NUM(ch) ->
            "s_http_host_port"
      [] OTHER -> "s_http_host_dead"

(* Fault: the zone of an address is not counted.                           *)
HostWithoutZone(u, s, new, off) ==
    IF new \in {"s_http_host", "s_http_host_v6"} THEN
        IF s = new THEN Grow(u, "HOST")
        ELSE Grow(MoveHost(u, off), "HOST")
    ELSE u

(* What a character that leads from state s to new adds to the fields.     *)
HostField(u, s, new, off) ==
    CASE new \in {"s_http_host", "s_http_host_v6"} ->
            IF s = new THEN Grow(u, "HOST")
            ELSE Grow(MoveHost(u, off), "HOST")
      [] new \in {"s_http_host_v6_zone_start", "s_http_host_v6_zone"} ->
            Grow(u, "HOST")
      [] new = "s_http_host_port" ->
            IF s = new THEN Grow(u, "PORT") ELSE Begin(u, "PORT", off)
      [] new = "s_http_userinfo" ->
            IF s = new THEN Grow(u, "USERINFO") ELSE Begin(u, "USERINFO", off)
      [] OTHER -> u

(* Fault: a server may end anywhere.                                       *)
NeverOpen == {}

(* The states in which a server may not end.                               *)
HostOpen ==
    {"s_http_host_start", "s_http_host_v6_start", "s_http_host_v6",
     "s_http_host_v6_zone_start", "s_http_host_v6_zone",
     "s_http_host_port_start", "s_http_userinfo", "s_http_userinfo_start"}

ResetHost(u) == [u EXCEPT !.field["HOST"].len = 0]

HostChar(acc, new, off) ==
    IF acc.s = "s_http_host_dead" THEN acc
    ELSE [s |-> new, u |-> HostField(acc.u, acc.s, new, off)]

HostEnd(acc) ==
    IF acc.s \in HostOpen \cup {"s_http_host_dead"} THEN Fail(acc.u) ELSE acc.u

http_parse_host(buf, url, found_at) ==
    LET start == [s |-> IF found_at THEN "s_http_userinfo_start"
                        ELSE "s_http_host_start",
                  u |-> ResetHost(url)]
        first == url.field["HOST"].off
    IN  HostEnd(FoldLeftDomain(
            LAMBDA acc, i : HostChar(acc, http_parse_host_char(acc.s, buf[first + i]),
                                     first + i - 1),
            start, Slice(buf, url, "HOST")))

-----------------------------------------------------------------------------
(* The URL *)

(* The field that a character belongs to, "delimiter" for those skipped.   *)
FieldOf(s) ==
    CASE s = "s_req_schema" -> "SCHEMA"
      [] s \in {"s_req_server", "s_req_server_with_at"} -> "HOST"
      [] s = "s_req_path" -> "PATH"
      [] s = "s_req_query_string" -> "QUERY"
      [] s = "s_req_fragment" -> "FRAGMENT"
      [] OTHER -> "delimiter"

(* A character that leads to state s and belongs to field f.  acc.uf is    *)
(* the field before it.                                                    *)
UrlChar(acc, s, f, off) ==
    CASE acc.s = "s_dead" -> acc
      [] acc.s # "s_dead" /\ s = "s_dead" -> [acc EXCEPT !.s = s, !.u = Fail(@)]
      [] acc.s # "s_dead" /\ s # "s_dead" /\ f = "delimiter" -> [acc EXCEPT !.s = s]
      [] OTHER ->
            [s |-> s, uf |-> f,
             at |-> acc.at \/ s = "s_req_server_with_at",
             u |-> IF f = acc.uf THEN Grow(acc.u, f) ELSE Begin(acc.u, f, off)]

(* The first pass: the fields, with everything of the server in the host.  *)
FirstPass(buf, is_connect) ==
    LET start == [s |-> IF is_connect THEN "s_req_server_start"
                        ELSE "s_req_spaces_before_url",
                  uf |-> "delimiter", at |-> FALSE, u |-> http_parser_url_init]
        Char(acc, s, off) == UrlChar(acc, s, FieldOf(s), off)
    IN  FoldLeftDomain(
            LAMBDA acc, i : Char(acc, parse_url_char(acc.s, buf[i]), i - 1), start, buf)

(* *p - '0'.  Only in a URL of OffMod characters or more, whose offsets   *)
(* do not fit, is *p something else than a digit.                          *)
Distance(ch) ==
    CASE IS_NUM(ch) -> Value[ch]
      [] ch = "#" -> -13 [] ch = "%" -> -11 [] ch = "*" -> -6 [] ch = "," -> -4
      [] ch = "." -> -2 [] ch = "/" -> -1 [] ch = ":" -> 10 [] ch = ";" -> 11
      [] ch = "?" -> 15 [] ch = "@" -> 16 [] ch = "[" -> 43 [] ch = "]" -> 45
      [] OTHER -> 72

(* Fault: the value is not bounded, but only converted.                    *)
PortModulo(u, digits) ==
    [u EXCEPT !.port = FoldLeft(LAMBDA v, d : (v * 10 + Distance(d)) % (MaxPort + 1),
                                0, digits)]

(* The value is checked behind every digit, and is unsigned: one below 0   *)
(* is very large.                                                          *)
Port(u, digits) ==
    LET Check(v) == IF v \in 0 .. MaxPort THEN v ELSE MaxPort + 1
        v == FoldLeft(LAMBDA n, d : IF n > MaxPort THEN n ELSE Check(n * 10 + Distance(d)),
                      0, digits)
    IN  IF v > MaxPort THEN Fail(u) ELSE [u EXCEPT !.port = v]

(* Fault: a host is always asked for.                                      *)
HostNeeded(u) == "HOST" \notin u.set

(* "http:///toto" fails: no host although there is a schema.               *)
NoHost(u) == "SCHEMA" \in u.set /\ "HOST" \notin u.set

(* The second pass takes the server apart.                                 *)
WithHost(buf, pass) ==
    CASE buf = <<>> \/ NoHost(pass.u) -> Fail(pass.u)
      [] buf # <<>> /\ ~NoHost(pass.u) /\ pass.u.rc = 0 /\ "HOST" \in pass.u.set ->
            http_parse_host(buf, pass.u, pass.at)
      [] OTHER -> pass.u

(* CONNECT takes a host and a port, and nothing else.                      *)
OnlyServer(u, is_connect) ==
    IF is_connect /\ u.rc = 0 /\ u.set # {"HOST", "PORT"} THEN Fail(u) ELSE u

WithPort(buf, u) ==
    IF u.rc = 0 /\ "PORT" \in u.set THEN Port(u, Slice(buf, u, "PORT")) ELSE u

http_parser_parse_url(buf, is_connect) ==
    WithPort(buf, OnlyServer(WithHost(buf, FirstPass(buf, is_connect)), is_connect))
=============================================================================
