---------------------------- MODULE ParserProofs ----------------------------
(***************************************************************************)
(* http_parser_execute is correct for every input, every cut of it into    *)
(* buffers, every limit and every failing callback: the properties of      *)
(* ParserCalls, proved from one inductive invariant, ParserInv.            *)
(*                                                                         *)
(* The state of the parser tells which callback was the last one           *)
(* (OrderInv), which flags are set (FlagInv), whether content_length is    *)
(* known (LengthInv) and which item is marked (MarkInv).  The lemmas go    *)
(* through the switch handler by handler: a parser that is Ready for a     *)
(* byte is Fin after it, where Fin says all that the invariant needs of    *)
(* the new parser, of the callbacks that were made, of the bytes that they *)
(* were given, and of the bytes of the body that are still wanted.         *)
(***************************************************************************)
EXTENDS ParserCalls, FiniteSetTheorems, TLAPS

(* The parser as a record; the types have names, so that a proof need not  *)
(* look into those that it does not change.                                *)
EventSet == [on : DataKinds \cup NoticeKinds, len : Nat, more : 0 .. 1]
Lengths == 0 .. MaxLength
Codes == 0 .. 999
Counts == Nat
Marks == [DataKinds -> {NoMark} \cup Nat]
Outs == Seq(EventSet)
FlagSets ==
    SUBSET {"CHUNKED", "CONNECTION_KEEP_ALIVE", "CONNECTION_CLOSE",
            "CONNECTION_UPGRADE", "TRAILING", "UPGRADE", "SKIPBODY",
            "CONTENTLENGTH"}
MessageTypes == {"REQUEST", "RESPONSE", "BOTH"}
Methods == {"DELETE", "SOURCE", "GET", "CONNECT", "SUBSCRIBE", "POST", "HEAD",
            "TRACE", "UNLOCK"}
Fails == DataKinds \cup NoticeKinds \cup {"no_body", "upgrade", "none"}
Refusals ==
    {"CB", "INVALID_URL", "INVALID_TRANSFER_ENCODING", "STRICT",
     "UNEXPECTED_CONTENT_LENGTH", "INVALID_HEADER_TOKEN",
     "INVALID_CONTENT_LENGTH", "LF_EXPECTED", "INVALID_METHOD",
     "INVALID_CONSTANT", "INVALID_VERSION", "INVALID_STATUS",
     "INVALID_CHUNK_SIZE", "CLOSED_CONNECTION", "HEADER_OVERFLOW",
     "INVALID_EOF_STATE"}
Errnos == Refusals \cup {"OK", "ASSERT"}
FieldNames ==
    {"h_general", "h_C", "h_CO", "h_CON", "h_matching_connection",
     "h_matching_proxy_connection", "h_matching_content_length",
     "h_matching_transfer_encoding", "h_matching_upgrade", "h_connection",
     "h_content_length", "h_transfer_encoding", "h_upgrade"}
ValueNames ==
    {"h_general", "h_content_length_num", "h_content_length_ws",
     "h_matching_transfer_encoding_token_start",
     "h_matching_transfer_encoding_chunked",
     "h_matching_transfer_encoding_token", "h_matching_connection_token_start",
     "h_matching_connection_keep_alive", "h_matching_connection_close",
     "h_matching_connection_upgrade", "h_matching_connection_token",
     "h_transfer_encoding_chunked", "h_connection_keep_alive",
     "h_connection_close", "h_connection_upgrade"}
HeaderNames == FieldNames \cup ValueNames

(* The parser.                                                             *)
Parser ==
    [type : MessageTypes, state : States, header_state : HeaderNames,
     flags : FlagSets, te : BOOLEAN, content_length : Lengths,
     method : Methods, index : Nat, major : Nat, minor : Nat,
     status_code : Codes, upgrade : BOOLEAN, nread : Counts, run : Counts,
     errno : Errnos, mark : Marks, out : Outs, fail : Fails, left : BOOLEAN]

(* Between messages.                                                       *)
IdleStates == {"s_dead", "s_start_req", "s_start_res", "s_start_req_or_res"}

(* In a first line, before its url or status.                              *)
BeginStates ==
    {"s_res_or_resp_H", "s_res_H", "s_res_HT", "s_res_HTT", "s_res_HTTP",
     "s_res_http_major", "s_res_http_dot", "s_res_http_minor", "s_res_http_end",
     "s_res_first_status_code", "s_res_status_code", "s_res_status_start",
     "s_req_method", "s_req_spaces_before_url"}

(* In a request line, behind the url.                                      *)
VersionStates ==
    {"s_req_http_start", "s_req_http_H", "s_req_http_HT", "s_req_http_HTT",
     "s_req_http_HTTP", "s_req_http_I", "s_req_http_IC", "s_req_http_major",
     "s_req_http_dot", "s_req_http_minor", "s_req_http_end",
     "s_req_line_almost_done"}

(* In a first line.                                                        *)
FirstLineStates ==
    BeginStates \cup UrlStates \cup VersionStates
        \cup {"s_res_status", "s_res_line_almost_done"}

(* At the beginning of a header line, or behind the CR of the empty one.   *)
LineStates == {"s_header_field_start", "s_headers_almost_done"}

(* Between the colon and the value.                                        *)
DiscardStates ==
    {"s_header_value_discard_ws", "s_header_value_discard_ws_almost_done",
     "s_header_value_discard_lws"}

(* In a header line.                                                       *)
FieldStates ==
    {"s_header_field", "s_header_value", "s_header_almost_done",
     "s_header_value_lws"} \cup DiscardStates

(* In the line with the size of a chunk.                                   *)
SizeStates ==
    {"s_chunk_size_start", "s_chunk_size", "s_chunk_parameters",
     "s_chunk_size_almost_done"}

(* In the data of a chunk, and up to the end of the line behind it.        *)
DataStates == {"s_chunk_data", "s_chunk_data_almost_done", "s_chunk_data_done"}

(* In a body that is not cut into chunks.                                  *)
PlainStates == {"s_body_identity", "s_body_identity_eof"}

(* In a Transfer-Encoding field.                                           *)
EncodingStates ==
    {"h_transfer_encoding", "h_matching_transfer_encoding_token_start",
     "h_matching_transfer_encoding_chunked",
     "h_matching_transfer_encoding_token", "h_transfer_encoding_chunked"}

(* The state tells which callback can have been the last one.              *)
OrderInv(s, flags, l) ==
    /\ s \in IdleStates => l \in {"none", "message_complete"}
    /\ s \in BeginStates => l = "message_begin"
    /\ s \in UrlStates => l \in {"message_begin", "url"}
    /\ s \in VersionStates => l = "url"
    /\ s = "s_res_status" => l \in {"message_begin", "status"}
    /\ s = "s_res_line_almost_done" => l = "status"
    /\ s \in LineStates =>
          l \in IF "TRAILING" \in flags THEN {"chunk_header", "header_value"}
                ELSE {"url", "status", "header_value"}
    /\ s = "s_header_field" =>
          l \in {"url", "status", "header_value", "chunk_header", "header_field"}
    /\ s \in DiscardStates => l = "header_field"
    /\ s = "s_header_value" => l \in {"header_field", "header_value"}
    /\ s \in {"s_header_almost_done", "s_header_value_lws"} => l = "header_value"
    /\ s \in SizeStates => l \in {"headers_complete", "chunk_complete"}
    /\ s \in DataStates => l \in {"chunk_header", "body"}
    /\ s \in PlainStates => l \in {"headers_complete", "body"}
    /\ s \notin {"s_headers_done", "s_message_done", "s_header_value_start"}

(* The state tells which flags can be set: chunks are read under CHUNKED   *)
(* alone, which comes with a Transfer-Encoding, and trailers come behind a *)
(* body only.                                                              *)
FlagInv(s, h, flags, te) ==
    /\ "CHUNKED" \in flags => te
    /\ s \in FieldStates /\ h \in EncodingStates => te
    /\ s = "s_header_value" => h \notin {"h_connection", "h_transfer_encoding"}
    /\ s \in ChunkStates => "CHUNKED" \in flags /\ "CONTENTLENGTH" \notin flags
    /\ s = "s_body_identity" => "CHUNKED" \notin flags
    /\ s \in FirstLineStates => "TRAILING" \notin flags

(* Where content_length counts down it is neither 0 nor unknown.           *)
LengthInv(s, length) ==
    /\ s \in {"s_body_identity", "s_chunk_data"} => length \notin {0, MaxLength}
    /\ s \in SizeStates \ {"s_chunk_size_start"} => length # MaxLength
    /\ s = "s_chunk_data_almost_done" => length = 0

(* What is marked is the item that the state is in; a body is marked from  *)
(* its first byte in this buffer on.                                       *)
MarkInv(s, mark) ==
    /\ \A k \in DataKinds \ {"body"} : mark[k] # NoMark <=> ItemOf(s) = k
    /\ mark["body"] # NoMark =>
          s \in PlainStates \cup {"s_chunk_data", "s_chunk_data_almost_done"}

(* The bytes that a mark covers.                                           *)
Held(mark, k) == IF mark[k] = NoMark THEN 0 ELSE mark[k]

(* The bytes of the body that are still wanted: those not read yet and     *)
(* those that are marked.                                                  *)
Expected(p) ==
    (IF p.state \in {"s_body_identity", "s_chunk_data"} THEN p.content_length ELSE 0)
    + (IF p.state # "s_body_identity_eof" THEN Held(p.mark, "body") ELSE 0)

-----------------------------------------------------------------------------
(* The callbacks of one byte *)

(* The callbacks of out, and their kinds.                                  *)
EventsOf(out) == {out[i] : i \in DOMAIN out}
OnSet(out) == {e.on : e \in EventsOf(out)}

(* The last callback behind those of out, when l was the last one before.  *)
Now(l, out) == IF out = <<>> THEN l ELSE out[Len(out)].on

(* Each callback of out may follow the one before it.                      *)
Linked(l, out) ==
    \A i \in 1 .. Len(out) :
        (IF i = 1 THEN l ELSE out[i - 1].on) \in Follows[out[i].on]

(* How many bytes of item k are delivered in out.                          *)
EventsOn(out, k) == {x \in EventsOf(out) : x.on = k}
LenOf(events) == IF events = {} THEN 0 ELSE (CHOOSE x \in events : TRUE).len
Del(out, k) == LenOf(EventsOn(out, k))

(* No callbacks.                                                           *)
LEMMA NoneOut ==
    ASSUME NEW l
    PROVE  /\ <<>> \in Outs
           /\ OnSet(<<>>) = {}
           /\ Now(l, <<>>) = l
           /\ Linked(l, <<>>)
           /\ \A k : Del(<<>>, k) = 0
  BY DEF Outs, EventsOf, OnSet, Now, Linked, Del, EventsOn, LenOf

(* The callbacks new are those of out and callback k, with n bytes.        *)
OneMore(l, out, new, k, n) ==
    /\ new # <<>>
    /\ OnSet(new) = OnSet(out) \cup {k}
    /\ Now(l, new) = k
    /\ Linked(l, new)
    /\ Del(new, k) = n
    /\ \A j \in DataKinds : j # k => Del(new, j) = Del(out, j)

(* One more callback, where it may follow.                                 *)
LEMMA OneMoreOut ==
    ASSUME NEW l, NEW out \in Outs, NEW k \in DataKinds \cup NoticeKinds,
           NEW n \in Nat, NEW m \in 0 .. 1,
           k \notin OnSet(out), Linked(l, out), Now(l, out) \in Follows[k],
           NEW new, new = Append(out, [on |-> k, len |-> n, more |-> m])
    PROVE  new \in Outs /\ OneMore(l, out, new, k, n)
<1> DEFINE e == [on |-> k, len |-> n, more |-> m]
<1>0. PICK x : x = e
  OBVIOUS
<1>1. x \in EventSet /\ x.on = k /\ x.len = n
  BY <1>0 DEF EventSet
<1> HIDE DEF e
<1>2. new = Append(out, x)
  BY <1>0 DEF e
<1>3. PICK c \in Nat : c = Len(out) /\ DOMAIN out = 1 .. c
  BY DEF Outs
<1>4. new \in Outs /\ Len(new) = c + 1 /\ DOMAIN new = 1 .. (c + 1)
  BY <1>1, <1>2, <1>3 DEF Outs
<1>5. new[c + 1] = x /\ \A i \in 1 .. c : new[i] = out[i]
  BY <1>1, <1>2, <1>3 DEF Outs
<1>6. new # <<>>
  BY <1>4
<1>7. EventsOf(new) = EventsOf(out) \cup {x}
  BY <1>3, <1>4, <1>5 DEF EventsOf
<1>13. OnSet(new) = OnSet(out) \cup {k}
  BY <1>1, <1>7 DEF OnSet
<1>8. Now(l, new) = k
  BY <1>1, <1>4, <1>5, <1>6 DEF Now
<1>9. Linked(l, new)
  <2>1. ASSUME NEW i \in 1 .. Len(new)
        PROVE  (IF i = 1 THEN l ELSE new[i - 1].on) \in Follows[new[i].on]
    <3>1. CASE i \in 1 .. c
      <4>1. i = 1 \/ i - 1 \in 1 .. c
        BY <3>1
      <4> QED
        BY <1>3, <1>5, <3>1, <4>1 DEF Linked
    <3>2. CASE i = c + 1 /\ c = 0
      BY <1>1, <1>3, <1>5, <3>2 DEF Now
    <3>3. CASE i = c + 1 /\ c # 0
      <4>1. c \in 1 .. c /\ i - 1 = c /\ i # 1 /\ out # <<>>
        BY <1>3, <3>3
      <4> QED
        BY <1>1, <1>3, <1>5, <3>3, <4>1 DEF Now
    <3> QED
      BY <1>3, <1>4, <2>1, <3>1, <3>2, <3>3
  <2> QED
    BY <2>1 DEF Linked
<1>10. \A y \in EventsOf(out) : y.on # k
  BY DEF OnSet
<1>11. Del(new, k) = n
  <2>1. EventsOn(new, k) = {x}
    BY <1>1, <1>7, <1>10 DEF EventsOn
  <2> QED
    BY <1>1, <2>1 DEF Del, LenOf
<1>12. ASSUME NEW j, j # k
       PROVE  Del(new, j) = Del(out, j)
  <2>1. EventsOn(new, j) = EventsOn(out, j)
    BY <1>1, <1>7, <1>12 DEF EventsOn
  <2> QED
    BY <2>1 DEF Del
<1> QED
  BY <1>4, <1>6, <1>8, <1>9, <1>11, <1>12, <1>13 DEF OneMore

(* What Observe reads is what Del and OnSet say.                           *)
LEMMA SameAsObserved ==
    ASSUME NEW p, NEW k
    PROVE  Delivered(p, k) = Del(p.out, k) /\ Callbacks(p) = OnSet(p.out)
  BY DEF Delivered, Callbacks, Events, Del, OnSet, EventsOf, EventsOn,
         LenOf

(* What CallbackOrder says of one step.                                    *)
LEMMA LinkedIsOrdered ==
    ASSUME NEW l, NEW out \in Outs, Linked(l, out)
    PROVE  LET seen == <<l>> \o [i \in DOMAIN out |-> out[i].on]
           IN  \A i \in 2..Len(seen) : seen[i - 1] \in Follows[seen[i]]
<1>1. PICK c \in Nat : c = Len(out) /\ DOMAIN out = 1 .. c
  BY DEF Outs
<1> DEFINE on == [i \in 1 .. c |-> out[i].on]
           seen == <<l>> \o on
<1>2. on \in Seq({out[i].on : i \in 1 .. c}) /\ Len(on) = c
  OBVIOUS
<1>3. on \in Seq({l} \cup {out[i].on : i \in 1 .. c})
  OBVIOUS
<1>4. <<l>> \in Seq({l} \cup {out[i].on : i \in 1 .. c}) /\ Len(<<l>>) = 1
  OBVIOUS
<1>5. Len(seen) = c + 1 /\ seen[1] = l /\ \A i \in 2 .. c + 1 : seen[i] = on[i - 1]
  <2> HIDE DEF on
  <2> QED
    BY <1>2, <1>3, <1>4
<1>6. ASSUME NEW i \in 2 .. c + 1
      PROVE  seen[i - 1] \in Follows[seen[i]]
  <2>1. i - 1 \in 1 .. c /\ on[i - 1] = out[i - 1].on
    BY <1>6
  <2>2. seen[i] = out[i - 1].on
    BY <1>5, <2>1
  <2>3. seen[i - 1] = IF i - 1 = 1 THEN l ELSE out[(i - 1) - 1].on
    <3>1. CASE i = 2
      BY <1>5, <3>1
    <3>2. CASE i # 2
      <4>1. i - 1 \in 2 .. c + 1 /\ (i - 1) - 1 \in 1 .. c
        BY <1>6, <3>2
      <4> QED
        BY <1>5, <3>2, <4>1
    <3> QED
      BY <3>1, <3>2
  <2> QED
    BY <1>1, <2>1, <2>2, <2>3 DEF Linked
<1> QED
  BY <1>1, <1>5, <1>6

-----------------------------------------------------------------------------
(* What one byte does *)

(* Where no body is read; where a byte belongs to the body; and what ends  *)
(* a chunk or a message.                                                   *)
HeadStates == IdleStates \cup FirstLineStates \cup LineStates \cup FieldStates
ReadingStates == {"s_body_identity", "s_body_identity_eof", "s_chunk_data"}
Completes == {"chunk_complete", "message_complete"}

(* The parser p is about to switch on its state, and l was the last        *)
(* callback.                                                               *)
Ready(p, l) ==
    /\ p \in Parser
    /\ Ok(p) /\ p.out = <<>> /\ p.left = FALSE
    /\ p.nread <= max_header_size
    /\ p.state = "s_chunk_size_start" => p.nread = 1
    /\ FlagInv(p.state, p.header_state, p.flags, p.te)
    /\ LengthInv(p.state, p.content_length)
    /\ OrderInv(p.state, p.flags, l)
    /\ MarkInv(p.state, p.mark)

(* The parser q is done with a byte.                                       *)
Resting(q, l) ==
    /\ q.nread <= max_header_size
    /\ q.state = "s_chunk_size_start" => q.nread = 0
    /\ FlagInv(q.state, q.header_state, q.flags, q.te)
    /\ LengthInv(q.state, q.content_length)
    /\ OrderInv(q.state, q.flags, l)
    /\ MarkInv(q.state, q.mark)
    /\ q.left => q.state \in IdleStates

(* Bytes of an item are delivered or still marked; the byte itself is one  *)
(* of the body if it was read in a state of the body.                      *)
Moved(p, q) ==
    /\ \A k \in DataKinds \ {"body"} :
          Del(q.out, k) + Held(q.mark, k) = Held(p.mark, k)
    /\ IF p.state \in ReadingStates /\ q.mark["body"] = NoMark
       THEN Del(q.out, "body") = Held(p.mark, "body") + 1
       ELSE /\ Del(q.out, "body") + Held(q.mark, "body") = Held(p.mark, "body")
            /\ p.state \in ReadingStates \/ q.mark["body"] = NoMark

(* What Observe makes of want.                                             *)
WantNext(p, q, w) ==
    IF \/ "chunk_header" \in OnSet(q.out)
       \/ p.state # "s_body_identity" /\ q.state = "s_body_identity"
    THEN q.content_length
    ELSE IF p.state = "s_body_identity_eof" THEN w ELSE w - Del(q.out, "body")

(* The bytes that are wanted when q goes on to the next byte.              *)
Due(q) ==
    (IF q.state \in {"s_body_identity", "s_chunk_data"} THEN q.content_length ELSE 0)
    + (IF q.state = "s_body_identity_eof" \/ q.mark["body"] = NoMark THEN 0
       ELSE q.mark["body"] + 1)

(* The step from p, ready for a byte, to q keeps everything that the       *)
(* invariant says of the parser, of its callbacks and of the bytes.        *)
Fin(p, q, l) ==
    /\ q \in Parser
    /\ q.errno # "ASSERT"
    /\ Linked(l, q.out)
    /\ Ok(q) => Resting(q, Now(l, q.out))
    /\ Ok(q) => Moved(p, q)
    /\ Ok(q) => WantNext(p, q, Expected(p)) = Due(q)
    /\ q.out # <<>> /\ Now(l, q.out) \in Completes => WantNext(p, q, Expected(p)) = 0

(* In the head content_length does not count down.                         *)
LEMMA HeadLengths ==
    ASSUME NEW s \in HeadStates, NEW c
    PROVE  LengthInv(s, c) /\ s # "s_chunk_size_start" /\ s \in States
  BY DEF LengthInv, HeadStates, IdleStates, FirstLineStates, LineStates,
         FieldStates, BeginStates, UrlStates, VersionStates, DiscardStates,
         SizeStates, States

(* A state of the head is none of the body.                                *)
LEMMA HeadNotBody ==
    ASSUME NEW s \in HeadStates
    PROVE  /\ s \notin ReadingStates
           /\ s \notin PlainStates \cup {"s_chunk_data", "s_chunk_data_almost_done"}
           /\ s \notin {"s_body_identity", "s_chunk_data"}
           /\ s # "s_body_identity_eof"
  BY DEF HeadStates, IdleStates, FirstLineStates, LineStates, ReadingStates,
         FieldStates, BeginStates, UrlStates, VersionStates, DiscardStates, PlainStates

(* In the head only the item of the state is marked.                       *)
LEMMA HeadMarks ==
    ASSUME NEW s \in HeadStates, NEW mark \in Marks, MarkInv(s, mark)
    PROVE  /\ mark["body"] = NoMark
           /\ Held(mark, "body") = 0
           /\ \A k \in DataKinds : k # ItemOf(s) => mark[k] = NoMark /\ Held(mark, k) = 0
           /\ \A k \in DataKinds : k = ItemOf(s) => mark[k] \in Nat /\ Held(mark, k) = mark[k]
  <1>1. mark["body"] = NoMark
    BY HeadNotBody DEF MarkInv
  <1>2. ItemOf(s) # "body"
    BY DEF ItemOf
  <1> QED
    BY <1>1, <1>2 DEF MarkInv, Held, Marks, DataKinds, NoMark

(* In the head no byte of a body is wanted.                                *)
LEMMA HeadWant ==
    ASSUME NEW l, NEW p, Ready(p, l), p.state \in HeadStates
    PROVE  Expected(p) = 0
<1>1. p.mark \in Marks
  BY DEF Ready, Parser
<1> QED
  BY <1>1, HeadNotBody, HeadMarks DEF Ready, Expected

(* A byte that is refused.                                                 *)
LEMMA Refused ==
    ASSUME NEW l, NEW p, NEW r \in Parser, r.out = <<>>,
           NEW e \in Refusals
    PROVE  Fin(p, SET_ERRNO(r, e), l)
<1>1. PICK q : q = SET_ERRNO(r, e)
  OBVIOUS
<1>2. e \in Errnos /\ e # "OK" /\ e # "ASSERT"
  BY DEF Errnos, Refusals
<1>3. q \in Parser /\ q.errno = e /\ q.out = <<>>
  BY <1>1, <1>2 DEF SET_ERRNO, Parser
<1> QED
  BY <1>1, <1>2, <1>3, NoneOut DEF Fin, Ok

(* A byte of the head without a callback.                                  *)
LEMMA Silent ==
    ASSUME NEW l, NEW p, Ready(p, l), p.state \in HeadStates,
           NEW q \in Parser, q.state \in HeadStates,
           Ok(q), q.out = <<>>, q.left = FALSE, q.nread = p.nread,
           FlagInv(q.state, q.header_state, q.flags, q.te),
           OrderInv(q.state, q.flags, l),
           MarkInv(q.state, q.mark),
           \A k \in DataKinds : Held(q.mark, k) = Held(p.mark, k)
    PROVE  Fin(p, q, l)
<1>1. q.mark \in Marks /\ p.mark \in Marks
  BY DEF Parser, Ready
<1>2. q.mark["body"] = NoMark /\ Held(q.mark, "body") = 0
  BY <1>1, HeadMarks
<1>3. Expected(p) = 0
  BY HeadWant
<1>4. Resting(q, l)
  BY HeadLengths DEF Ready, Resting
<1>5. \A k \in DataKinds : Held(q.mark, k) \in Int
  BY <1>1 DEF Held, Marks, NoMark
<1>6. Moved(p, q)
  BY <1>2, <1>5, HeadNotBody, NoneOut DEF Moved, DataKinds
<1>7. WantNext(p, q, Expected(p)) = 0
  BY <1>3, HeadNotBody, NoneOut DEF WantNext
<1>8. Due(q) = 0
  BY <1>2, HeadNotBody DEF Due
<1> QED
  BY <1>4, <1>6, <1>7, <1>8, NoneOut DEF Fin, Ok

(* Nothing but errno, marks and callbacks differ.                          *)
SameHead(r, q) ==
    /\ q.state = r.state
    /\ q.header_state = r.header_state
    /\ q.flags = r.flags
    /\ q.te = r.te
    /\ q.content_length = r.content_length
    /\ q.nread = r.nread
    /\ q.left = r.left

(* The parser q is r after callback k, which has got n bytes.              *)
AfterCall(l, r, q, k, n, mark) ==
    /\ q \in Parser
    /\ q.errno \in {"OK", "CB"}
    /\ SameHead(r, q)
    /\ OneMore(l, r.out, q.out, k, n)
    /\ q.mark = mark

(* A callback takes the mark away.                                         *)
Unmarked(mark, k) == [mark EXCEPT ![k] = NoMark]

(* Callback k may be called now.                                           *)
MayCall(l, r, k) ==
    /\ r \in Parser
    /\ Ok(r)
    /\ k \notin OnSet(r.out)
    /\ Linked(l, r.out)
    /\ Now(l, r.out) \in Follows[k]

(* A callback.                                                             *)
LEMMA CalledEffect ==
    ASSUME NEW l, NEW r, NEW k \in DataKinds \cup NoticeKinds,
           NEW n \in Nat, NEW m \in 0 .. 1, MayCall(l, r, k)
    PROVE  AfterCall(l, r, Called(r, k, n, m), k, n, r.mark)
<1> USE DEF MayCall
<1>1. r.out \in Outs
  BY DEF Parser
<1>2. PICK new : new = Append(r.out, [on |-> k, len |-> n, more |-> m])
  OBVIOUS
<1>3. new \in Outs /\ OneMore(l, r.out, new, k, n)
  BY <1>1, <1>2, OneMoreOut, Zenon
<1>4. PICK e \in {"OK", "CB"} : e = IF r.fail = k THEN "CB" ELSE r.errno
  BY DEF Ok
<1>5. PICK q : q = Called(r, k, n, m)
  OBVIOUS
<1>6. q = [r EXCEPT !.out = new, !.errno = e]
  BY <1>2, <1>4, <1>5 DEF Called
<1>7. q \in Parser /\ q.out = new /\ q.errno = e
  <2>1. e \in Errnos
    BY <1>4 DEF Errnos, Refusals
  <2> QED
    BY <1>3, <1>6, <2>1 DEF Parser
<1>8. q.mark = r.mark /\ SameHead(r, q)
  BY <1>6 DEF Parser, SameHead
<1> QED
  BY <1>3, <1>5, <1>7, <1>8 DEF AfterCall

(* CALLBACK_DATA where the item is marked.                                 *)
LEMMA DataEffect ==
    ASSUME NEW l, NEW r, NEW k \in DataKinds, NEW m \in 0 .. 1,
           MayCall(l, r, k), r.mark[k] # NoMark
    PROVE  AfterCall(l, r, CALLBACK_DATA_(r, k, m), k, r.mark[k] + m,
                     Unmarked(r.mark, k))
<1>1. r.mark \in Marks /\ Ok(r)
  BY DEF Parser, MayCall
<1>2. PICK n \in Nat : n = r.mark[k] + m
  BY <1>1 DEF Marks, NoMark
<1>3. PICK c : c = Called(r, k, n, m)
  OBVIOUS
<1>4. AfterCall(l, r, c, k, n, r.mark)
  <2>1. k \in DataKinds \cup NoticeKinds
    OBVIOUS
  <2> QED
    BY <1>3, <2>1, CalledEffect
<1>5. PICK new \in Marks : new = Unmarked(r.mark, k)
  BY <1>1 DEF Marks, Unmarked
<1>6. PICK q : q = CALLBACK_DATA_(r, k, m)
  OBVIOUS
<1>7. q = [c EXCEPT !.mark[k] = NoMark]
  BY <1>1, <1>2, <1>3, <1>6 DEF CALLBACK_DATA_
<1>8. q = [c EXCEPT !.mark = new]
  BY <1>4, <1>5, <1>7 DEF AfterCall, Unmarked
<1>9. /\ q \in Parser /\ q.errno = c.errno /\ SameHead(c, q)
      /\ q.mark = new /\ q.out = c.out
  BY <1>4, <1>8 DEF Parser, SameHead, AfterCall
<1>10. AfterCall(l, r, q, k, n, new)
  BY <1>4, <1>9 DEF SameHead, AfterCall
<1> QED
  BY <1>2, <1>5, <1>6, <1>9, <1>10

(* CALLBACK_NOTIFY.                                                        *)
LEMMA NoticeEffect ==
    ASSUME NEW l, NEW r, NEW k \in NoticeKinds, MayCall(l, r, k)
    PROVE  AfterCall(l, r, CALLBACK_NOTIFY(r, k), k, 0, r.mark)
<1>1. PICK n \in Nat, m \in 0 .. 1 : n = 0 /\ m = 0
  OBVIOUS
<1>2. CALLBACK_NOTIFY(r, k) = Called(r, k, n, m)
  BY <1>1 DEF CALLBACK_NOTIFY, MayCall
<1>3. AfterCall(l, r, Called(r, k, n, m), k, n, r.mark)
  <2>1. k \in DataKinds \cup NoticeKinds
    OBVIOUS
  <2> QED
    BY <2>1, CalledEffect
<1> QED
  BY <1>1, <1>2, <1>3

(* A byte of the head that ends item k.                                    *)
LEMMA Reported ==
    ASSUME NEW l, NEW p, Ready(p, l), p.state \in HeadStates,
           NEW r \in Parser, r.state \in HeadStates,
           Ok(r), r.out = <<>>, r.left = FALSE, r.nread = p.nread,
           NEW k \in DataKinds \ {"body"}, r.mark[k] # NoMark,
           l \in Follows[k],
           FlagInv(r.state, r.header_state, r.flags, r.te),
           OrderInv(r.state, r.flags, k),
           MarkInv(r.state, Unmarked(r.mark, k)),
           \A j \in DataKinds : Held(r.mark, j) = Held(p.mark, j),
           NEW q, q = CALLBACK_DATA(r, k)
    PROVE  Fin(p, q, l)
<1>0. AfterCall(l, r, q, k, r.mark[k], Unmarked(r.mark, k))
  <2>1. PICK m \in 0 .. 1 : m = 0
    OBVIOUS
  <2>2. q = CALLBACK_DATA_(r, k, m)
    BY <2>1 DEF CALLBACK_DATA
  <2>3. MayCall(l, r, k)
    BY NoneOut DEF MayCall
  <2>4. AfterCall(l, r, q, k, r.mark[k] + m, Unmarked(r.mark, k))
    <3>1. k \in DataKinds /\ r.mark[k] # NoMark
      OBVIOUS
    <3> QED
      BY <2>2, <2>3, <3>1, DataEffect
  <2>5. r.mark[k] + m = r.mark[k]
    BY <2>1 DEF Parser, Marks, NoMark
  <2> QED
    BY <2>4, <2>5
<1>1. q.mark \in Marks /\ p.mark \in Marks /\ r.mark \in Marks
  BY <1>0 DEF AfterCall, Ready, Parser
<1>2. /\ q \in Parser
      /\ q.errno \in {"OK", "CB"}
      /\ SameHead(r, q)
      /\ q.mark = Unmarked(r.mark, k)
      /\ OnSet(q.out) = {k}
      /\ Now(l, q.out) = k
      /\ Linked(l, q.out)
      /\ Del(q.out, k) = r.mark[k]
      /\ \A j \in DataKinds : j # k => Del(q.out, j) = 0
  BY <1>0, NoneOut DEF AfterCall, OneMore
<1>3. q.mark["body"] = NoMark /\ Held(q.mark, "body") = 0 /\ Held(p.mark, "body") = 0
  <2>1. q.state \in HeadStates /\ MarkInv(q.state, q.mark) /\ MarkInv(p.state, p.mark)
    BY <1>2 DEF SameHead, Ready
  <2> QED
    BY <1>1, <2>1, HeadMarks
<1>4. Expected(p) = 0
  BY HeadWant
<1>5. Resting(q, k)
  BY <1>2, HeadLengths DEF Ready, Resting, SameHead
<1>6. \A j \in DataKinds : Held(q.mark, j) = IF j = k THEN 0 ELSE Held(r.mark, j)
  BY <1>1, <1>2 DEF Held, Marks, Unmarked
<1>7. \A j \in DataKinds : Held(r.mark, j) \in Int
  BY <1>1 DEF Held, Marks, NoMark
<1>8. r.mark[k] = Held(r.mark, k)
  BY DEF Held
<1>9. Moved(p, q)
  <2>1. \A j \in DataKinds \ {"body"} : Del(q.out, j) + Held(q.mark, j) = Held(p.mark, j)
    BY <1>2, <1>6, <1>7, <1>8
  <2> QED
    BY <1>2, <1>3, <2>1, HeadNotBody DEF Moved, DataKinds
<1>10. WantNext(p, q, Expected(p)) = 0
  BY <1>2, <1>4, HeadNotBody DEF WantNext, SameHead, DataKinds
<1>11. Due(q) = 0
  BY <1>2, <1>3, HeadNotBody DEF Due, SameHead
<1> QED
  BY <1>2, <1>5, <1>9, <1>10, <1>11 DEF Fin

(* A byte that begins a message.                                           *)
LEMMA Begun ==
    ASSUME NEW l, NEW p, Ready(p, l), p.state \in IdleStates,
           NEW r \in Parser, r.state \in BeginStates,
           Ok(r), r.out = <<>>, r.left = FALSE, r.nread = p.nread,
           r.mark = p.mark, r.flags = {},
           NEW q, q = CALLBACK_NOTIFY(r, "message_begin")
    PROVE  Fin(p, q, l)
<1>1. p.state \in HeadStates /\ r.state \in HeadStates
  BY DEF HeadStates, FirstLineStates
<1>2. l \in {"none", "message_complete"}
  BY DEF Ready, OrderInv
<1>3. /\ q \in Parser
      /\ q.errno \in {"OK", "CB"}
      /\ SameHead(r, q)
      /\ q.mark = p.mark
      /\ OnSet(q.out) = {"message_begin"}
      /\ Now(l, q.out) = "message_begin"
      /\ Linked(l, q.out)
      /\ \A j \in DataKinds : Del(q.out, j) = 0
  <2>1. l \in Follows["message_begin"]
    BY <1>2 DEF Follows
  <2>2. "message_begin" \in NoticeKinds /\ "message_begin" \notin DataKinds
    BY DEF NoticeKinds, DataKinds
  <2>3. MayCall(l, r, "message_begin")
    BY <2>1, NoneOut DEF MayCall
  <2>4. AfterCall(l, r, q, "message_begin", 0, r.mark)
    BY <2>2, <2>3, NoticeEffect
  <2> QED
    BY <2>2, <2>4, NoneOut DEF AfterCall, OneMore
<1>4. p.mark \in Marks /\ MarkInv(p.state, p.mark)
  BY DEF Ready, Parser
<1>5. p.mark["body"] = NoMark /\ Held(p.mark, "body") = 0
  BY <1>1, <1>4, HeadMarks
<1>6. ItemOf(p.state) = "none" /\ ItemOf(r.state) = "none"
  BY DEF ItemOf, IdleStates, BeginStates, UrlStates
<1>7. MarkInv(r.state, p.mark)
  BY <1>4, <1>5, <1>6 DEF MarkInv
<1>8. FlagInv(r.state, r.header_state, r.flags, r.te)
  BY DEF FlagInv, BeginStates, FieldStates, DiscardStates, ChunkStates
<1>9. OrderInv(r.state, r.flags, "message_begin")
  BY DEF OrderInv, BeginStates, IdleStates, UrlStates, VersionStates, LineStates,
         DiscardStates, SizeStates, DataStates, PlainStates
<1>10. Resting(q, "message_begin")
  BY <1>1, <1>3, <1>7, <1>8, <1>9, HeadLengths DEF Ready, Resting, SameHead
<1>11. \A j \in DataKinds : Held(p.mark, j) \in Int
  BY <1>4 DEF Held, Marks, NoMark
<1>12. Moved(p, q)
  BY <1>1, <1>3, <1>5, <1>11, HeadNotBody DEF Moved, DataKinds
<1>13. WantNext(p, q, Expected(p)) = 0
  BY <1>1, <1>3, HeadWant, HeadNotBody DEF WantNext, SameHead, DataKinds
<1>14. Due(q) = 0
  BY <1>1, <1>3, <1>5, HeadNotBody DEF Due, SameHead
<1> QED
  BY <1>3, <1>10, <1>12, <1>13, <1>14 DEF Fin

-----------------------------------------------------------------------------
(* The first line *)

(* The items of the states.                                                *)
LEMMA ItemFacts ==
    /\ ItemOf("s_header_field") = "header_field"
    /\ ItemOf("s_header_value") = "header_value"
    /\ ItemOf("s_res_status") = "status"
    /\ \A s \in UrlStates : ItemOf(s) = "url"
    /\ \A s : s \notin UrlStates \cup {"s_header_field", "s_header_value", "s_res_status"}
                 => ItemOf(s) = "none"
  BY DEF ItemOf, UrlStates

(* Neither q's marks nor its flags nor its callbacks differ from p's.      *)
Untouched(p, q) ==
    /\ q \in Parser
    /\ q.errno = p.errno
    /\ q.out = p.out
    /\ q.left = p.left
    /\ q.nread = p.nread
    /\ q.flags = p.flags
    /\ q.te = p.te
    /\ q.mark = p.mark

(* UPDATE_STATE changes nothing but the state.                             *)
LEMMA UpdateState ==
    ASSUME NEW p \in Parser, NEW s \in States
    PROVE  /\ Untouched(p, UPDATE_STATE(p, s))
           /\ UPDATE_STATE(p, s).state = s
           /\ UPDATE_STATE(p, s).header_state = p.header_state
           /\ UPDATE_STATE(p, s).content_length = p.content_length
<1>1. PICK q : q = UPDATE_STATE(p, s)
  OBVIOUS
<1>2. Untouched(p, q) /\ q.state = s
  BY <1>1 DEF UPDATE_STATE, Untouched, Parser
<1>3. q.header_state = p.header_state /\ q.content_length = p.content_length
  BY <1>1 DEF UPDATE_STATE, Parser
<1> QED
  BY <1>1, <1>2, <1>3

(* What is known of a parser that is ready.                                *)
LEMMA ReadyFacts ==
    ASSUME NEW l, NEW p, Ready(p, l)
    PROVE  /\ p \in Parser /\ Ok(p) /\ p.out = <<>> /\ p.left = FALSE
           /\ p.mark \in Marks
           /\ MarkInv(p.state, p.mark)
           /\ OrderInv(p.state, p.flags, l)
           /\ FlagInv(p.state, p.header_state, p.flags, p.te)
  BY DEF Ready, Parser

(* A byte that is refused at once.                                         *)
LEMMA RefusedHere ==
    ASSUME NEW l, NEW p, Ready(p, l), NEW e \in Refusals
    PROVE  Fin(p, SET_ERRNO(p, e), l)
  BY ReadyFacts, Refused

(* The flags of a first line stay right up to the header.                  *)
LEMMA FirstLineFlags ==
    ASSUME NEW s \in FirstLineStates, NEW h, NEW flags, NEW te,
           FlagInv(s, h, flags, te),
           NEW t \in FirstLineStates \cup {"s_header_field_start"}, NEW g
    PROVE  FlagInv(t, g, flags, te) /\ "TRAILING" \notin flags
  BY DEF FlagInv, FirstLineStates, BeginStates, UrlStates, VersionStates,
         FieldStates, DiscardStates, ChunkStates

(* The same for two parsers.                                               *)
LEMMA KeptFlags ==
    ASSUME NEW p, NEW r, p.state \in FirstLineStates,
           FlagInv(p.state, p.header_state, p.flags, p.te),
           r.state \in FirstLineStates \cup {"s_header_field_start"},
           r.flags = p.flags, r.te = p.te
    PROVE  FlagInv(r.state, r.header_state, r.flags, r.te) /\ "TRAILING" \notin r.flags
<1>1. FlagInv(r.state, r.header_state, p.flags, p.te) /\ "TRAILING" \notin p.flags
  BY FirstLineFlags
<1> QED
  BY <1>1

(* Two states with the same item allow the same marks.                     *)
LEMMA SameItem ==
    ASSUME NEW s \in HeadStates, NEW mark \in Marks, MarkInv(s, mark),
           NEW t \in HeadStates, ItemOf(t) = ItemOf(s)
    PROVE  MarkInv(t, mark)
<1>1. mark["body"] = NoMark
  BY HeadMarks
<1> QED
  BY <1>1 DEF MarkInv

(* A step within a class of states leaves the last callback right.         *)
LEMMA SameClass ==
    ASSUME NEW s, NEW t, NEW flags, NEW l, OrderInv(s, flags, l),
           \/ s \in BeginStates /\ t \in BeginStates
           \/ s \in VersionStates /\ t \in VersionStates
           \/ s \in UrlStates /\ t \in UrlStates
           \/ s = t
    PROVE  OrderInv(t, flags, l)
<1>1. CASE s \in BeginStates /\ t \in BeginStates
  BY <1>1 DEF OrderInv, BeginStates, IdleStates, UrlStates, VersionStates,
         LineStates, DiscardStates, SizeStates, DataStates, PlainStates
<1>2. CASE s \in VersionStates /\ t \in VersionStates
  BY <1>2 DEF OrderInv, BeginStates, IdleStates, UrlStates, VersionStates,
         LineStates, DiscardStates, SizeStates, DataStates, PlainStates
<1>3. CASE s \in UrlStates /\ t \in UrlStates
  BY <1>3 DEF OrderInv, BeginStates, IdleStates, UrlStates, VersionStates,
         LineStates, DiscardStates, SizeStates, DataStates, PlainStates
<1> QED
  BY <1>1, <1>2, <1>3

(* To another state of the same part of the line.                          *)
LEMMA Within ==
    ASSUME NEW l, NEW p, Ready(p, l), NEW q, Untouched(p, q),
           \/ p.state \in BeginStates /\ q.state \in BeginStates
           \/ p.state \in VersionStates /\ q.state \in VersionStates
           \/ p.state \in UrlStates /\ q.state \in UrlStates
           \/ p.state = "s_res_status" /\ q.state = "s_res_status"
           \/ p.state \in IdleStates /\ q.state = p.state
    PROVE  Fin(p, q, l)
<1>1. p.state \in HeadStates /\ q.state \in HeadStates
  BY DEF HeadStates, FirstLineStates
<1>2. ItemOf(p.state) = ItemOf(q.state)
  BY ItemFacts DEF BeginStates, VersionStates, UrlStates
<1>3. MarkInv(q.state, q.mark)
  <2>1. p.mark \in Marks /\ MarkInv(p.state, p.mark) /\ q.mark = p.mark
    BY ReadyFacts DEF Untouched
  <2> QED
    BY <1>1, <1>2, <2>1, SameItem
<1>4. OrderInv(q.state, q.flags, l)
  <2>1. OrderInv(p.state, p.flags, l) /\ q.flags = p.flags
    BY ReadyFacts DEF Untouched
  <2> QED
    BY <2>1, SameClass
<1>5. FlagInv(q.state, q.header_state, q.flags, q.te)
  <2>1. CASE p.state \in IdleStates
    BY <2>1, ReadyFacts DEF FlagInv, IdleStates, FieldStates, DiscardStates,
         ChunkStates, FirstLineStates, BeginStates, UrlStates, VersionStates, Untouched
  <2>2. CASE p.state \notin IdleStates
    <3>1. FlagInv(p.state, p.header_state, p.flags, p.te)
      BY ReadyFacts
    <3>2. p.state \in FirstLineStates /\ q.state \in FirstLineStates
      BY <2>2 DEF FirstLineStates
    <3>3. FlagInv(q.state, q.header_state, p.flags, p.te)
      BY <3>1, <3>2, FirstLineFlags
    <3> QED
      BY <3>3 DEF Untouched
  <2> QED
    BY <2>1, <2>2
<1>6. /\ q \in Parser /\ Ok(q) /\ q.out = <<>> /\ q.left = FALSE /\ q.nread = p.nread
      /\ \A k \in DataKinds : Held(q.mark, k) = Held(p.mark, k)
  BY ReadyFacts DEF Untouched, Ok
<1> QED
  BY <1>1, <1>3, <1>4, <1>5, <1>6, Silent

(* UPDATE_STATE within a class of states.                                  *)
LEMMA GoTo ==
    ASSUME NEW l, NEW p, Ready(p, l), NEW s,
           \/ p.state \in BeginStates /\ s \in BeginStates
           \/ p.state \in VersionStates /\ s \in VersionStates
           \/ p.state \in UrlStates /\ s \in UrlStates
    PROVE  Fin(p, UPDATE_STATE(p, s), l)
<1>1. s \in States
  BY DEF States, BeginStates, VersionStates
<1>2. PICK q : q = UPDATE_STATE(p, s)
  OBVIOUS
<1>3. Untouched(p, q) /\ q.state = s
  BY <1>1, <1>2, ReadyFacts, UpdateState
<1> QED
  BY <1>2, <1>3, Within

(* A byte that is skipped.                                                 *)
LEMMA Stay ==
    ASSUME NEW l, NEW p, Ready(p, l), p.state \in IdleStates \cup FirstLineStates,
           p.state # "s_res_line_almost_done"
    PROVE  Fin(p, p, l)
<1>1. Untouched(p, p)
  BY ReadyFacts DEF Untouched
<1> QED
  BY <1>1, Within DEF FirstLineStates

(* To the header, without a callback.                                      *)
LEMMA ToHeader ==
    ASSUME NEW l, NEW p, Ready(p, l),
           p.state \in VersionStates \cup {"s_res_line_almost_done"}
    PROVE  Fin(p, UPDATE_STATE(p, "s_header_field_start"), l)
<1>1. "s_header_field_start" \in States /\ p.state \in FirstLineStates
  BY DEF States, FirstLineStates
<1>2. PICK q : q = UPDATE_STATE(p, "s_header_field_start")
  OBVIOUS
<1>3. Untouched(p, q) /\ q.state = "s_header_field_start"
  BY <1>1, <1>2, ReadyFacts, UpdateState
<1>4. p.state \in HeadStates /\ q.state \in HeadStates
  BY <1>1, <1>3 DEF HeadStates, LineStates
<1>5. ItemOf(p.state) = "none" /\ ItemOf(q.state) = "none"
  BY <1>3, ItemFacts DEF VersionStates, UrlStates
<1>6. MarkInv(q.state, q.mark)
  <2>1. p.mark \in Marks /\ MarkInv(p.state, p.mark) /\ q.mark = p.mark
    BY <1>3, ReadyFacts DEF Untouched
  <2> QED
    BY <1>4, <1>5, <2>1, SameItem
<1>7. /\ FlagInv(q.state, q.header_state, q.flags, q.te)
      /\ "TRAILING" \notin q.flags
  <2>1. FlagInv(p.state, p.header_state, p.flags, p.te)
    BY ReadyFacts
  <2>2. FlagInv(q.state, q.header_state, p.flags, p.te) /\ "TRAILING" \notin p.flags
    BY <1>1, <1>3, <2>1, FirstLineFlags
  <2> QED
    BY <1>3, <2>2 DEF Untouched
<1>8. l \in {"url", "status"}
  <2>1. OrderInv(p.state, p.flags, l)
    BY ReadyFacts
  <2> QED
    BY <2>1 DEF OrderInv
<1>9. OrderInv(q.state, q.flags, l)
  BY <1>3, <1>7, <1>8 DEF OrderInv, BeginStates, IdleStates, UrlStates,
         VersionStates, DiscardStates, SizeStates, DataStates, PlainStates
<1>10. /\ q \in Parser /\ Ok(q) /\ q.out = <<>> /\ q.left = FALSE /\ q.nread = p.nread
       /\ \A k \in DataKinds : Held(q.mark, k) = Held(p.mark, k)
  BY <1>3, ReadyFacts DEF Untouched, Ok
<1> QED
  BY <1>2, <1>4, <1>6, <1>7, <1>9, <1>10, Silent

(* The parser r has what a first byte leaves alone in common with p.       *)
Fresh(p, r) ==
    /\ r \in Parser
    /\ Ok(r) /\ r.out = <<>> /\ r.left = FALSE
    /\ r.nread = p.nread
    /\ r.mark = p.mark

(* Reset at the beginning of a message.                                    *)
LEMMA ResetEffect ==
    ASSUME NEW p, NEW r, Fresh(p, r)
    PROVE  Fresh(p, Reset(r)) /\ Reset(r).flags = {}
<1>1. PICK q : q = Reset(r)
  OBVIOUS
<1>2. MaxLength \in Lengths /\ {} \in FlagSets
  BY ParserBounds DEF Lengths, FlagSets
<1>3. q \in Parser /\ q.flags = {} /\ q.mark = r.mark
  BY <1>1, <1>2 DEF Reset, Parser, Fresh
<1>4. q.errno = r.errno /\ q.out = r.out /\ q.left = r.left /\ q.nread = r.nread
  BY <1>1 DEF Reset, Parser, Fresh
<1> QED
  BY <1>1, <1>3, <1>4 DEF Fresh, Ok

(* A parser is its own beginning.                                          *)
LEMMA FreshAtFirst ==
    ASSUME NEW l, NEW p, Ready(p, l)
    PROVE  Fresh(p, p)
  BY DEF Ready, Fresh

(* A byte in s_dead.                                                       *)
LEMMA DeadFin ==
    ASSUME NEW l, NEW p, Ready(p, l), p.state = "s_dead", NEW ch
    PROVE  Fin(p, Dead(p, ch), l)
<1>1. p.state \in IdleStates
  BY DEF IdleStates
<1>2. "CLOSED_CONNECTION" \in Refusals
  BY DEF Refusals
<1>3. Fin(p, p, l)
  BY <1>1, Stay, ItemFacts DEF IdleStates
<1>4. Fin(p, SET_ERRNO(p, "CLOSED_CONNECTION"), l)
  BY <1>2, RefusedHere
<1> QED
  BY <1>3, <1>4 DEF Dead

(* A byte in s_start_req.                                                  *)
LEMMA StartReqFin ==
    ASSUME NEW l, NEW p, Ready(p, l), p.state \in IdleStates,
           NEW r, Fresh(p, r), NEW ch, IsEol(ch) => r = p
    PROVE  Fin(p, StartReq(r, ch), l)
<1>1. PICK c : c = Reset(r)
  OBVIOUS
<1>2. Fresh(p, c) /\ c.flags = {}
  BY <1>1, ResetEffect
<1>3. CASE IsEol(ch)
  <2>1. Fin(p, p, l)
    BY Stay DEF IdleStates
  <2> QED
    BY <1>3, <2>1 DEF StartReq
<1>4. CASE ~IsEol(ch) /\ ch \notin DOMAIN MethodOf
  <2>1. "INVALID_METHOD" \in Refusals
    BY DEF Refusals
  <2>2. Fin(p, SET_ERRNO(c, "INVALID_METHOD"), l)
    BY <1>2, <2>1, Refused DEF Fresh
  <2> QED
    BY <1>1, <1>4, <2>2 DEF StartReq
<1>5. CASE ~IsEol(ch) /\ ch \in DOMAIN MethodOf
  <2>1. MethodOf[ch] \in Methods
    BY <1>5 DEF MethodOf, Methods
  <2>2. PICK m \in Methods : m = MethodOf[ch]
    BY <2>1
  <2>3. PICK d : d = [c EXCEPT !.method = m, !.index = 1, !.state = "s_req_method"]
    OBVIOUS
  <2>4. "s_req_method" \in States /\ 1 \in Nat
    BY DEF States
  <2>5. d \in Parser /\ d.state = "s_req_method" /\ d.flags = c.flags
    BY <1>2, <2>3, <2>4 DEF Fresh, Parser
  <2>6. /\ d.errno = c.errno /\ d.out = c.out /\ d.left = c.left
        /\ d.nread = c.nread /\ d.mark = c.mark
    BY <1>2, <2>3 DEF Fresh, Parser
  <2>7. d.state \in BeginStates
    BY <2>5 DEF BeginStates
  <2>8. Fin(p, CALLBACK_NOTIFY(d, "message_begin"), l)
    BY <1>2, <2>5, <2>6, <2>7, Begun DEF Fresh, Ok
  <2> QED
    BY <1>1, <1>5, <2>2, <2>3, <2>8 DEF StartReq
<1> QED
  BY <1>3, <1>4, <1>5

(* The H that begins a response.                                           *)
LEMMA StartResponse ==
    ASSUME NEW l, NEW p, Ready(p, l), p.state \in IdleStates,
           NEW s \in BeginStates
    PROVE  Fin(p, CALLBACK_NOTIFY(UPDATE_STATE(Reset(p), s), "message_begin"), l)
<1>1. PICK c : c = Reset(p)
  OBVIOUS
<1>2. Fresh(p, c) /\ c.flags = {}
  BY <1>1, FreshAtFirst, ResetEffect
<1>3. PICK d : d = UPDATE_STATE(c, s)
  OBVIOUS
<1>4. s \in States
  BY DEF BeginStates, States
<1>5. Untouched(c, d) /\ d.state = s
  BY <1>2, <1>3, <1>4, UpdateState DEF Fresh
<1> QED
  BY <1>1, <1>2, <1>3, <1>5, Begun DEF Fresh, Untouched, Ok

(* A byte in s_start_res.                                                  *)
LEMMA StartResFin ==
    ASSUME NEW l, NEW p, Ready(p, l), p.state = "s_start_res", NEW ch
    PROVE  Fin(p, StartRes(p, ch), l)
<1>1. p.state \in IdleStates /\ "s_res_H" \in BeginStates
  BY DEF IdleStates, BeginStates
<1>2. Fin(p, p, l)
  BY <1>1, Stay DEF IdleStates
<1>3. Fin(p, CALLBACK_NOTIFY(UPDATE_STATE(Reset(p), "s_res_H"), "message_begin"), l)
  BY <1>1, StartResponse
<1>4. Fin(p, SET_ERRNO(Reset(p), "INVALID_CONSTANT"), l)
  <2>1. Fresh(p, Reset(p))
    BY FreshAtFirst, ResetEffect
  <2>2. "INVALID_CONSTANT" \in Refusals
    BY DEF Refusals
  <2> QED
    BY <2>1, <2>2, Refused DEF Fresh
<1> QED
  BY <1>2, <1>3, <1>4 DEF StartRes, IsEol, CR, LF

(* A byte in s_start_req_or_res.                                           *)
LEMMA StartReqOrResFin ==
    ASSUME NEW l, NEW p, Ready(p, l), p.state = "s_start_req_or_res", NEW ch
    PROVE  Fin(p, StartReqOrRes(p, ch), l)
<1>1. p.state \in IdleStates /\ "s_res_or_resp_H" \in BeginStates
  BY DEF IdleStates, BeginStates
<1>2. Fin(p, p, l)
  BY <1>1, Stay DEF IdleStates
<1>3. Fin(p, CALLBACK_NOTIFY(UPDATE_STATE(Reset(p), "s_res_or_resp_H"),
                             "message_begin"), l)
  BY <1>1, StartResponse
<1>4. PICK c : c = Reset(p)
  OBVIOUS
<1>5. Fresh(p, c)
  BY <1>4, FreshAtFirst, ResetEffect
<1>6. PICK d : d = [c EXCEPT !.type = "REQUEST", !.state = "s_start_req"]
  OBVIOUS
<1>7. Fresh(p, d)
  <2>1. "REQUEST" \in MessageTypes /\ "s_start_req" \in States
    BY DEF MessageTypes, States
  <2>2. d \in Parser
    BY <1>5, <1>6, <2>1 DEF Fresh, Parser
  <2>3. /\ d.errno = c.errno /\ d.out = c.out /\ d.left = c.left
        /\ d.nread = c.nread /\ d.mark = c.mark
    BY <1>5, <1>6 DEF Fresh, Parser
  <2> QED
    BY <1>5, <2>2, <2>3 DEF Fresh, Ok
<1>8. ~IsEol(ch) => Fin(p, StartReq(d, ch), l)
  BY <1>1, <1>7, StartReqFin
<1> QED
  BY <1>2, <1>3, <1>4, <1>6, <1>8 DEF StartReqOrRes, IsEol, CR, LF

(* A byte in s_res_or_resp_H.                                              *)
LEMMA ResOrRespHFin ==
    ASSUME NEW l, NEW p, Ready(p, l), p.state = "s_res_or_resp_H", NEW ch
    PROVE  Fin(p, ResOrRespH(p, ch), l)
<1>1. p \in Parser /\ p.state \in BeginStates
  <2>1. p \in Parser
    BY ReadyFacts
  <2> QED
    BY <2>1 DEF BeginStates
<1>2. PICK q : q = [p EXCEPT !.type = "RESPONSE", !.state = "s_res_HT"]
  OBVIOUS
<1>3. Fin(p, q, l)
  <2>1. "RESPONSE" \in MessageTypes /\ "s_res_HT" \in States /\ "s_res_HT" \in BeginStates
    BY DEF MessageTypes, States, BeginStates
  <2>2. Untouched(p, q) /\ q.state = "s_res_HT"
    BY <1>1, <1>2, <2>1 DEF Untouched, Parser
  <2> QED
    BY <1>1, <2>1, <2>2, Within
<1>4. PICK r : r = [p EXCEPT !.type = "REQUEST", !.method = "HEAD",
                             !.index = 1, !.state = "s_req_method"]
  OBVIOUS
<1>5. Fin(p, r, l)
  <2>1. /\ "REQUEST" \in MessageTypes /\ "HEAD" \in Methods /\ 1 \in Nat
        /\ "s_req_method" \in States /\ "s_req_method" \in BeginStates
    BY DEF MessageTypes, Methods, States, BeginStates
  <2>2. Untouched(p, r) /\ r.state = "s_req_method"
    BY <1>1, <1>4, <2>1 DEF Untouched, Parser
  <2> QED
    BY <1>1, <2>1, <2>2, Within
<1>6. Fin(p, SET_ERRNO(p, "INVALID_CONSTANT"), l)
  BY RefusedHere DEF Refusals
<1> QED
  BY <1>2, <1>3, <1>4, <1>5, <1>6 DEF ResOrRespH

(* The value of a digit.                                                   *)
LEMMA Digits ==
    ASSUME NEW ch, IS_NUM(ch)
    PROVE  Value[ch] \in 0 .. 2
  BY DEF IS_NUM, Value

(* A byte of the version, in a request or a response.                      *)
LEMMA MajorFin ==
    ASSUME NEW l, NEW p, Ready(p, l), NEW s, NEW ch,
           \/ p.state \in BeginStates /\ s \in BeginStates
           \/ p.state \in VersionStates /\ s \in VersionStates
    PROVE  Fin(p, Major(p, ch, s), l) /\ Fin(p, Minor(p, ch, s), l)
<1>1. p \in Parser /\ s \in States
  <2>1. p \in Parser
    BY ReadyFacts
  <2> QED
    BY <2>1 DEF BeginStates, VersionStates, States
<1>2. Fin(p, SET_ERRNO(p, "INVALID_VERSION"), l)
  BY RefusedHere DEF Refusals
<1>3. CASE IS_NUM(ch)
  <2>1. PICK v \in Nat : v = Value[ch]
    BY <1>3, Digits
  <2>2. PICK q : q = [p EXCEPT !.major = v, !.state = s]
    OBVIOUS
  <2>3. Untouched(p, q) /\ q.state = s
    BY <1>1, <2>2 DEF Untouched, Parser
  <2>4. PICK r : r = [p EXCEPT !.minor = v, !.state = s]
    OBVIOUS
  <2>5. Untouched(p, r) /\ r.state = s
    BY <1>1, <2>4 DEF Untouched, Parser
  <2>6. Fin(p, q, l) /\ Fin(p, r, l)
    BY <2>3, <2>5, Within
  <2> QED
    BY <1>3, <2>1, <2>2, <2>4, <2>6 DEF Major, Minor
<1> QED
  BY <1>2, <1>3 DEF Major, Minor

(* A byte in s_res_first_status_code.                                      *)
LEMMA ResFirstStatusCodeFin ==
    ASSUME NEW l, NEW p, Ready(p, l), p.state = "s_res_first_status_code", NEW ch
    PROVE  Fin(p, ResFirstStatusCode(p, ch), l)
<1>1. p \in Parser /\ p.state \in BeginStates /\ p.state \in FirstLineStates
  BY ReadyFacts DEF BeginStates, FirstLineStates
<1>2. Fin(p, SET_ERRNO(p, "INVALID_STATUS"), l)
  BY RefusedHere DEF Refusals
<1>3. Fin(p, p, l)
  BY <1>1, Stay
<1>4. ASSUME IS_NUM(ch)
      PROVE  Fin(p, [p EXCEPT !.status_code = Value[ch],
                              !.state = "s_res_status_code"], l)
  <2>1. PICK v \in Codes : v = Value[ch]
    BY <1>4, Digits DEF Codes
  <2>2. PICK q : q = [p EXCEPT !.status_code = v, !.state = "s_res_status_code"]
    OBVIOUS
  <2>3. "s_res_status_code" \in States /\ "s_res_status_code" \in BeginStates
    BY DEF States, BeginStates
  <2>4. Untouched(p, q) /\ q.state = "s_res_status_code"
    BY <1>1, <2>2, <2>3 DEF Untouched, Parser
  <2>5. Fin(p, q, l)
    BY <1>1, <2>3, <2>4, Within
  <2> QED
    BY <2>1, <2>2, <2>5
<1>5. IS_NUM(ch) => ch # SP
  BY DEF IS_NUM, Value, SP
<1> QED
  BY <1>2, <1>3, <1>4, <1>5 DEF ResFirstStatusCode

(* MARK begins an item, or lets it go on.                                  *)
LEMMA MarkEffect ==
    ASSUME NEW p \in Parser, NEW k \in DataKinds
    PROVE  /\ MARK(p, k) \in Parser
           /\ SameHead(p, MARK(p, k))
           /\ MARK(p, k).errno = p.errno /\ MARK(p, k).out = p.out
           /\ MARK(p, k).mark[k] # NoMark
           /\ \A j \in DataKinds : j # k => MARK(p, k).mark[j] = p.mark[j]
           /\ \A j \in DataKinds : Held(MARK(p, k).mark, j) = Held(p.mark, j)
<1>1. p.mark \in Marks
  BY DEF Parser
<1>2. CASE p.mark[k] # NoMark
  BY <1>2 DEF MARK, SameHead
<1>3. CASE p.mark[k] = NoMark
  <2>1. PICK new : new = [p.mark EXCEPT ![k] = 0]
    OBVIOUS
  <2>2. new \in Marks /\ new[k] = 0 /\ \A j \in DataKinds : j # k => new[j] = p.mark[j]
    BY <1>1, <2>1 DEF Marks
  <2>3. PICK q : q = [p EXCEPT !.mark = new]
    OBVIOUS
  <2>4. q \in Parser /\ q.mark = new
    BY <2>2, <2>3 DEF Parser
  <2>5. SameHead(p, q) /\ q.errno = p.errno /\ q.out = p.out
    BY <2>3 DEF Parser, SameHead
  <2>6. q = MARK(p, k)
    BY <1>3, <2>1, <2>3 DEF MARK
  <2>7. new[k] # NoMark
    BY <2>2 DEF NoMark
  <2>8. \A j \in DataKinds : Held(new, j) = Held(p.mark, j)
    BY <1>3, <2>2, <2>7 DEF Held
  <2> QED
    BY <2>2, <2>4, <2>5, <2>6, <2>7, <2>8
<1> QED
  BY <1>2, <1>3

(* The url or the status ends.                                             *)
LEMMA EndOfItem ==
    ASSUME NEW l, NEW p, Ready(p, l), p.state \in FirstLineStates,
           NEW k \in {"url", "status"}, l \in {"message_begin", k},
           NEW r \in Parser, Ok(r), r.out = <<>>, r.left = FALSE,
           r.nread = p.nread, r.flags = p.flags, r.te = p.te,
           k = "url" => r.state \in {"s_req_http_start", "s_req_line_almost_done",
                                     "s_header_field_start"},
           k = "status" => r.state \in {"s_res_line_almost_done",
                                        "s_header_field_start"},
           r.mark[k] # NoMark,
           \A j \in DataKinds : j # k => r.mark[j] = NoMark,
           \A j \in DataKinds : Held(r.mark, j) = Held(p.mark, j)
    PROVE  Fin(p, CALLBACK_DATA(r, k), l)
<1>1. k \in DataKinds \ {"body"} /\ l \in Follows[k]
  BY DEF DataKinds, Follows
<1>2. r.state \in FirstLineStates \cup {"s_header_field_start"}
  BY DEF FirstLineStates, VersionStates
<1>3. p.state \in HeadStates /\ r.state \in HeadStates
  BY <1>2 DEF HeadStates, LineStates
<1>4. /\ FlagInv(r.state, r.header_state, r.flags, r.te)
      /\ "TRAILING" \notin r.flags
  <2>1. FlagInv(p.state, p.header_state, p.flags, p.te)
    BY ReadyFacts
  <2> QED
    BY <1>2, <2>1, KeptFlags
<1>5. OrderInv(r.state, r.flags, k)
  BY <1>4 DEF OrderInv, BeginStates, IdleStates, UrlStates, VersionStates,
         LineStates, DiscardStates, SizeStates, DataStates, PlainStates
<1>6. ItemOf(r.state) = "none"
  BY ItemFacts DEF UrlStates
<1>7. MarkInv(r.state, Unmarked(r.mark, k))
  <2>1. r.mark \in Marks
    BY DEF Parser
  <2>2. \A j \in DataKinds : Unmarked(r.mark, k)[j] = NoMark
    BY <1>1, <2>1 DEF Unmarked, Marks
  <2>3. "body" \in DataKinds /\ "none" \notin DataKinds
    BY DEF DataKinds
  <2> QED
    BY <1>6, <2>2, <2>3 DEF MarkInv
<1> QED
  BY <1>1, <1>3, <1>4, <1>5, <1>7, Reported

(* A byte of the status, also when s_res_status_code re-executes it.       *)
LEMMA ResStatusFin ==
    ASSUME NEW l, NEW p, Ready(p, l),
           p.state \in {"s_res_status_code", "s_res_status_start", "s_res_status"},
           NEW r \in Parser, r.state = "s_res_status",
           Ok(r), r.out = <<>>, r.left = FALSE,
           r.nread = p.nread, r.flags = p.flags, r.te = p.te,
           r.mark["status"] # NoMark,
           \A j \in DataKinds : j # "status" => r.mark[j] = NoMark,
           \A j \in DataKinds : Held(r.mark, j) = Held(p.mark, j),
           NEW ch
    PROVE  Fin(p, ResStatus(r, ch), l)
<1>1. p.state \in FirstLineStates /\ p.state \in HeadStates /\ r.state \in HeadStates
  BY DEF FirstLineStates, BeginStates, HeadStates
<1>2. OrderInv(p.state, p.flags, l) /\ FlagInv(p.state, p.header_state, p.flags, p.te)
  BY ReadyFacts
<1>3. l \in {"message_begin", "status"}
  BY <1>2 DEF OrderInv, BeginStates
<1>4. ASSUME NEW s \in {"s_res_line_almost_done", "s_header_field_start"}
      PROVE  Fin(p, CALLBACK_DATA(UPDATE_STATE(r, s), "status"), l)
  <2>1. s \in States
    BY DEF States
  <2>2. PICK c : c = UPDATE_STATE(r, s)
    OBVIOUS
  <2>3. Untouched(r, c) /\ c.state = s
    BY <2>1, <2>2, UpdateState
  <2>4. /\ c \in Parser /\ Ok(c) /\ c.out = <<>> /\ c.left = FALSE
        /\ c.nread = p.nread /\ c.flags = p.flags /\ c.te = p.te /\ c.mark = r.mark
    BY <2>3 DEF Untouched, Ok
  <2> QED
    BY <1>1, <1>3, <2>2, <2>3, <2>4, EndOfItem
<1>5. Fin(p, r, l)
  <2>1. r.state \in FirstLineStates
    BY DEF FirstLineStates
  <2>2. FlagInv(r.state, r.header_state, r.flags, r.te)
    BY <1>1, <1>2, <2>1, FirstLineFlags
  <2>3. OrderInv(r.state, r.flags, l)
    BY <1>3 DEF OrderInv, BeginStates, IdleStates, UrlStates, VersionStates,
         LineStates, DiscardStates, SizeStates, DataStates, PlainStates
  <2>4. MarkInv(r.state, r.mark)
    BY ItemFacts DEF MarkInv, DataKinds
  <2> QED
    BY <1>1, <2>2, <2>3, <2>4, Silent
<1> QED
  BY <1>4, <1>5 DEF ResStatus, CR, LF

(* Outside of an item nothing is marked.                                   *)
LEMMA NothingMarked ==
    ASSUME NEW l, NEW p, Ready(p, l), p.state \in HeadStates, ItemOf(p.state) = "none"
    PROVE  \A j \in DataKinds : p.mark[j] = NoMark /\ Held(p.mark, j) = 0
<1>1. p.mark \in Marks /\ MarkInv(p.state, p.mark)
  BY ReadyFacts
<1>2. "none" \notin DataKinds
  BY DEF DataKinds
<1> QED
  BY <1>1, <1>2, HeadMarks

(* In an item of the head only it is marked.                               *)
LEMMA OnlyMarked ==
    ASSUME NEW l, NEW p, Ready(p, l), p.state \in HeadStates,
           ItemOf(p.state) \in DataKinds
    PROVE  /\ p.mark[ItemOf(p.state)] # NoMark
           /\ \A j \in DataKinds : j # ItemOf(p.state) => p.mark[j] = NoMark
<1>1. p.mark \in Marks /\ MarkInv(p.state, p.mark)
  BY ReadyFacts
<1> QED
  BY <1>1, HeadMarks DEF Marks, NoMark

(* A byte in s_res_status_start, also when s_res_status_code re-executes   *)
(* it.                                                                     *)
LEMMA ResStatusStartFin ==
    ASSUME NEW l, NEW p, Ready(p, l),
           p.state \in {"s_res_status_code", "s_res_status_start"}, NEW ch
    PROVE  Fin(p, ResStatusStart(p, ch), l)
<1>1. p \in Parser /\ p.state \in HeadStates /\ "status" \in DataKinds
  BY ReadyFacts DEF HeadStates, FirstLineStates, BeginStates, DataKinds
<1>2. \A j \in DataKinds : p.mark[j] = NoMark
  <2>1. ItemOf(p.state) = "none"
    BY ItemFacts DEF UrlStates
  <2> QED
    BY <1>1, <2>1, NothingMarked
<1>3. PICK c : c = UPDATE_STATE(p, "s_res_status")
  OBVIOUS
<1>4. Untouched(p, c) /\ c.state = "s_res_status"
  <2>1. "s_res_status" \in States
    BY DEF States
  <2> QED
    BY <1>1, <1>3, <2>1, UpdateState
<1>5. PICK r : r = MARK(c, "status")
  OBVIOUS
<1>6. /\ r \in Parser /\ SameHead(c, r) /\ r.errno = c.errno /\ r.out = c.out
      /\ r.mark["status"] # NoMark
      /\ \A j \in DataKinds : j # "status" => r.mark[j] = c.mark[j]
      /\ \A j \in DataKinds : Held(r.mark, j) = Held(c.mark, j)
  BY <1>1, <1>4, <1>5, MarkEffect DEF Untouched
<1>7. /\ r.state = "s_res_status" /\ Ok(r) /\ r.out = <<>> /\ r.left = FALSE
      /\ r.nread = p.nread /\ r.flags = p.flags /\ r.te = p.te
      /\ \A j \in DataKinds : j # "status" => r.mark[j] = NoMark
      /\ \A j \in DataKinds : Held(r.mark, j) = Held(p.mark, j)
  <2>1. Ok(p) /\ p.out = <<>> /\ p.left = FALSE
    BY ReadyFacts
  <2> QED
    BY <1>2, <1>4, <1>6, <2>1 DEF Untouched, SameHead, Ok
<1>8. ASSUME NEW d PROVE Fin(p, ResStatus(r, d), l)
  BY <1>6, <1>7, ResStatusFin
<1>9. ResStatus(r, SP) = r
  BY DEF ResStatus, SP, CR, LF
<1> QED
  BY <1>3, <1>5, <1>8, <1>9 DEF ResStatusStart

(* A byte in s_res_status_code.                                            *)
LEMMA ResStatusCodeFin ==
    ASSUME NEW l, NEW p, Ready(p, l), p.state = "s_res_status_code", NEW ch
    PROVE  Fin(p, ResStatusCode(p, ch), l)
<1>1. p \in Parser /\ p.state \in BeginStates
  <2>1. p \in Parser
    BY ReadyFacts
  <2> QED
    BY <2>1 DEF BeginStates
<1>2. Fin(p, SET_ERRNO(p, "INVALID_STATUS"), l)
  BY RefusedHere DEF Refusals
<1>3. Fin(p, UPDATE_STATE(p, "s_res_status_start"), l)
  BY <1>1, GoTo DEF BeginStates
<1>4. Fin(p, ResStatusStart(p, ch), l)
  BY ResStatusStartFin
<1>5. ASSUME IS_NUM(ch), 10 * p.status_code + Value[ch] <= 999
      PROVE  Fin(p, [p EXCEPT !.status_code = 10 * @ + Value[ch]], l)
  <2>1. p.status_code \in 0 .. 999
    BY <1>1 DEF Parser, Codes
  <2>6. PICK d \in 0 .. 2 : d = Value[ch]
    BY <1>5, Digits
  <2>7. PICK c \in 0 .. 999 : c = p.status_code
    BY <2>1
  <2>8. 10 * c + d \in Codes
    <3>1. 10 * c + d <= 999
      BY <1>5, <2>6, <2>7, ZenonT(60)
    <3>2. 10 * c \in Nat
      OBVIOUS
    <3> QED
      BY <3>1, <3>2 DEF Codes
  <2>2. PICK v \in Codes : v = 10 * p.status_code + Value[ch]
    BY <2>6, <2>7, <2>8, ZenonT(60)
  <2>3. PICK q : q = [p EXCEPT !.status_code = v]
    OBVIOUS
  <2>4. Untouched(p, q) /\ q.state = p.state
    BY <1>1, <2>3 DEF Untouched, Parser
  <2>5. Fin(p, q, l)
    BY <1>1, <2>4, Within
  <2> QED
    BY <2>2, <2>3, <2>5
<1>6. /\ IS_NUM(ch) => ch # SP /\ ~IsEol(ch)
      /\ IsEol(ch) => ch # SP
  BY DEF IS_NUM, Value, SP, IsEol, CR, LF
<1> QED
  BY <1>2, <1>3, <1>4, <1>5, <1>6 DEF ResStatusCode

(* A byte in s_req_method.                                                 *)
LEMMA ReqMethodFin ==
    ASSUME NEW l, NEW p, Ready(p, l), p.state = "s_req_method", NEW ch
    PROVE  Fin(p, ReqMethod(p, ch), l)
<1>1. p \in Parser /\ p.state \in BeginStates
  <2>1. p \in Parser
    BY ReadyFacts
  <2> QED
    BY <2>1 DEF BeginStates
<1>2. Fin(p, SET_ERRNO(p, "INVALID_METHOD"), l)
  BY RefusedHere DEF Refusals
<1>3. Fin(p, UPDATE_STATE(p, "s_req_spaces_before_url"), l)
  BY <1>1, GoTo DEF BeginStates
<1>4. PICK q : q = [p EXCEPT !.index = 2]
  OBVIOUS
<1>5. Untouched(p, q) /\ q.state = p.state
  BY <1>1, <1>4 DEF Untouched, Parser
<1>6. PICK r : r = [p EXCEPT !.method = "SOURCE", !.index = 2]
  OBVIOUS
<1>7. Untouched(p, r) /\ r.state = p.state
  <2>1. "SOURCE" \in Methods
    BY DEF Methods
  <2> QED
    BY <1>1, <1>6, <2>1 DEF Untouched, Parser
<1>8. Fin(p, q, l) /\ Fin(p, r, l)
  BY <1>1, <1>5, <1>7, Within
<1>9. "rest" # SP /\ "ource" # SP /\ "rest" # "ource"
  BY DEF SP
<1> QED
  BY <1>2, <1>3, <1>4, <1>6, <1>8, <1>9 DEF ReqMethod

(* A character that may stand in a URL leads to a state of URLs.           *)
LEMMA UrlChar ==
    ASSUME NEW s, NEW ch, parse_url_char(s, ch) # "s_dead"
    PROVE  parse_url_char(s, ch) \in UrlStates
<1>1. ServerChar(ch) \in UrlStates \cup {"s_dead"}
  BY DEF ServerChar, UrlStates
<1>2. QueryChar(ch) \in UrlStates \cup {"s_dead"}
  BY DEF QueryChar, UrlStates
<1>3. parse_url_char(s, ch) \in UrlStates \cup {"s_dead"}
  BY <1>1, <1>2 DEF parse_url_char, UrlStates
<1> QED
  BY <1>3

(* A byte in s_req_http_start.                                             *)
LEMMA ReqHttpStartFin ==
    ASSUME NEW l, NEW p, Ready(p, l), p.state = "s_req_http_start", NEW ch
    PROVE  Fin(p, ReqHttpStart(p, ch), l)
<1>1. p.state \in VersionStates /\ p.state \in FirstLineStates
  BY DEF VersionStates, FirstLineStates
<1>2. Fin(p, SET_ERRNO(p, "INVALID_CONSTANT"), l)
  BY RefusedHere DEF Refusals
<1>3. Fin(p, p, l)
  BY <1>1, Stay
<1>4. Fin(p, UPDATE_STATE(p, "s_req_http_H"), l)
  BY <1>1, GoTo DEF VersionStates
<1>5. Fin(p, UPDATE_STATE(p, "s_req_http_I"), l)
  BY <1>1, GoTo DEF VersionStates
<1>6. "H" # SP /\ "I" # SP /\ "H" # "I"
  BY DEF SP
<1> QED
  BY <1>2, <1>3, <1>4, <1>5, <1>6 DEF ReqHttpStart

(* A byte in s_req_http_end.                                               *)
LEMMA ReqHttpEndFin ==
    ASSUME NEW l, NEW p, Ready(p, l), p.state = "s_req_http_end", NEW ch
    PROVE  Fin(p, ReqHttpEnd(p, ch), l)
<1>1. p.state \in VersionStates
  BY DEF VersionStates
<1>2. Fin(p, SET_ERRNO(p, "INVALID_VERSION"), l)
  BY RefusedHere DEF Refusals
<1>3. Fin(p, UPDATE_STATE(p, "s_req_line_almost_done"), l)
  BY <1>1, GoTo DEF VersionStates
<1>4. Fin(p, UPDATE_STATE(p, "s_header_field_start"), l)
  BY <1>1, ToHeader
<1> QED
  BY <1>2, <1>3, <1>4 DEF ReqHttpEnd, CR, LF

(* A byte in s_req_spaces_before_url.                                      *)
LEMMA ReqSpacesBeforeUrlFin ==
    ASSUME NEW l, NEW p, Ready(p, l), p.state = "s_req_spaces_before_url", NEW ch
    PROVE  Fin(p, ReqSpacesBeforeUrl(p, ch), l)
<1>1. p \in Parser /\ p.state \in BeginStates
  <2>1. p \in Parser
    BY ReadyFacts
  <2> QED
    BY <2>1 DEF BeginStates
<1>2. p.state \in FirstLineStates /\ p.state \in HeadStates
  BY <1>1 DEF FirstLineStates, HeadStates
<1>3. Fin(p, p, l)
  BY <1>2, Stay
<1>4. PICK c : c = MARK(p, "url")
  OBVIOUS
<1>5. /\ c \in Parser /\ SameHead(p, c) /\ c.errno = p.errno /\ c.out = p.out
      /\ c.mark["url"] # NoMark
      /\ \A j \in DataKinds : j # "url" => c.mark[j] = p.mark[j]
      /\ \A j \in DataKinds : Held(c.mark, j) = Held(p.mark, j)
  <2>1. "url" \in DataKinds
    BY DEF DataKinds
  <2> QED
    BY <1>1, <1>4, <2>1, MarkEffect
<1>6. \A j \in DataKinds : p.mark[j] = NoMark
  <2>1. ItemOf(p.state) = "none"
    BY ItemFacts DEF UrlStates
  <2> QED
    BY <1>2, <2>1, NothingMarked
<1>7. ASSUME NEW s \in UrlStates
      PROVE  Fin(p, UPDATE_STATE(c, s), l)
  <2>1. s \in States /\ s \in FirstLineStates
    BY DEF States, FirstLineStates
  <2>2. PICK q : q = UPDATE_STATE(c, s)
    OBVIOUS
  <2>3. Untouched(c, q) /\ q.state = s
    BY <1>5, <2>1, <2>2, UpdateState
  <2>4. /\ q \in Parser /\ Ok(q) /\ q.out = <<>> /\ q.left = FALSE
        /\ q.nread = p.nread /\ q.mark = c.mark /\ q.flags = p.flags /\ q.te = p.te
    BY <1>5, <2>3, ReadyFacts DEF Untouched, SameHead, Ok
  <2>5. FlagInv(q.state, q.header_state, q.flags, q.te)
    <3>1. FlagInv(p.state, p.header_state, p.flags, p.te)
      BY ReadyFacts
    <3> QED
      BY <1>2, <2>1, <2>3, <2>4, <3>1, KeptFlags
  <2>6. OrderInv(q.state, q.flags, l)
    <3>1. OrderInv(p.state, p.flags, l)
      BY ReadyFacts
    <3>2. l = "message_begin"
      BY <1>1, <3>1 DEF OrderInv
    <3> QED
      BY <2>3, <3>2 DEF OrderInv, BeginStates, IdleStates, UrlStates, VersionStates,
         LineStates, DiscardStates, SizeStates, DataStates, PlainStates
  <2>7. MarkInv(q.state, q.mark)
    <3>1. ItemOf(q.state) = "url"
      BY <2>3, ItemFacts
    <3> QED
      BY <1>5, <1>6, <2>4, <3>1 DEF MarkInv, DataKinds
  <2>8. q.state \in HeadStates
    BY <2>1, <2>3 DEF HeadStates
  <2> QED
    BY <1>2, <1>5, <2>2, <2>4, <2>5, <2>6, <2>7, <2>8, Silent
<1>8. Fin(p, SET_ERRNO(c, "INVALID_URL"), l)
  <2>1. "INVALID_URL" \in Refusals /\ c.out = <<>>
    BY <1>5, ReadyFacts DEF Refusals
  <2> QED
    BY <1>5, <2>1, Refused
<1>9. ASSUME NEW s PROVE Fin(p, UrlStep(c, s, ch), l)
  BY <1>7, <1>8, UrlChar DEF UrlStep, Expect
<1> QED
  BY <1>3, <1>4, <1>9 DEF ReqSpacesBeforeUrl

(* A byte in a state of the url.                                           *)
LEMMA ReqUrlFin ==
    ASSUME NEW l, NEW p, Ready(p, l), p.state \in UrlStates, NEW ch
    PROVE  Fin(p, ReqUrl(p, ch), l)
<1>1. p \in Parser
  BY ReadyFacts
<1>2. p.state \in FirstLineStates /\ p.state \in HeadStates
  BY DEF FirstLineStates, HeadStates
<1>3. /\ p.mark["url"] # NoMark
      /\ \A j \in DataKinds : j # "url" => p.mark[j] = NoMark
  <2>1. ItemOf(p.state) = "url" /\ "url" \in DataKinds
    BY ItemFacts DEF DataKinds
  <2> QED
    BY <1>2, <2>1, OnlyMarked
<1>4. l \in {"message_begin", "url"}
  <2>1. OrderInv(p.state, p.flags, l)
    BY ReadyFacts
  <2> QED
    BY <2>1 DEF OrderInv
<1>5. ASSUME NEW c, Untouched(p, c),
             c.state \in {"s_req_http_start", "s_req_line_almost_done",
                          "s_header_field_start"}
      PROVE  Fin(p, CALLBACK_DATA(c, "url"), l)
  <2>1. /\ c \in Parser /\ Ok(c) /\ c.out = <<>> /\ c.left = FALSE
        /\ c.nread = p.nread /\ c.flags = p.flags /\ c.te = p.te /\ c.mark = p.mark
    BY <1>5, ReadyFacts DEF Untouched, Ok
  <2> QED
    BY <1>2, <1>3, <1>4, <1>5, <2>1, EndOfItem
<1>6. Fin(p, CALLBACK_DATA(UPDATE_STATE(p, "s_req_http_start"), "url"), l)
  <2>1. "s_req_http_start" \in States
    BY DEF States
  <2>2. PICK c : c = UPDATE_STATE(p, "s_req_http_start")
    OBVIOUS
  <2>3. Untouched(p, c) /\ c.state = "s_req_http_start"
    BY <1>1, <2>1, <2>2, UpdateState
  <2> QED
    BY <1>5, <2>2, <2>3
<1>7. ASSUME NEW s \in {"s_req_line_almost_done", "s_header_field_start"}
      PROVE  Fin(p, CALLBACK_DATA([p EXCEPT !.major = 0, !.minor = 9, !.state = s],
                                  "url"), l)
  <2>1. s \in States
    BY DEF States
  <2>2. PICK c : c = [p EXCEPT !.major = 0, !.minor = 9, !.state = s]
    OBVIOUS
  <2>3. Untouched(p, c) /\ c.state = s
    BY <1>1, <2>1, <2>2 DEF Untouched, Parser
  <2> QED
    BY <1>5, <2>2, <2>3
<1>8. Fin(p, UrlStep(p, p.state, ch), l)
  <2>1. Fin(p, SET_ERRNO(p, "INVALID_URL"), l)
    BY RefusedHere DEF Refusals
  <2>2. ASSUME NEW s \in UrlStates
        PROVE  Fin(p, UPDATE_STATE(p, s), l)
    BY GoTo
  <2> QED
    BY <2>1, <2>2, UrlChar DEF UrlStep, Expect
<1>9. ch = SP => ~IsEol(ch)
  BY DEF SP, IsEol, CR, LF
<1> QED
  BY <1>6, <1>7, <1>8, <1>9 DEF ReqUrl, IsEol

-----------------------------------------------------------------------------
(* Where a header line, or the header, ends *)

(* In a byte that is read between two items: nothing is marked, and no     *)
(* callback of the byte has got a byte of an item.                         *)
Going(l, r) ==
    /\ r \in Parser
    /\ r.nread <= max_header_size
    /\ r.left = FALSE
    /\ Linked(l, r.out)
    /\ "chunk_header" \notin OnSet(r.out)
    /\ \A k \in DataKinds : r.mark[k] = NoMark /\ Del(r.out, k) = 0
    /\ "CHUNKED" \in r.flags => r.te

(* Between two items of the head.                                          *)
Between(p, l) ==
    /\ Ready(p, l)
    /\ p.state \in HeadStates
    /\ ItemOf(p.state) = "none"

(* Between two items nothing is marked.                                    *)
LEMMA BetweenGoing ==
    ASSUME NEW l, NEW p, Between(p, l)
    PROVE  Going(l, p) /\ Ok(p) /\ p.out = <<>> /\ Now(l, p.out) = l
<1>1. \A j \in DataKinds : p.mark[j] = NoMark
  BY NothingMarked DEF Between
<1>2. Ready(p, l) /\ FlagInv(p.state, p.header_state, p.flags, p.te)
  BY ReadyFacts DEF Between
<1>3. "CHUNKED" \in p.flags => p.te
  BY <1>2 DEF FlagInv
<1> QED
  BY <1>1, <1>2, <1>3, NoneOut DEF Ready, Going

(* How a byte between two items ends.                                      *)
LEMMA Ended ==
    ASSUME NEW l, NEW p, Between(p, l),
           NEW q \in Parser, q.errno # "ASSERT",
           Linked(l, q.out), "chunk_header" \notin OnSet(q.out),
           \A k \in DataKinds : Held(q.mark, k) = 0 /\ Del(q.out, k) = 0,
           q.mark["body"] = NoMark,
           Ok(q) => Resting(q, Now(l, q.out)) /\ q.state # "s_chunk_data",
           q.out # <<>> /\ Now(l, q.out) \in Completes => q.state # "s_body_identity"
    PROVE  Fin(p, q, l)
<1>1. Ready(p, l) /\ p.state \in HeadStates
  BY DEF Between
<1>2. \A j \in DataKinds : Held(p.mark, j) = 0
  BY NothingMarked DEF Between
<1>3. Expected(p) = 0
  BY <1>1, HeadWant
<1>4. /\ p.state \notin ReadingStates
      /\ p.state # "s_body_identity" /\ p.state # "s_body_identity_eof"
  BY <1>1, HeadNotBody
<1>5. "body" \in DataKinds
  BY DEF DataKinds
<1>6. Moved(p, q)
  BY <1>2, <1>4, <1>5 DEF Moved
<1>7. CASE q.state = "s_body_identity"
  <2>1. WantNext(p, q, Expected(p)) = q.content_length
    BY <1>4, <1>7 DEF WantNext
  <2>2. q.content_length \in Int
    BY DEF Parser, Lengths
  <2>3. Due(q) = q.content_length
    BY <1>7, <2>2 DEF Due
  <2> QED
    BY <1>6, <1>7, <2>1, <2>3 DEF Fin
<1>8. CASE q.state # "s_body_identity"
  <2>1. WantNext(p, q, Expected(p)) = 0
    BY <1>3, <1>4, <1>5, <1>8 DEF WantNext
  <2>2. Ok(q) => Due(q) = 0
    BY <1>8 DEF Due
  <2> QED
    BY <1>6, <2>1, <2>2 DEF Fin
<1> QED
  BY <1>7, <1>8

(* The same for a parser that is still going.                              *)
LEMMA GoingEnds ==
    ASSUME NEW l, NEW p, Between(p, l), NEW q, Going(l, q), q.errno # "ASSERT",
           Ok(q) => Resting(q, Now(l, q.out)) /\ q.state # "s_chunk_data",
           q.out # <<>> /\ Now(l, q.out) \in Completes => q.state # "s_body_identity"
    PROVE  Fin(p, q, l)
<1>1. /\ q \in Parser /\ Linked(l, q.out) /\ "chunk_header" \notin OnSet(q.out)
      /\ \A k \in DataKinds : q.mark[k] = NoMark /\ Del(q.out, k) = 0
  BY DEF Going
<1>2. \A k \in DataKinds : Held(q.mark, k) = 0
  BY <1>1 DEF Held
<1>3. q.mark["body"] = NoMark
  BY <1>1 DEF DataKinds
<1> QED
  BY <1>1, <1>2, <1>3, Ended

(* A byte that is refused behind a callback.                               *)
LEMMA GoingRefused ==
    ASSUME NEW l, NEW p, Between(p, l), NEW r, Going(l, r),
           r.out # <<>> => Now(l, r.out) \notin Completes,
           NEW e \in Refusals
    PROVE  Fin(p, SET_ERRNO(r, e), l)
<1>1. PICK q : q = SET_ERRNO(r, e)
  OBVIOUS
<1>2. e \in Errnos /\ e # "OK" /\ e # "ASSERT"
  BY DEF Errnos, Refusals
<1>3. q \in Parser /\ q.errno = e /\ q.out = r.out
  BY <1>1, <1>2 DEF SET_ERRNO, Parser, Going
<1>4. q.nread = r.nread /\ q.mark = r.mark /\ q.flags = r.flags /\ q.te = r.te /\ q.left = r.left
  BY <1>1 DEF SET_ERRNO, Parser, Going
<1>5. Going(l, q)
  BY <1>3, <1>4 DEF Going
<1>6. ~Ok(q) /\ q.errno # "ASSERT"
  BY <1>2, <1>3 DEF Ok
<1>7. q.out # <<>> => Now(l, q.out) \notin Completes
  BY <1>3
<1> QED
  BY <1>1, <1>5, <1>6, <1>7, GoingEnds

(* UPDATE_STATE in the middle of a byte.                                   *)
LEMMA GoingState ==
    ASSUME NEW l, NEW r, Going(l, r), NEW s \in States
    PROVE  /\ Going(l, UPDATE_STATE(r, s))
           /\ Untouched(r, UPDATE_STATE(r, s))
           /\ UPDATE_STATE(r, s).state = s
           /\ UPDATE_STATE(r, s).content_length = r.content_length
<1>1. PICK q : q = UPDATE_STATE(r, s)
  OBVIOUS
<1>2. Untouched(r, q) /\ q.state = s /\ q.content_length = r.content_length
  BY <1>1, UpdateState DEF Going
<1>3. Going(l, q)
  BY <1>2 DEF Going, Untouched
<1> QED
  BY <1>1, <1>2, <1>3

(* CALLBACK_NOTIFY in the middle of a byte.                                *)
LEMMA GoingNotice ==
    ASSUME NEW l, NEW r, Going(l, r), Ok(r),
           NEW k \in NoticeKinds \ {"chunk_header"}, k \notin OnSet(r.out),
           Now(l, r.out) \in Follows[k]
    PROVE  LET q == CALLBACK_NOTIFY(r, k)
           IN  /\ Going(l, q) /\ SameHead(r, q)
               /\ q.errno \in {"OK", "CB"}
               /\ OnSet(q.out) = OnSet(r.out) \cup {k}
               /\ Now(l, q.out) = k
<1>1. PICK q : q = CALLBACK_NOTIFY(r, k)
  OBVIOUS
<1>2. k \in NoticeKinds /\ k # "chunk_header" /\ k \notin DataKinds
  BY DEF NoticeKinds, DataKinds
<1>3. MayCall(l, r, k)
  BY DEF MayCall, Going
<1>4. AfterCall(l, r, q, k, 0, r.mark)
  BY <1>1, <1>2, <1>3, NoticeEffect
<1>5. /\ q \in Parser /\ q.errno \in {"OK", "CB"} /\ SameHead(r, q) /\ q.mark = r.mark
      /\ OnSet(q.out) = OnSet(r.out) \cup {k}
      /\ Now(l, q.out) = k /\ Linked(l, q.out)
      /\ \A j \in DataKinds : j # k => Del(q.out, j) = Del(r.out, j)
  BY <1>4 DEF AfterCall, OneMore
<1>6. \A j \in DataKinds : Del(q.out, j) = 0
  BY <1>2, <1>5 DEF Going
<1>7. Going(l, q)
  BY <1>2, <1>5, <1>6 DEF Going, SameHead
<1> QED
  BY <1>1, <1>5, <1>7

(* Between messages the parser may rest.                                   *)
LEMMA IdleRests ==
    ASSUME NEW q, q.state \in IdleStates, q.nread <= max_header_size,
           "CHUNKED" \in q.flags => q.te,
           \A k \in DataKinds : q.mark[k] = NoMark,
           NEW l \in {"none", "message_complete"}
    PROVE  Resting(q, l)
<1>1. q.state \in HeadStates
  BY DEF HeadStates
<1>2. ItemOf(q.state) = "none" /\ "none" \notin DataKinds /\ "body" \in DataKinds
  BY ItemFacts DEF IdleStates, UrlStates, DataKinds
<1>3. MarkInv(q.state, q.mark)
  BY <1>2 DEF MarkInv
<1>4. FlagInv(q.state, q.header_state, q.flags, q.te)
  BY DEF FlagInv, IdleStates, FieldStates, DiscardStates, ChunkStates,
         FirstLineStates, BeginStates, UrlStates, VersionStates
<1>5. OrderInv(q.state, q.flags, l)
  BY DEF OrderInv, BeginStates, IdleStates, UrlStates, VersionStates,
         LineStates, DiscardStates, SizeStates, DataStates, PlainStates
<1> QED
  BY <1>1, <1>3, <1>4, <1>5, HeadLengths DEF Resting

(* NEW_MESSAGE leads to a state between messages.                          *)
LEMMA NewMessage ==
    ASSUME NEW p
    PROVE  NEW_MESSAGE(p) \in IdleStates /\ NEW_MESSAGE(p) \in States
  BY DEF NEW_MESSAGE, IdleStates, States

(* The call returns because of an upgrade.                                 *)
LEMMA Leave ==
    ASSUME NEW c \in Parser, NEW b \in BOOLEAN
    PROVE  LET q == [c EXCEPT !.left = b]
           IN  /\ q \in Parser /\ q.left = b
               /\ q.state = c.state /\ q.nread = c.nread /\ q.flags = c.flags
               /\ q.te = c.te /\ q.mark = c.mark /\ q.out = c.out
               /\ q.errno = c.errno
<1>1. PICK q : q = [c EXCEPT !.left = b]
  OBVIOUS
<1>2. q \in Parser /\ q.left = b
  BY <1>1 DEF Parser
<1>3. q.state = c.state /\ q.nread = c.nread /\ q.flags = c.flags /\ q.te = c.te
  BY <1>1 DEF Parser
<1>4. q.mark = c.mark /\ q.out = c.out /\ q.errno = c.errno
  BY <1>1 DEF Parser
<1> QED
  BY <1>1, <1>2, <1>3, <1>4

(* The message is complete.                                                *)
LEMMA Completed ==
    ASSUME NEW l, NEW p, Between(p, l), NEW r, Going(l, r), Ok(r),
           "message_complete" \notin OnSet(r.out),
           Now(l, r.out) \in Follows["message_complete"],
           NEW c, c = CALLBACK_NOTIFY(UPDATE_STATE(r, NEW_MESSAGE(r)),
                                      "message_complete"),
           NEW b \in BOOLEAN
    PROVE  Fin(p, c, l) /\ Fin(p, [c EXCEPT !.left = b], l)
<1>1. PICK d : d = UPDATE_STATE(r, NEW_MESSAGE(r))
  OBVIOUS
<1>2. Going(l, d) /\ Untouched(r, d) /\ d.state \in IdleStates
  BY <1>1, NewMessage, GoingState
<1>3. Ok(d) /\ d.out = r.out
  BY <1>2 DEF Untouched, Ok
<1>4. "message_complete" \in NoticeKinds \ {"chunk_header"}
  BY DEF NoticeKinds
<1>5. /\ Going(l, c) /\ SameHead(d, c) /\ c.errno \in {"OK", "CB"}
      /\ Now(l, c.out) = "message_complete"
  BY <1>1, <1>2, <1>3, <1>4, GoingNotice
<1>6. c.state \in IdleStates
  BY <1>2, <1>5 DEF SameHead
<1>7. c.state # "s_chunk_data" /\ c.state # "s_body_identity"
  BY <1>6 DEF IdleStates
<1>8. Fin(p, c, l)
  <2>1. Resting(c, "message_complete")
    BY <1>5, <1>6, IdleRests DEF Going
  <2> QED
    BY <1>5, <1>7, <2>1, GoingEnds
<1>9. PICK q : q = [c EXCEPT !.left = b]
  OBVIOUS
<1>10. /\ q \in Parser /\ q.state = c.state /\ q.nread = c.nread
       /\ q.flags = c.flags /\ q.te = c.te /\ q.mark = c.mark /\ q.out = c.out
       /\ q.errno = c.errno
  BY <1>5, <1>9, Leave DEF Going
<1>11. Resting(q, "message_complete")
  BY <1>5, <1>6, <1>10, IdleRests DEF Going
<1>12. /\ \A k \in DataKinds : q.mark[k] = NoMark /\ Held(q.mark, k) = 0 /\ Del(q.out, k) = 0
       /\ Linked(l, q.out) /\ "chunk_header" \notin OnSet(q.out)
  BY <1>5, <1>10 DEF Going, Held
<1>13. q.mark["body"] = NoMark
  BY <1>12 DEF DataKinds
<1>14. Fin(p, q, l)
  BY <1>5, <1>7, <1>10, <1>11, <1>12, <1>13, Ended
<1> QED
  BY <1>8, <1>9, <1>14

(* s_message_done, re-executed behind a header or trailer.                 *)
LEMMA MessageDoneFin ==
    ASSUME NEW l, NEW p, Between(p, l), NEW r, Going(l, r), Ok(r),
           "message_complete" \notin OnSet(r.out),
           Now(l, r.out) \in Follows["message_complete"]
    PROVE  Fin(p, MessageDone(r), l)
<1>1. PICK c : c = CALLBACK_NOTIFY(UPDATE_STATE(r, NEW_MESSAGE(r)), "message_complete")
  OBVIOUS
<1>2. PICK b \in BOOLEAN : b = (Ok(c) /\ r.upgrade)
  OBVIOUS
<1>3. Fin(p, [c EXCEPT !.left = b], l)
  BY <1>1, Completed
<1> QED
  BY <1>1, <1>2, <1>3 DEF MessageDone

(* nread begins anew.                                                      *)
LEMMA ResetCountEffect ==
    ASSUME NEW l, NEW r, Going(l, r)
    PROVE  /\ Going(l, ResetCount(r))
           /\ ResetCount(r).nread = 0
           /\ ResetCount(r).errno = r.errno /\ ResetCount(r).out = r.out
           /\ ResetCount(r).flags = r.flags /\ ResetCount(r).te = r.te
           /\ ResetCount(r).content_length = r.content_length
<1>1. PICK q : q = ResetCount(r)
  OBVIOUS
<1>2. 0 \in Counts /\ 0 <= max_header_size
  BY ParserBounds DEF Counts
<1>3. q \in Parser /\ q.nread = 0 /\ q.left = r.left /\ q.mark = r.mark
  BY <1>1, <1>2 DEF ResetCount, Parser, Going
<1>4. /\ q.errno = r.errno /\ q.out = r.out /\ q.flags = r.flags /\ q.te = r.te
      /\ q.content_length = r.content_length
  BY <1>1 DEF ResetCount, Parser, Going
<1>5. Going(l, q)
  BY <1>2, <1>3, <1>4 DEF Going
<1> QED
  BY <1>1, <1>3, <1>4, <1>5

(* Behind the header: a body, or the next message.                         *)
LEMMA BodyRests ==
    ASSUME NEW q, q.nread = 0, q.left = FALSE,
           q.state \in {"s_chunk_size_start", "s_body_identity", "s_body_identity_eof"},
           "CHUNKED" \in q.flags => q.te,
           q.state = "s_chunk_size_start" =>
              "CHUNKED" \in q.flags /\ "CONTENTLENGTH" \notin q.flags,
           q.state = "s_body_identity" =>
              "CHUNKED" \notin q.flags /\ q.content_length \notin {0, MaxLength},
           \A k \in DataKinds : q.mark[k] = NoMark
    PROVE  Resting(q, "headers_complete")
<1>1. ItemOf(q.state) = "none" /\ "none" \notin DataKinds /\ "body" \in DataKinds
  BY ItemFacts DEF UrlStates, DataKinds
<1>2. MarkInv(q.state, q.mark)
  BY <1>1 DEF MarkInv
<1>3. FlagInv(q.state, q.header_state, q.flags, q.te)
  BY DEF FlagInv, FieldStates, DiscardStates, ChunkStates,
         FirstLineStates, BeginStates, UrlStates, VersionStates
<1>4. OrderInv(q.state, q.flags, "headers_complete")
  BY DEF OrderInv, BeginStates, IdleStates, UrlStates, VersionStates,
         LineStates, DiscardStates, SizeStates, DataStates, PlainStates
<1>5. LengthInv(q.state, q.content_length)
  BY DEF LengthInv, SizeStates
<1>6. q.nread <= max_header_size
  BY ParserBounds
<1> QED
  BY <1>2, <1>3, <1>4, <1>5, <1>6 DEF Resting

(* s_headers_done, which s_headers_almost_done re-executes.                *)
LEMMA HeadersDoneFin ==
    ASSUME NEW l, NEW p, Between(p, l), NEW r, Going(l, r), Ok(r),
           "message_complete" \notin OnSet(r.out),
           Now(l, r.out) = "headers_complete",
           ~(r.te /\ "CONTENTLENGTH" \in r.flags)
    PROVE  Fin(p, HeadersDone(r), l)
<1>1. PICK new : new = ResetCount(r)
  OBVIOUS
<1>2. /\ Going(l, new) /\ new.nread = 0 /\ new.errno = r.errno /\ new.out = r.out
      /\ new.flags = r.flags /\ new.te = r.te /\ new.content_length = r.content_length
  BY <1>1, ResetCountEffect
<1>3. PICK c : c = CALLBACK_NOTIFY(UPDATE_STATE(new, NEW_MESSAGE(new)), "message_complete")
  OBVIOUS
<1>4. PICK b \in BOOLEAN : b = Ok(c)
  BY DEF Ok
<1>5. Fin(p, c, l) /\ Fin(p, [c EXCEPT !.left = b], l)
  <2>1. Now(l, new.out) \in Follows["message_complete"]
    BY <1>2 DEF Follows
  <2>2. Ok(new) /\ "message_complete" \notin OnSet(new.out)
    BY <1>2 DEF Ok
  <2> QED
    BY <1>2, <1>3, <2>1, <2>2, Completed
<1>6. ASSUME NEW s \in {"s_chunk_size_start", "s_body_identity", "s_body_identity_eof"},
             s = "s_chunk_size_start" =>
                "CHUNKED" \in r.flags /\ "CONTENTLENGTH" \notin r.flags,
             s = "s_body_identity" =>
                "CHUNKED" \notin r.flags /\ r.content_length \notin {0, MaxLength}
      PROVE  Fin(p, UPDATE_STATE(new, s), l)
  <2>1. s \in States
    BY DEF States, BodyStates
  <2>2. PICK q : q = UPDATE_STATE(new, s)
    OBVIOUS
  <2>3. /\ Going(l, q) /\ Untouched(new, q) /\ q.state = s
        /\ q.content_length = new.content_length
    BY <1>2, <2>1, <2>2, GoingState
  <2>4. /\ q.nread = 0 /\ q.left = FALSE /\ q.flags = r.flags /\ q.te = r.te
        /\ q.content_length = r.content_length /\ q.errno = "OK"
        /\ Now(l, q.out) = "headers_complete"
        /\ \A k \in DataKinds : q.mark[k] = NoMark
        /\ "CHUNKED" \in q.flags => q.te
    BY <1>2, <2>3 DEF Untouched, Going, Ok
  <2>5. Resting(q, "headers_complete")
    BY <1>6, <2>3, <2>4, BodyRests
  <2>6. "headers_complete" \notin Completes
    BY DEF Completes
  <2> QED
    BY <2>2, <2>3, <2>4, <2>5, <2>6, GoingEnds
<1>7. Fin(p, SET_ERRNO(new, "INVALID_TRANSFER_ENCODING"), l)
  <2>1. "INVALID_TRANSFER_ENCODING" \in Refusals
    BY DEF Refusals
  <2>2. Now(l, new.out) \notin Completes
    BY <1>2 DEF Completes
  <2> QED
    BY <1>2, <2>1, <2>2, GoingRefused
<1>8. "CHUNKED" \in r.flags => "CONTENTLENGTH" \notin r.flags
  BY DEF Going
<1>9. Fin(p, UPDATE_STATE(new, "s_body_identity_eof"), l)
  BY <1>6
<1>10. "CHUNKED" \in r.flags => Fin(p, UPDATE_STATE(new, "s_chunk_size_start"), l)
  BY <1>6, <1>8
<1>11. "CHUNKED" \notin r.flags /\ r.content_length \notin {0, MaxLength}
          => Fin(p, UPDATE_STATE(new, "s_body_identity"), l)
  BY <1>6
<1> QED
  BY <1>1, <1>3, <1>4, <1>5, <1>7, <1>9, <1>10, <1>11 DEF HeadersDone, Expect

(* A flag is set.                                                          *)
LEMMA FlagEffect ==
    ASSUME NEW r \in Parser, NEW f,
           f \in {"CHUNKED", "CONNECTION_KEEP_ALIVE", "CONNECTION_CLOSE",
                  "CONNECTION_UPGRADE", "TRAILING", "UPGRADE", "SKIPBODY",
                  "CONTENTLENGTH"}
    PROVE  LET q == Flag(r, f)
           IN  /\ q \in Parser
               /\ q.flags = r.flags \cup {f}
               /\ q.errno = r.errno /\ q.out = r.out /\ q.left = r.left
               /\ q.nread = r.nread /\ q.te = r.te /\ q.mark = r.mark
               /\ q.state = r.state /\ q.header_state = r.header_state
               /\ q.content_length = r.content_length
<1>1. PICK q : q = Flag(r, f)
  OBVIOUS
<1>2. PICK g : g = r.flags \cup {f}
  OBVIOUS
<1>3. r.flags \in FlagSets
  BY DEF Parser
<1>4. g \in FlagSets
  BY <1>2, <1>3 DEF FlagSets
<1>5. q = [r EXCEPT !.flags = g]
  BY <1>1, <1>2 DEF Flag
<1>6. q \in Parser /\ q.flags = g
  BY <1>4, <1>5 DEF Parser
<1>7. /\ q.errno = r.errno /\ q.out = r.out /\ q.left = r.left
      /\ q.nread = r.nread /\ q.te = r.te /\ q.mark = r.mark
  BY <1>5 DEF Parser
<1>8. /\ q.state = r.state /\ q.header_state = r.header_state
      /\ q.content_length = r.content_length
  BY <1>5 DEF Parser
<1> QED
  BY <1>1, <1>2, <1>6, <1>7, <1>8

(* parser->upgrade is set.                                                 *)
LEMMA SetUpgrade ==
    ASSUME NEW l, NEW r, Going(l, r), NEW b \in BOOLEAN
    PROVE  LET q == [r EXCEPT !.upgrade = b]
           IN  /\ Going(l, q)
               /\ q.errno = r.errno /\ q.out = r.out /\ q.flags = r.flags
               /\ q.te = r.te
<1>1. PICK q : q = [r EXCEPT !.upgrade = b]
  OBVIOUS
<1>2. q \in Parser /\ q.nread = r.nread /\ q.left = r.left /\ q.mark = r.mark
  BY <1>1 DEF Parser, Going
<1>3. q.errno = r.errno /\ q.out = r.out /\ q.flags = r.flags /\ q.te = r.te
  BY <1>1 DEF Parser, Going
<1>4. Going(l, q)
  BY <1>2, <1>3 DEF Going
<1> QED
  BY <1>1, <1>3, <1>4

(* The callback headers_complete and what its result sets.                 *)
LEMMA HeadersCompleteEffect ==
    ASSUME NEW l, NEW r, Going(l, r), Ok(r), "headers_complete" \notin OnSet(r.out),
           Now(l, r.out) \in Follows["headers_complete"]
    PROVE  LET q == HeadersComplete(r)
           IN  /\ Going(l, q)
               /\ q.errno \in {"OK", "CB"}
               /\ OnSet(q.out) = OnSet(r.out) \cup {"headers_complete"}
               /\ Now(l, q.out) = "headers_complete"
               /\ q.te = r.te
               /\ "CONTENTLENGTH" \in q.flags => "CONTENTLENGTH" \in r.flags
<1> DEFINE Good(q) ==
      /\ Going(l, q)
      /\ q.errno \in {"OK", "CB"}
      /\ OnSet(q.out) = OnSet(r.out) \cup {"headers_complete"}
      /\ Now(l, q.out) = "headers_complete"
      /\ q.te = r.te
      /\ "CONTENTLENGTH" \in q.flags => "CONTENTLENGTH" \in r.flags
<1>1. PICK c : c = CALLBACK_NOTIFY(r, "headers_complete")
  OBVIOUS
<1>2. /\ Going(l, c) /\ SameHead(r, c) /\ c.errno \in {"OK", "CB"}
      /\ OnSet(c.out) = OnSet(r.out) \cup {"headers_complete"}
      /\ Now(l, c.out) = "headers_complete"
  <2>1. "headers_complete" \in NoticeKinds \ {"chunk_header"}
    BY DEF NoticeKinds
  <2> QED
    BY <1>1, <2>1, GoingNotice
<1>3. Good(c)
  BY <1>2 DEF SameHead
<1>4. PICK d : d = Flag(c, "SKIPBODY")
  OBVIOUS
<1>5. Good(d)
  <2>1. c \in Parser
    BY <1>2 DEF Going
  <2>2. /\ d \in Parser /\ d.flags = c.flags \cup {"SKIPBODY"}
        /\ d.errno = c.errno /\ d.out = c.out /\ d.left = c.left
        /\ d.nread = c.nread /\ d.te = c.te /\ d.mark = c.mark
    BY <1>4, <2>1, FlagEffect
  <2>3. Going(l, d)
    BY <1>2, <2>2 DEF Going
  <2> QED
    BY <1>3, <2>2, <2>3
<1>6. PICK e : e = [d EXCEPT !.upgrade = TRUE]
  OBVIOUS
<1>7. Good(e)
  <2>1. Going(l, d)
    BY <1>5
  <2>2. PICK b \in BOOLEAN : b = TRUE
    OBVIOUS
  <2>3. /\ Going(l, e) /\ e.errno = d.errno /\ e.out = d.out /\ e.flags = d.flags
        /\ e.te = d.te
    BY <1>6, <2>1, <2>2, SetUpgrade
  <2> QED
    BY <1>5, <2>3
<1>8. HeadersComplete(r) \in {c, d, e}
  BY <1>1, <1>4, <1>6 DEF HeadersComplete
<1> HIDE DEF Good
<1>9. Good(HeadersComplete(r))
  BY <1>3, <1>5, <1>7, <1>8
<1> QED
  BY <1>9 DEF Good

(* Callbacks that may have been called before the header ends.             *)
LEMMA HeadersAlmostDoneFin ==
    ASSUME NEW l, NEW p, Between(p, l), NEW r, Going(l, r), Ok(r),
           OnSet(r.out) \subseteq {"header_value"},
           OrderInv("s_headers_almost_done", r.flags, Now(l, r.out)), NEW ch
    PROVE  Fin(p, HeadersAlmostDone(r, ch), l)
<1>1. Now(l, r.out) \in IF "TRAILING" \in r.flags THEN {"chunk_header", "header_value"}
                        ELSE {"url", "status", "header_value"}
  BY DEF OrderInv, LineStates
<1>2. Now(l, r.out) \notin Completes
  BY <1>1 DEF Completes
<1>3. Fin(p, SET_ERRNO(r, "STRICT"), l)
  BY <1>2, GoingRefused DEF Refusals
<1>4. Fin(p, SET_ERRNO(r, "UNEXPECTED_CONTENT_LENGTH"), l)
  BY <1>2, GoingRefused DEF Refusals
<1>5. ASSUME "TRAILING" \in r.flags
      PROVE  Fin(p, REEXECUTE(CALLBACK_NOTIFY(UPDATE_STATE(r, "s_message_done"),
                                              "chunk_complete"), MessageDone), l)
  <2>1. "s_message_done" \in States
    BY DEF States, BodyStates
  <2>2. PICK c : c = UPDATE_STATE(r, "s_message_done")
    OBVIOUS
  <2>3. Going(l, c) /\ Untouched(r, c) /\ c.state = "s_message_done"
    BY <2>1, <2>2, GoingState
  <2>4. Ok(c) /\ c.out = r.out
    BY <2>3 DEF Untouched, Ok
  <2>5. PICK d : d = CALLBACK_NOTIFY(c, "chunk_complete")
    OBVIOUS
  <2>6. /\ Going(l, d) /\ SameHead(c, d) /\ d.errno \in {"OK", "CB"}
        /\ OnSet(d.out) = OnSet(c.out) \cup {"chunk_complete"}
        /\ Now(l, d.out) = "chunk_complete"
    <3>1. "chunk_complete" \in NoticeKinds \ {"chunk_header"}
      BY DEF NoticeKinds
    <3>2. Now(l, c.out) \in Follows["chunk_complete"]
      BY <1>1, <1>5, <2>4 DEF Follows
    <3>3. "chunk_complete" \notin OnSet(c.out)
      BY <2>4
    <3> QED
      BY <2>3, <2>4, <2>5, <3>1, <3>2, <3>3, GoingNotice
  <2>7. CASE ~Ok(d)
    <3>1. d.state # "s_body_identity" /\ d.errno # "ASSERT"
      BY <2>3, <2>6 DEF SameHead
    <3>2. Fin(p, d, l)
      BY <2>6, <2>7, <3>1, GoingEnds
    <3> QED
      BY <2>2, <2>5, <2>7, <3>2 DEF REEXECUTE
  <2>8. CASE Ok(d)
    <3>1. Now(l, d.out) \in Follows["message_complete"]
      BY <2>6 DEF Follows
    <3>2. "message_complete" \notin OnSet(d.out)
      BY <2>4, <2>6
    <3>3. Fin(p, MessageDone(d), l)
      BY <2>6, <2>8, <3>1, <3>2, MessageDoneFin
    <3> QED
      BY <2>2, <2>5, <2>8, <3>3 DEF REEXECUTE
  <2> QED
    BY <2>7, <2>8
<1>6. ASSUME "TRAILING" \notin r.flags, ~BothFramings(r)
      PROVE  Fin(p, REEXECUTE(HeadersComplete([UPDATE_STATE(r, "s_headers_done")
                                       EXCEPT !.upgrade = Upgrades(r)]),
                   HeadersDone), l)
  <2>1. "s_headers_done" \in States
    BY DEF States
  <2>2. PICK c : c = UPDATE_STATE(r, "s_headers_done")
    OBVIOUS
  <2>3. Going(l, c) /\ Untouched(r, c)
    BY <2>1, <2>2, GoingState
  <2>4. PICK b \in BOOLEAN : b = Upgrades(r)
    BY DEF Upgrades
  <2>5. PICK d : d = [c EXCEPT !.upgrade = b]
    OBVIOUS
  <2>6. /\ Going(l, d) /\ d.errno = c.errno /\ d.out = c.out /\ d.flags = c.flags
        /\ d.te = c.te
    BY <2>3, <2>5, SetUpgrade
  <2>7. Ok(d) /\ d.out = r.out /\ d.flags = r.flags /\ d.te = r.te
    BY <2>3, <2>6 DEF Untouched, Ok
  <2>8. PICK e : e = HeadersComplete(d)
    OBVIOUS
  <2>9. /\ Going(l, e)
        /\ e.errno \in {"OK", "CB"}
        /\ OnSet(e.out) = OnSet(d.out) \cup {"headers_complete"}
        /\ Now(l, e.out) = "headers_complete"
        /\ e.te = d.te
        /\ "CONTENTLENGTH" \in e.flags => "CONTENTLENGTH" \in d.flags
    <3>1. Now(l, d.out) \in Follows["headers_complete"]
      BY <1>1, <1>6, <2>7 DEF Follows
    <3>2. "headers_complete" \notin OnSet(d.out)
      BY <2>7
    <3> QED
      BY <2>6, <2>7, <2>8, <3>1, <3>2, HeadersCompleteEffect
  <2>10. CASE ~Ok(e)
    <3>1. e.errno # "ASSERT" /\ Now(l, e.out) \notin Completes
      BY <2>9 DEF Completes
    <3>2. Fin(p, e, l)
      BY <2>9, <2>10, <3>1, GoingEnds
    <3> QED
      BY <2>2, <2>4, <2>5, <2>8, <2>10, <3>2 DEF REEXECUTE
  <2>11. CASE Ok(e)
    <3>1. "message_complete" \notin OnSet(e.out)
      BY <2>7, <2>9
    <3>2. ~(e.te /\ "CONTENTLENGTH" \in e.flags)
      BY <1>6, <2>7, <2>9 DEF BothFramings
    <3>3. Fin(p, HeadersDone(e), l)
      BY <2>9, <2>11, <3>1, <3>2, HeadersDoneFin
    <3> QED
      BY <2>2, <2>4, <2>5, <2>8, <2>11, <3>3 DEF REEXECUTE
  <2> QED
    BY <2>10, <2>11
<1> QED
  BY <1>3, <1>4, <1>5, <1>6 DEF HeadersAlmostDone

-----------------------------------------------------------------------------
(* Header lines *)

(* The flags of a header stay right in every line of it.                   *)
LEMMA HeaderFlags ==
    ASSUME NEW s \in FieldStates \cup LineStates, NEW h, NEW flags, NEW te,
           "CHUNKED" \in flags => te,
           s \in FieldStates /\ h \in EncodingStates => te,
           s = "s_header_value" => h \notin {"h_connection", "h_transfer_encoding"}
    PROVE  FlagInv(s, h, flags, te)
  BY DEF FlagInv, FieldStates, LineStates, DiscardStates, ChunkStates,
         FirstLineStates, BeginStates, UrlStates, VersionStates

(* The callbacks before a state of the header.                             *)
Before(s, flags) ==
    CASE s \in LineStates -> IF "TRAILING" \in flags
                             THEN {"chunk_header", "header_value"}
                             ELSE {"url", "status", "header_value"}
      [] s = "s_header_field" -> {"url", "status", "header_value", "chunk_header",
                                  "header_field"}
      [] s \in DiscardStates -> {"header_field"}
      [] s = "s_header_value" -> {"header_field", "header_value"}
      [] OTHER -> {"header_value"}

(* Before, state by state.                                                 *)
LEMMA BeforeFacts ==
    ASSUME NEW flags
    PROVE  /\ \A s \in LineStates :
                 Before(s, flags) = IF "TRAILING" \in flags
                                    THEN {"chunk_header", "header_value"}
                                    ELSE {"url", "status", "header_value"}
           /\ Before("s_header_field", flags) =
                 {"url", "status", "header_value", "chunk_header", "header_field"}
           /\ \A s \in DiscardStates : Before(s, flags) = {"header_field"}
           /\ Before("s_header_value", flags) = {"header_field", "header_value"}
           /\ Before("s_header_almost_done", flags) = {"header_value"}
           /\ Before("s_header_value_lws", flags) = {"header_value"}
  BY DEF Before, LineStates, DiscardStates

(* A value may stand before a new line.                                    *)
LEMMA ValueBeforeLine ==
    ASSUME NEW flags
    PROVE  "header_value" \in Before("s_header_field_start", flags)
<1>1. "s_header_field_start" \in LineStates
  BY DEF LineStates
<1>2. Before("s_header_field_start", flags) = IF "TRAILING" \in flags
                                              THEN {"chunk_header", "header_value"}
                                              ELSE {"url", "status", "header_value"}
  BY <1>1, BeforeFacts
<1> QED
  BY <1>2

(* OrderInv in the header.                                                 *)
LEMMA HeaderOrder ==
    ASSUME NEW s \in FieldStates \cup LineStates, NEW flags, NEW l
    PROVE  OrderInv(s, flags, l) <=> l \in Before(s, flags)
<1>1. CASE s \in LineStates
  BY <1>1 DEF OrderInv, Before, LineStates, DiscardStates, BeginStates,
         IdleStates, UrlStates, VersionStates, SizeStates, DataStates, PlainStates
<1>2. CASE s \in FieldStates
  BY <1>2 DEF OrderInv, Before, FieldStates, LineStates, DiscardStates, BeginStates,
         IdleStates, UrlStates, VersionStates, SizeStates, DataStates, PlainStates
<1> QED
  BY <1>1, <1>2

(* The states of the header are states of the parser.                      *)
LEMMA HeaderStates ==
    ASSUME NEW s \in FieldStates \cup LineStates
    PROVE  /\ s \in HeadStates /\ s \in States
           /\ s \notin IdleStates /\ s # "s_chunk_data" /\ s # "s_body_identity"
           /\ s \notin {"s_header_field", "s_header_value"} => ItemOf(s) = "none"
<1>1. s \in HeadStates
  BY DEF HeadStates
<1>2. s \in States /\ s \notin UrlStates /\ s # "s_res_status" /\ s \notin IdleStates
  BY DEF FieldStates, LineStates, DiscardStates, States, UrlStates, IdleStates
<1> QED
  BY <1>1, <1>2, HeadNotBody, ItemFacts

(* header_state changes nothing else.                                      *)
LEMMA NewName ==
    ASSUME NEW r \in Parser, NEW h \in HeaderNames
    PROVE  LET q == [r EXCEPT !.header_state = h]
           IN  /\ Untouched(r, q)
               /\ q.header_state = h
               /\ q.state = r.state
               /\ q.content_length = r.content_length
<1>1. PICK q : q = [r EXCEPT !.header_state = h]
  OBVIOUS
<1>2. Untouched(r, q) /\ q.header_state = h
  BY <1>1 DEF Untouched, Parser
<1>3. q.state = r.state /\ q.content_length = r.content_length
  BY <1>1 DEF Parser
<1> QED
  BY <1>1, <1>2, <1>3

(* The parser may rest at the beginning of a line.                         *)
LEMMA LineRests ==
    ASSUME NEW q, q.state \in LineStates, q.left = FALSE, q.nread <= max_header_size,
           "CHUNKED" \in q.flags => q.te,
           \A k \in DataKinds : q.mark[k] = NoMark,
           NEW l, OrderInv(q.state, q.flags, l)
    PROVE  Resting(q, l)
<1>1. q.state \in HeadStates /\ ItemOf(q.state) = "none"
  BY HeaderStates DEF LineStates
<1>2. FlagInv(q.state, q.header_state, q.flags, q.te)
  BY HeaderFlags DEF LineStates, FieldStates, DiscardStates
<1>3. MarkInv(q.state, q.mark)
  BY <1>1 DEF MarkInv, DataKinds
<1> QED
  BY <1>1, <1>2, <1>3, HeadLengths DEF Resting

(* What a field may begin with.                                            *)
LEMMA FieldStartName ==
    ASSUME NEW ch
    PROVE  FieldStart(ch) \in HeaderNames /\ FieldStart(ch) \notin EncodingStates
  BY DEF FieldStart, HeaderNames, FieldNames, EncodingStates

(* s_header_field_start, also when the states of a value re-execute it.    *)
LEMMA HeaderFieldStartFin ==
    ASSUME NEW l, NEW p, Between(p, l), NEW r, Going(l, r), Ok(r),
           OnSet(r.out) \subseteq {"header_value"},
           OrderInv("s_header_field_start", r.flags, Now(l, r.out)), NEW ch
    PROVE  Fin(p, HeaderFieldStart(r, ch), l)
<1>1. /\ "s_header_field_start" \in FieldStates \cup LineStates
      /\ "s_headers_almost_done" \in FieldStates \cup LineStates
      /\ "s_header_field" \in FieldStates \cup LineStates
      /\ "s_headers_almost_done" \in LineStates
  BY DEF FieldStates, LineStates
<1>2. Now(l, r.out) \in Before("s_header_field_start", r.flags)
  BY <1>1, HeaderOrder
<1>3. Now(l, r.out) \in IF "TRAILING" \in r.flags THEN {"chunk_header", "header_value"}
                        ELSE {"url", "status", "header_value"}
  BY <1>2, BeforeFacts DEF LineStates
<1>4. Now(l, r.out) \notin Completes
  BY <1>3 DEF Completes
<1>5. OrderInv("s_headers_almost_done", r.flags, Now(l, r.out))
  <2>1. Now(l, r.out) \in Before("s_headers_almost_done", r.flags)
    BY <1>1, <1>3, BeforeFacts
  <2> QED
    BY <1>1, <2>1, HeaderOrder
<1>6. PICK c : c = UPDATE_STATE(r, "s_headers_almost_done")
  OBVIOUS
<1>7. /\ Going(l, c) /\ Untouched(r, c) /\ c.state = "s_headers_almost_done"
      /\ Ok(c) /\ c.out = r.out /\ c.flags = r.flags
  <2>1. Going(l, c) /\ Untouched(r, c) /\ c.state = "s_headers_almost_done"
    BY <1>1, <1>6, HeaderStates, GoingState
  <2> QED
    BY <2>1 DEF Untouched, Ok
<1>8. Fin(p, HeadersAlmostDone(c, ch), l)
  BY <1>5, <1>7, HeadersAlmostDoneFin
<1>9. Fin(p, c, l)
  <2>1. Resting(c, Now(l, c.out))
    BY <1>1, <1>5, <1>7, LineRests DEF Going
  <2>2. c.errno # "ASSERT"
    BY <1>7 DEF Ok
  <2> QED
    BY <1>4, <1>7, <2>1, <2>2, GoingEnds
<1>10. Fin(p, SET_ERRNO(r, "INVALID_HEADER_TOKEN"), l)
  BY <1>4, GoingRefused DEF Refusals
<1>11. PICK d : d = UPDATE_STATE(r, "s_header_field")
  OBVIOUS
<1>12. Going(l, d) /\ Untouched(r, d) /\ d.state = "s_header_field"
  BY <1>1, <1>11, HeaderStates, GoingState
<1>13. PICK e : e = MARK(d, "header_field")
  OBVIOUS
<1>14. /\ e \in Parser /\ SameHead(d, e) /\ e.errno = d.errno /\ e.out = d.out
       /\ e.mark["header_field"] # NoMark
       /\ \A j \in DataKinds : j # "header_field" => e.mark[j] = d.mark[j]
       /\ \A j \in DataKinds : Held(e.mark, j) = Held(d.mark, j)
  <2>1. d \in Parser /\ "header_field" \in DataKinds
    BY <1>12 DEF Going, DataKinds
  <2> QED
    BY <1>13, <2>1, MarkEffect
<1>15. PICK q : q = [e EXCEPT !.header_state = FieldStart(ch)]
  OBVIOUS
<1>16. Untouched(e, q) /\ q.header_state = FieldStart(ch) /\ q.state = e.state
  BY <1>14, <1>15, FieldStartName, NewName
<1>17. /\ q \in Parser /\ Ok(q) /\ q.left = FALSE /\ q.out = r.out /\ q.flags = r.flags
       /\ q.te = r.te /\ q.mark = e.mark /\ q.state = "s_header_field"
       /\ q.nread = r.nread
  BY <1>12, <1>14, <1>16 DEF Untouched, SameHead, Ok, Going
<1>18. /\ \A k \in DataKinds : Held(q.mark, k) = 0 /\ Del(q.out, k) = 0
       /\ \A k \in DataKinds : k # "header_field" => q.mark[k] = NoMark
       /\ q.mark["header_field"] # NoMark
  <2>1. \A k \in DataKinds : d.mark[k] = NoMark /\ Held(d.mark, k) = 0 /\ Del(r.out, k) = 0
    BY <1>12 DEF Going, Held, Untouched
  <2> QED
    BY <1>14, <1>17, <2>1
<1>19. Resting(q, Now(l, q.out))
  <2>1. FlagInv(q.state, q.header_state, q.flags, q.te)
    <3>1. "CHUNKED" \in q.flags => q.te
      BY <1>17 DEF Going
    <3>2. q.header_state \notin EncodingStates /\ q.state # "s_header_value"
      BY <1>16, <1>17, FieldStartName
    <3> QED
      BY <1>1, <1>17, <3>1, <3>2, HeaderFlags
  <2>2. OrderInv(q.state, q.flags, Now(l, q.out))
    <3>1. Now(l, q.out) \in Before("s_header_field", q.flags)
      BY <1>3, <1>17, BeforeFacts
    <3> QED
      BY <1>1, <1>17, <3>1, HeaderOrder
  <2>3. MarkInv(q.state, q.mark)
    BY <1>17, <1>18, ItemFacts DEF MarkInv, DataKinds
  <2>4. q.state \in HeadStates /\ q.nread <= max_header_size
    BY <1>1, <1>17, HeaderStates DEF Going
  <2> QED
    BY <1>17, <2>1, <2>2, <2>3, <2>4, HeadLengths DEF Resting
<1>20. Fin(p, q, l)
  <2>1. Linked(l, q.out) /\ "chunk_header" \notin OnSet(q.out) /\ q.errno # "ASSERT"
    BY <1>17 DEF Going, Ok
  <2>2. q.mark["body"] = NoMark
    BY <1>18 DEF DataKinds
  <2>3. Now(l, q.out) \notin Completes
    BY <1>4, <1>17
  <2> QED
    BY <1>17, <1>18, <1>19, <2>1, <2>2, <2>3, Ended
<1>21. ch = CR => ~(ch = LF) /\ IsEol(ch)
  BY DEF CR, LF, IsEol
<1>22. ch = LF => IsEol(ch)
  BY DEF IsEol
<1> QED
  BY <1>6, <1>8, <1>9, <1>10, <1>11, <1>13, <1>15, <1>20, <1>21, <1>22 DEF HeaderFieldStart

(* A byte of the header without a callback.                                *)
LEMMA HeaderSilent ==
    ASSUME NEW l, NEW p, Ready(p, l), p.state \in FieldStates \cup LineStates,
           NEW q \in Parser, q.state \in FieldStates \cup LineStates,
           Ok(q), q.out = <<>>, q.left = FALSE, q.nread = p.nread,
           "CHUNKED" \in q.flags => q.te,
           q.state \in FieldStates /\ q.header_state \in EncodingStates => q.te,
           q.state = "s_header_value" =>
              q.header_state \notin {"h_connection", "h_transfer_encoding"},
           l \in Before(q.state, q.flags),
           MarkInv(q.state, q.mark),
           \A k \in DataKinds : Held(q.mark, k) = Held(p.mark, k)
    PROVE  Fin(p, q, l)
<1>1. FlagInv(q.state, q.header_state, q.flags, q.te)
  BY HeaderFlags
<1>2. OrderInv(q.state, q.flags, l)
  BY HeaderOrder
<1>3. p.state \in HeadStates /\ q.state \in HeadStates
  BY HeaderStates
<1> QED
  BY <1>1, <1>2, <1>3, Silent

(* A field that is matched leaves the flags right.                         *)
LEMMA FieldFlags ==
    ASSUME NEW l, NEW p, Ready(p, l), p.state \in FieldStates
    PROVE  /\ "CHUNKED" \in p.flags => p.te
           /\ p.header_state \in EncodingStates => p.te
           /\ p.state = "s_header_value" =>
                 p.header_state \notin {"h_connection", "h_transfer_encoding"}
           /\ l \in Before(p.state, p.flags)
<1>1. FlagInv(p.state, p.header_state, p.flags, p.te) /\ OrderInv(p.state, p.flags, l)
  BY ReadyFacts
<1>2. l \in Before(p.state, p.flags)
  BY <1>1, HeaderOrder
<1> QED
  BY <1>1, <1>2 DEF FlagInv

(* What a field may go on as.                                              *)
LEMMA FieldCharName ==
    ASSUME NEW hs, NEW ch
    PROVE  /\ FieldChar(hs, ch) \in HeaderNames
           /\ FieldChar(hs, ch) \in EncodingStates => FieldChar(hs, ch) = "h_transfer_encoding"
<1>1. FieldChar(hs, ch) \in FieldNames
  BY DEF FieldChar, FieldWord, FieldNames
<1> QED
  BY <1>1 DEF HeaderNames, FieldNames, EncodingStates

(* Counting the bytes of a loop: the parser is as ready as before, or the  *)
(* header is too long.                                                     *)
LEMMA Recount ==
    ASSUME NEW l, NEW p, Ready(p, l), p.state \in LoopStates, NEW n \in Nat,
           NEW c, c = COUNT_HEADER_SIZE(p, n)
    PROVE  /\ c \in Parser /\ c.out = <<>> /\ c.state = p.state
           /\ Ok(c) => Ready(c, l) /\ c = [p EXCEPT !.nread = p.nread + n]
           /\ ~Ok(c) => c.errno = "HEADER_OVERFLOW" /\ p.nread + n > max_header_size
           /\ \A q : Fin(c, q, l) => Fin(p, q, l)
<1>1. p \in Parser /\ Ok(p) /\ p.out = <<>> /\ p.left = FALSE
  BY ReadyFacts
<1>2. PICK m \in Counts : m = p.nread + n
  BY <1>1 DEF Parser, Counts
<1>3. PICK d : d = [p EXCEPT !.nread = m]
  OBVIOUS
<1>4. d \in Parser /\ d.nread = m /\ d.out = p.out /\ d.errno = p.errno /\ d.left = p.left
  BY <1>1, <1>3 DEF Parser
<1>5. /\ d.state = p.state /\ d.mark = p.mark /\ d.content_length = p.content_length
      /\ d.header_state = p.header_state /\ d.flags = p.flags /\ d.te = p.te
  BY <1>1, <1>3 DEF Parser
<1>6. c = IF m > max_header_size THEN SET_ERRNO(d, "HEADER_OVERFLOW") ELSE d
  <2>1. d = [p EXCEPT !.nread = @ + n]
    BY <1>2, <1>3
  <2> QED
    BY <1>4, <2>1 DEF COUNT_HEADER_SIZE
<1>7. ASSUME c \in Parser, c.state = p.state, c.mark = p.mark,
             c.content_length = p.content_length
      PROVE  \A q : Fin(c, q, l) => Fin(p, q, l)
  <2>1. Expected(c) = Expected(p) /\ \A q, w : WantNext(c, q, w) = WantNext(p, q, w)
    BY <1>7 DEF Expected, WantNext
  <2>2. \A q : Moved(c, q) => Moved(p, q)
    BY <1>7 DEF Moved
  <2> QED
    BY <2>1, <2>2 DEF Fin
<1>8. CASE m > max_header_size
  <2>1. c = SET_ERRNO(d, "HEADER_OVERFLOW") /\ "HEADER_OVERFLOW" \in Errnos
    BY <1>6, <1>8 DEF Errnos, Refusals
  <2>2. c \in Parser /\ c.out = d.out /\ c.errno = "HEADER_OVERFLOW" /\ c.state = d.state
    BY <1>4, <2>1 DEF SET_ERRNO, Parser
  <2>3. c.mark = d.mark /\ c.content_length = d.content_length
    BY <1>4, <2>1 DEF SET_ERRNO, Parser
  <2> QED
    BY <1>1, <1>2, <1>4, <1>5, <1>7, <1>8, <2>2, <2>3 DEF Ok
<1>9. CASE ~(m > max_header_size)
  <2>1. c = d
    BY <1>6, <1>9
  <2>2. d.nread <= max_header_size /\ d.state # "s_chunk_size_start"
    BY <1>2, <1>4, <1>5, <1>9, ParserBounds DEF Counts, LoopStates
  <2>3. Ready(d, l)
    BY <1>1, <1>4, <1>5, <2>2 DEF Ready, Ok
  <2> QED
    BY <1>1, <1>2, <1>3, <1>4, <1>5, <1>7, <2>1, <2>3 DEF Ok
<1> QED
  BY <1>8, <1>9

(* A parser that has refused the length of the header.                     *)
LEMMA Overflow ==
    ASSUME NEW l, NEW p, NEW c \in Parser, c.out = <<>>, c.errno = "HEADER_OVERFLOW"
    PROVE  Fin(p, c, l)
  BY NoneOut DEF Fin, Ok

(* The colon behind a field.                                               *)
LEMMA FieldEnds ==
    ASSUME NEW l, NEW p, Ready(p, l), p.state = "s_header_field"
    PROVE  Fin(p, CALLBACK_DATA(UPDATE_STATE(p, "s_header_value_discard_ws"),
                                "header_field"), l)
<1>1. /\ p.state \in FieldStates /\ p.state \in FieldStates \cup LineStates
      /\ "s_header_value_discard_ws" \in FieldStates
      /\ "s_header_value_discard_ws" \in DiscardStates
  BY DEF FieldStates, DiscardStates
<1>2. p \in Parser /\ p.mark \in Marks /\ MarkInv(p.state, p.mark) /\ Ok(p)
      /\ p.out = <<>> /\ p.left = FALSE
  BY ReadyFacts
<1>3. /\ "CHUNKED" \in p.flags => p.te
      /\ p.header_state \in EncodingStates => p.te
      /\ l \in Before(p.state, p.flags)
  BY <1>1, FieldFlags
<1>11. PICK c : c = UPDATE_STATE(p, "s_header_value_discard_ws")
  OBVIOUS
<1>12. /\ Untouched(p, c) /\ c.state = "s_header_value_discard_ws"
       /\ c.header_state = p.header_state
  BY <1>1, <1>2, <1>11, HeaderStates, UpdateState
<1>13. /\ c \in Parser /\ Ok(c) /\ c.out = <<>> /\ c.left = FALSE /\ c.nread = p.nread
       /\ c.flags = p.flags /\ c.te = p.te /\ c.mark = p.mark
  BY <1>2, <1>12 DEF Untouched, Ok
<1>14. Fin(p, CALLBACK_DATA(c, "header_field"), l)
  <2>1. ItemOf(p.state) = "header_field" /\ "header_field" \in DataKinds \ {"body"}
    BY ItemFacts DEF DataKinds
  <2>2. p.state \in HeadStates /\ c.state \in HeadStates /\ ItemOf(c.state) = "none"
    BY <1>1, <1>12, HeaderStates
  <2>3. /\ p.mark["header_field"] # NoMark
        /\ \A j \in DataKinds : j # "header_field" => p.mark[j] = NoMark
    BY <2>1, <2>2, OnlyMarked
  <2>4. l \in Follows["header_field"]
    BY <1>3, BeforeFacts DEF Follows
  <2>5. FlagInv(c.state, c.header_state, c.flags, c.te)
    BY <1>1, <1>3, <1>12, <1>13, HeaderFlags
  <2>6. OrderInv(c.state, c.flags, "header_field")
    <3>2. Before("s_header_value_discard_ws", c.flags) = {"header_field"}
      BY <1>1, BeforeFacts
    <3>1. "header_field" \in Before(c.state, c.flags)
      BY <1>12, <3>2
    <3> QED
      BY <1>1, <1>12, <3>1, HeaderOrder
  <2>7. MarkInv(c.state, Unmarked(c.mark, "header_field"))
    <3>1. \A j \in DataKinds : Unmarked(c.mark, "header_field")[j] = NoMark
      BY <1>2, <1>13, <2>3 DEF Unmarked, Marks
    <3> QED
      BY <2>2, <3>1 DEF MarkInv, DataKinds
  <2>8. /\ c.mark["header_field"] # NoMark
        /\ \A j \in DataKinds : Held(c.mark, j) = Held(p.mark, j)
    BY <1>13, <2>3
  <2> QED
    BY <1>13, <2>1, <2>2, <2>4, <2>5, <2>6, <2>7, <2>8, Reported
<1> QED
  BY <1>11, <1>14

(* A byte in s_header_field.                                               *)
LEMMA HeaderFieldFin ==
    ASSUME NEW l, NEW p, Ready(p, l), p.state = "s_header_field", NEW ch
    PROVE  Fin(p, HeaderField(p, ch), l)
<1>1. /\ p.state \in FieldStates /\ p.state \in FieldStates \cup LineStates
      /\ "s_header_value_discard_ws" \in FieldStates
      /\ "s_header_value_discard_ws" \in DiscardStates
  BY DEF FieldStates, DiscardStates
<1>2. p \in Parser /\ p.mark \in Marks /\ MarkInv(p.state, p.mark) /\ Ok(p)
      /\ p.out = <<>> /\ p.left = FALSE
  BY ReadyFacts
<1>3. /\ "CHUNKED" \in p.flags => p.te
      /\ p.header_state \in EncodingStates => p.te
      /\ l \in Before(p.state, p.flags)
  BY <1>1, FieldFlags
<1>4. PICK h \in HeaderNames : h = FieldChar(p.header_state, ch)
  BY FieldCharName
<1>5. PICK t \in BOOLEAN : t = (p.te \/ h = "h_transfer_encoding")
  OBVIOUS
<1>6. PICK q : q = [p EXCEPT !.header_state = h, !.te = t]
  OBVIOUS
<1>7. q \in Parser /\ q.header_state = h /\ q.te = t /\ q.state = p.state
  BY <1>2, <1>4, <1>5, <1>6 DEF Parser
<1>8. /\ q.errno = p.errno /\ q.out = p.out /\ q.left = p.left /\ q.nread = p.nread
      /\ q.flags = p.flags /\ q.mark = p.mark
  BY <1>2, <1>6 DEF Parser
<1>9. Fin(p, q, l)
  <2>1. q.header_state \in EncodingStates => q.te
    BY <1>4, <1>5, <1>7, FieldCharName
  <2>2. "CHUNKED" \in q.flags => q.te
    BY <1>3, <1>5, <1>7, <1>8
  <2>3. q.state # "s_header_value"
    BY <1>7
  <2>4. /\ Ok(q) /\ q.out = <<>> /\ q.left = FALSE /\ MarkInv(q.state, q.mark)
        /\ l \in Before(q.state, q.flags)
    BY <1>2, <1>3, <1>7, <1>8 DEF Ok
  <2> QED
    BY <1>1, <1>7, <1>8, <2>1, <2>2, <2>3, <2>4, HeaderSilent
<1>10. PICK c : c = COUNT_HEADER_SIZE(p, p.run)
  OBVIOUS
<1>11. /\ c \in Parser /\ c.out = <<>> /\ c.state = p.state
       /\ Ok(c) => Ready(c, l)
       /\ ~Ok(c) => c.errno = "HEADER_OVERFLOW"
       /\ \A x : Fin(c, x, l) => Fin(p, x, l)
  <2>1. p.run \in Nat /\ p.state \in LoopStates
    BY <1>2 DEF Parser, Counts, LoopStates
  <2> QED
    BY <1>10, <2>1, Recount
<1>12. ~Ok(c) => Fin(p, c, l)
  BY <1>11, Overflow
<1>13. Fin(p, SET_ERRNO(c, "INVALID_HEADER_TOKEN"), l)
  BY <1>11, Refused DEF Refusals
<1>14. Ok(c) => Fin(p, CALLBACK_DATA(UPDATE_STATE(c, "s_header_value_discard_ws"),
                                     "header_field"), l)
  BY <1>11, FieldEnds
<1>15. HeaderField(p, ch) =
          CASE TOKEN(ch) -> q
            [] ~TOKEN(ch) /\ ~Ok(c) -> c
            [] ch = ":" /\ Ok(c) ->
                  CALLBACK_DATA(UPDATE_STATE(c, "s_header_value_discard_ws"),
                                "header_field")
            [] OTHER -> SET_ERRNO(c, "INVALID_HEADER_TOKEN")
  BY <1>4, <1>5, <1>6, <1>10 DEF HeaderField
<1>16. ~TOKEN(":")
  BY DEF TOKEN, Letters, Words, Value
<1> QED
  BY <1>9, <1>12, <1>13, <1>14, <1>15, <1>16

(* What a token of a value may begin with.                                 *)
LEMMA TokenNames ==
    ASSUME NEW ch
    PROVE  /\ ConnectionToken(ch) \in HeaderNames \ EncodingStates
           /\ ConnectionToken(ch) \notin {"h_connection", "h_transfer_encoding"}
           /\ EncodingToken(ch) \in HeaderNames
           /\ EncodingToken(ch) \notin {"h_connection", "h_transfer_encoding"}
  BY DEF ConnectionToken, EncodingToken, HeaderNames, ValueNames, EncodingStates

(* s_header_value_start, which the states before a value re-execute.       *)
LEMMA HeaderValueStartFin ==
    ASSUME NEW l, NEW p, Between(p, l), p.state \in FieldStates,
           l \in {"header_field", "header_value"},
           NEW r, Untouched(p, r), r.header_state \in EncodingStates => p.te, NEW ch
    PROVE  Fin(p, HeaderValueStart(r, ch), l)
<1>1. /\ Ready(p, l) /\ p \in Parser /\ p.mark \in Marks /\ MarkInv(p.state, p.mark)
      /\ Ok(p) /\ p.out = <<>> /\ p.left = FALSE
  BY ReadyFacts DEF Between
<1>2. "CHUNKED" \in p.flags => p.te
  BY <1>1, FieldFlags
<1>3. \A j \in DataKinds : p.mark[j] = NoMark
  BY NothingMarked DEF Between
<1>4. "s_header_value" \in States /\ "s_header_value" \in FieldStates \cup LineStates
  BY HeaderStates DEF FieldStates
<1>5. PICK c : c = UPDATE_STATE(r, "s_header_value")
  OBVIOUS
<1>6. Untouched(r, c) /\ c.state = "s_header_value" /\ c.header_state = r.header_state
  BY <1>4, <1>5, UpdateState DEF Untouched
<1>7. PICK in : in = MARK(c, "header_value")
  OBVIOUS
<1>8. /\ in \in Parser /\ SameHead(c, in) /\ in.errno = c.errno /\ in.out = c.out
      /\ in.mark["header_value"] # NoMark
      /\ \A j \in DataKinds : j # "header_value" => in.mark[j] = c.mark[j]
      /\ \A j \in DataKinds : Held(in.mark, j) = Held(c.mark, j)
  <2>1. "header_value" \in DataKinds /\ c \in Parser
    BY <1>6 DEF DataKinds, Untouched
  <2> QED
    BY <1>7, <2>1, MarkEffect
<1>9. /\ in.state = "s_header_value" /\ Ok(in) /\ in.out = <<>> /\ in.left = FALSE
      /\ in.nread = p.nread /\ in.flags = p.flags /\ in.te = p.te
      /\ in.header_state = r.header_state
      /\ \A j \in DataKinds : j # "header_value" => in.mark[j] = NoMark
      /\ \A j \in DataKinds : Held(in.mark, j) = Held(p.mark, j)
  BY <1>1, <1>3, <1>6, <1>8 DEF Untouched, SameHead, Ok
<1>10. MarkInv("s_header_value", in.mark)
  BY <1>8, <1>9, ItemFacts DEF MarkInv, DataKinds
<1>11. ASSUME NEW q \in Parser, q.state = "s_header_value", q.errno = in.errno,
              q.out = in.out, q.left = in.left, q.nread = in.nread, q.te = in.te,
              q.mark = in.mark,
              "CHUNKED" \in q.flags => "CHUNKED" \in in.flags,
              q.header_state \in EncodingStates => p.te,
              q.header_state \notin {"h_connection", "h_transfer_encoding"}
       PROVE  Fin(p, q, l)
  <2>1. l \in Before(q.state, q.flags)
    BY <1>11, BeforeFacts
  <2>2. p.state \in FieldStates \cup LineStates /\ q.state \in FieldStates \cup LineStates
    BY <1>4, <1>11
  <2>3. /\ Ok(q) /\ q.out = <<>> /\ q.left = FALSE /\ q.nread = p.nread
        /\ "CHUNKED" \in q.flags => q.te
        /\ q.header_state \in EncodingStates => q.te
        /\ \A k \in DataKinds : Held(q.mark, k) = Held(p.mark, k)
    BY <1>2, <1>9, <1>11 DEF Ok
  <2>4. MarkInv(q.state, q.mark)
    BY <1>10, <1>11
  <2> QED
    BY <1>1, <1>11, <2>1, <2>2, <2>3, <2>4, HeaderSilent
<1>12. ASSUME NEW d \in Parser, d.state = "s_header_value", d.errno = in.errno,
              d.out = in.out, d.left = in.left, d.nread = in.nread, d.te = in.te,
              d.mark = in.mark,
              "CHUNKED" \in d.flags => "CHUNKED" \in in.flags,
              NEW h \in HeaderNames, h \in EncodingStates => p.te,
              h \notin {"h_connection", "h_transfer_encoding"}
       PROVE  Fin(p, [d EXCEPT !.header_state = h], l)
  <2>1. PICK q : q = [d EXCEPT !.header_state = h]
    OBVIOUS
  <2>2. Untouched(d, q) /\ q.header_state = h /\ q.state = d.state
    BY <2>1, NewName
  <2> QED
    BY <1>11, <1>12, <2>1, <2>2, ZenonT(60) DEF Untouched
<1>13. /\ "h_general" \in HeaderNames /\ "h_general" \notin EncodingStates
       /\ "h_content_length_num" \in HeaderNames
       /\ "h_content_length_num" \notin EncodingStates
  BY DEF HeaderNames, FieldNames, ValueNames, EncodingStates
<1>14. Fin(p, [Flag(in, "UPGRADE") EXCEPT !.header_state = "h_general"], l)
  <2>1. PICK d : d = Flag(in, "UPGRADE")
    OBVIOUS
  <2>2. /\ d \in Parser /\ d.flags = in.flags \cup {"UPGRADE"}
        /\ d.errno = in.errno /\ d.out = in.out /\ d.left = in.left
        /\ d.nread = in.nread /\ d.te = in.te /\ d.mark = in.mark
        /\ d.state = in.state
    BY <1>8, <2>1, FlagEffect
  <2> QED
    BY <1>9, <1>12, <1>13, <2>1, <2>2
<1>15. r.header_state = "h_transfer_encoding"
          => Fin(p, [in EXCEPT !.header_state = EncodingToken(ch)], l)
  <2>1. "h_transfer_encoding" \in EncodingStates
    BY DEF EncodingStates
  <2>2. PICK h : h = EncodingToken(ch)
    OBVIOUS
  <2> QED
    BY <1>8, <1>9, <1>12, <2>1, <2>2, TokenNames
<1>16. Fin(p, SET_ERRNO(in, "INVALID_CONTENT_LENGTH"), l)
  BY <1>8, <1>9, Refused DEF Refusals
<1>17. Fin(p, SET_ERRNO(in, "UNEXPECTED_CONTENT_LENGTH"), l)
  BY <1>8, <1>9, Refused DEF Refusals
<1>18. ASSUME IS_NUM(ch)
       PROVE  Fin(p, [[Flag(in, "CONTENTLENGTH") EXCEPT !.content_length = Value[ch]]
                         EXCEPT !.header_state = "h_content_length_num"], l)
  <2>1. PICK d : d = Flag(in, "CONTENTLENGTH")
    OBVIOUS
  <2>2. /\ d \in Parser /\ d.flags = in.flags \cup {"CONTENTLENGTH"}
        /\ d.errno = in.errno /\ d.out = in.out /\ d.left = in.left
        /\ d.nread = in.nread /\ d.te = in.te /\ d.mark = in.mark
        /\ d.state = in.state
    BY <1>8, <2>1, FlagEffect
  <2>3. PICK v \in Lengths : v = Value[ch]
    BY <1>18, Digits, ParserBounds DEF Lengths
  <2>4. PICK e : e = [d EXCEPT !.content_length = v]
    OBVIOUS
  <2>5. e \in Parser /\ e.flags = d.flags /\ e.state = d.state /\ e.errno = d.errno
    BY <2>2, <2>4 DEF Parser
  <2>6. /\ e.out = d.out /\ e.left = d.left /\ e.nread = d.nread /\ e.te = d.te
        /\ e.mark = d.mark
    BY <2>2, <2>4 DEF Parser
  <2>7. Fin(p, [e EXCEPT !.header_state = "h_content_length_num"], l)
    BY <1>9, <1>12, <1>13, <2>2, <2>5, <2>6
  <2> QED
    BY <2>1, <2>3, <2>4, <2>7
<1>19. Fin(p, [in EXCEPT !.header_state = ConnectionToken(ch)], l)
  <2>1. PICK h : h = ConnectionToken(ch)
    OBVIOUS
  <2> QED
    BY <1>8, <1>9, <1>12, <2>1, TokenNames
<1>20. r.header_state \notin {"h_connection", "h_transfer_encoding"} => Fin(p, in, l)
  BY <1>8, <1>9, <1>11
<1>21. Fin(p, [in EXCEPT !.header_state = "h_general"], l)
  BY <1>8, <1>9, <1>12, <1>13
<1> QED
  BY <1>5, <1>7, <1>14, <1>15, <1>16, <1>17, <1>18, <1>19, <1>20, <1>21 DEF HeaderValueStart

(* UPDATE_STATE in the header.                                             *)
LEMMA HeaderMove ==
    ASSUME NEW l, NEW p, Ready(p, l), p.state \in FieldStates,
           NEW s \in FieldStates, ItemOf(s) = ItemOf(p.state), s # "s_header_value",
           l \in Before(s, p.flags)
    PROVE  Fin(p, UPDATE_STATE(p, s), l)
<1>1. p \in Parser /\ p.mark \in Marks /\ MarkInv(p.state, p.mark) /\ Ok(p)
      /\ p.out = <<>> /\ p.left = FALSE
  BY ReadyFacts
<1>2. /\ "CHUNKED" \in p.flags => p.te
      /\ p.header_state \in EncodingStates => p.te
  BY FieldFlags
<1>3. s \in States /\ s \in HeadStates /\ p.state \in HeadStates
  BY HeaderStates
<1>4. PICK q : q = UPDATE_STATE(p, s)
  OBVIOUS
<1>5. Untouched(p, q) /\ q.state = s /\ q.header_state = p.header_state
  BY <1>1, <1>3, <1>4, UpdateState
<1>6. /\ q \in Parser /\ Ok(q) /\ q.out = <<>> /\ q.left = FALSE /\ q.nread = p.nread
      /\ q.flags = p.flags /\ q.te = p.te /\ q.mark = p.mark
  BY <1>1, <1>5 DEF Untouched, Ok
<1>7. MarkInv(q.state, q.mark)
  BY <1>1, <1>3, <1>5, <1>6, SameItem
<1>8. p.state \in FieldStates \cup LineStates /\ q.state \in FieldStates \cup LineStates
  BY <1>5
<1> QED
  BY <1>2, <1>4, <1>5, <1>6, <1>7, <1>8, HeaderSilent

(* UPDATE_STATE between colon and value.                                   *)
LEMMA DiscardMove ==
    ASSUME NEW l, NEW p, Ready(p, l), p.state \in DiscardStates, NEW s \in DiscardStates
    PROVE  Fin(p, UPDATE_STATE(p, s), l)
<1>1. p.state \in FieldStates /\ s \in FieldStates
  BY DEF FieldStates
<1>2. ItemOf(s) = "none" /\ ItemOf(p.state) = "none" /\ s # "s_header_value"
  BY <1>1, HeaderStates DEF DiscardStates
<1>3. l \in Before(p.state, p.flags)
  BY <1>1, FieldFlags
<1>4. l \in Before(s, p.flags)
  BY <1>3, BeforeFacts
<1> QED
  BY <1>1, <1>2, <1>4, HeaderMove

(* Between colon and value nothing is marked.                              *)
LEMMA DiscardBetween ==
    ASSUME NEW l, NEW p, Ready(p, l),
           p.state \in DiscardStates \cup {"s_header_value_lws"}
    PROVE  /\ Between(p, l)
           /\ p.state \in FieldStates
           /\ l = IF p.state = "s_header_value_lws" THEN "header_value" ELSE "header_field"
<1>1. p.state \in FieldStates
  BY DEF FieldStates
<1>2. ItemOf(p.state) = "none" /\ p.state \in HeadStates
  BY <1>1, HeaderStates DEF DiscardStates
<1>3. l \in Before(p.state, p.flags)
  BY <1>1, FieldFlags
<1>4. CASE p.state = "s_header_value_lws"
  <2>1. Before("s_header_value_lws", p.flags) = {"header_value"}
    BY BeforeFacts
  <2> QED
    BY <1>1, <1>2, <1>3, <1>4, <2>1 DEF Between
<1>5. CASE p.state \in DiscardStates
  <2>1. Before(p.state, p.flags) = {"header_field"}
    BY <1>5, BeforeFacts
  <2>2. p.state # "s_header_value_lws"
    BY <1>5 DEF DiscardStates
  <2> QED
    BY <1>1, <1>2, <1>3, <2>1, <2>2 DEF Between
<1> QED
  BY <1>4, <1>5

(* A byte that only changes header_state.                                  *)
LEMMA StayInField ==
    ASSUME NEW l, NEW p, Ready(p, l), p.state \in FieldStates
    PROVE  Fin(p, p, l)
<1>1. p \in Parser /\ MarkInv(p.state, p.mark) /\ Ok(p) /\ p.out = <<>> /\ p.left = FALSE
  BY ReadyFacts
<1>2. /\ "CHUNKED" \in p.flags => p.te
      /\ p.header_state \in EncodingStates => p.te
      /\ p.state = "s_header_value" =>
            p.header_state \notin {"h_connection", "h_transfer_encoding"}
      /\ l \in Before(p.state, p.flags)
  BY FieldFlags
<1>3. p.state \in FieldStates \cup LineStates
  OBVIOUS
<1> QED
  BY <1>1, <1>2, <1>3, HeaderSilent

(* A byte in s_header_value_discard_ws.                                    *)
LEMMA HeaderValueDiscardWsFin ==
    ASSUME NEW l, NEW p, Ready(p, l), p.state = "s_header_value_discard_ws", NEW ch
    PROVE  Fin(p, HeaderValueDiscardWs(p, ch), l)
<1>1. /\ p.state \in DiscardStates
      /\ "s_header_value_discard_ws_almost_done" \in DiscardStates
      /\ "s_header_value_discard_lws" \in DiscardStates
  BY DEF DiscardStates
<1>2. Between(p, l) /\ p.state \in FieldStates /\ l = "header_field"
  BY <1>1, DiscardBetween
<1>3. Fin(p, p, l)
  BY <1>2, StayInField
<1>4. Fin(p, UPDATE_STATE(p, "s_header_value_discard_ws_almost_done"), l)
  BY <1>1, DiscardMove
<1>5. Fin(p, UPDATE_STATE(p, "s_header_value_discard_lws"), l)
  BY <1>1, DiscardMove
<1>6. Fin(p, HeaderValueStart(p, ch), l)
  <2>1. Untouched(p, p)
    BY ReadyFacts DEF Untouched
  <2>2. p.header_state \in EncodingStates => p.te
    BY <1>2, FieldFlags
  <2> QED
    BY <1>2, <2>1, <2>2, HeaderValueStartFin
<1> QED
  BY <1>3, <1>4, <1>5, <1>6 DEF HeaderValueDiscardWs, IsBlank, SP, TAB, CR, LF

(* The words that values are matched with.                                 *)
LEMMA ValueDomains ==
    /\ DOMAIN ValueWord =
          {"h_matching_transfer_encoding_chunked", "h_matching_connection_keep_alive",
           "h_matching_connection_close", "h_matching_connection_upgrade"}
    /\ DOMAIN Meaning =
          {"h_connection_keep_alive", "h_connection_close", "h_connection_upgrade",
           "h_transfer_encoding_chunked"}
  BY DEF ValueWord, Meaning

(* What a value may go on as: a Transfer-Encoding field stays one.         *)
LEMMA ValueStateName ==
    ASSUME NEW hs, NEW ch
    PROVE  /\ ValueState(hs, ch) \in HeaderNames
           /\ ValueState(hs, ch) \notin {"h_connection", "h_transfer_encoding"}
           /\ ValueState(hs, ch) \in EncodingStates => hs \in EncodingStates
<1> DEFINE Good(h) == /\ h \in HeaderNames
                      /\ h \notin {"h_connection", "h_transfer_encoding"}
                      /\ h \in EncodingStates => hs \in EncodingStates
           ConnectionNames == {"h_matching_connection_token_start",
                               "h_matching_connection_token"}
           EncodingNames == {"h_matching_transfer_encoding_token_start",
                             "h_matching_transfer_encoding_token"}
<1>1. Good("h_general") /\ \A h \in ConnectionNames : Good(h)
  BY DEF HeaderNames, FieldNames, ValueNames, EncodingStates
<1>2. hs \in EncodingStates => \A h \in EncodingNames : Good(h)
  BY DEF HeaderNames, FieldNames, ValueNames, EncodingStates
<1>3. CASE hs = "h_matching_connection_token_start"
  <2>1. ValueState(hs, ch) \in {ConnectionToken(ch), hs, "h_general"}
    BY <1>3, ValueDomains DEF ValueState
  <2> QED
    BY <1>1, <1>3, <2>1, TokenNames
<1>4. CASE hs = "h_matching_transfer_encoding_token_start"
  <2>1. ValueState(hs, ch) \in {EncodingToken(ch), hs, "h_general"}
    BY <1>4, ValueDomains DEF ValueState
  <2>2. hs \in EncodingStates
    BY <1>4 DEF EncodingStates
  <2> QED
    BY <1>1, <1>2, <1>4, <2>1, <2>2, TokenNames
<1>5. CASE hs \in DOMAIN ValueWord
  <2>1. ValueState(hs, ch) \in {ValueWord[hs][2], TokenOf(hs)}
    BY <1>5, ValueDomains DEF ValueState
  <2>2. Good(ValueWord[hs][2])
    BY <1>5, ValueDomains DEF ValueWord, HeaderNames, ValueNames, EncodingStates
  <2>3. Good(TokenOf(hs))
    BY <1>5, ValueDomains DEF TokenOf, HeaderNames, ValueNames, EncodingStates
  <2> QED
    BY <2>1, <2>2, <2>3
<1>6. CASE hs \in DOMAIN Meaning
  <2>1. ValueState(hs, ch) \in {hs, TokenOf(hs), "h_matching_connection_token_start"}
    BY <1>6, ValueDomains DEF ValueState
  <2>2. Good(hs)
    BY <1>6, ValueDomains DEF HeaderNames, ValueNames, EncodingStates
  <2>3. Good(TokenOf(hs))
    BY <1>6, ValueDomains DEF TokenOf, HeaderNames, ValueNames, EncodingStates
  <2> QED
    BY <1>1, <2>1, <2>2, <2>3
<1>7. CASE hs = "h_matching_transfer_encoding_token"
  <2>1. ValueState(hs, ch) \in EncodingNames
    BY <1>7, ValueDomains DEF ValueState
  <2>2. hs \in EncodingStates
    BY <1>7 DEF EncodingStates
  <2> QED
    BY <1>2, <2>1, <2>2
<1>8. CASE hs = "h_matching_connection_token"
  <2>1. ValueState(hs, ch) \in ConnectionNames
    BY <1>8, ValueDomains DEF ValueState
  <2> QED
    BY <1>1, <2>1
<1>9. CASE hs \notin DOMAIN ValueWord \cup DOMAIN Meaning
                     \cup ConnectionNames \cup EncodingNames
  <2>1. ValueState(hs, ch) = "h_general"
    BY <1>9, ValueDomains DEF ValueState
  <2> QED
    BY <1>1, <2>1
<1> QED
  BY <1>3, <1>4, <1>5, <1>6, <1>7, <1>8, <1>9

(* One more digit of a length does not pass the largest one.               *)
LEMMA AddDigitEffect ==
    ASSUME NEW r \in Parser, NEW base \in {10, 16}, NEW digit \in 0 .. (base - 1),
           ~((MaxLength - base) \div base < r.content_length)
    PROVE  LET q == [r EXCEPT !.content_length = base * @ + digit]
           IN  /\ Untouched(r, q)
               /\ q.state = r.state /\ q.header_state = r.header_state
               /\ q.content_length # MaxLength
<1>1. PICK c \in 0 .. MaxLength : c = r.content_length
  BY DEF Parser, Lengths
<1>2. PICK d \in Int : d = (MaxLength - base) \div base /\ base * d <= MaxLength - base
  BY ParserBounds
<1>3. c <= d
  BY <1>1, <1>2
<1>4. base * c + digit \in 0 .. (MaxLength - 1)
  <2>1. CASE base = 10
    BY <1>1, <1>2, <1>3, <2>1, ParserBounds
  <2>2. CASE base = 16
    BY <1>1, <1>2, <1>3, <2>2, ParserBounds
  <2> QED
    BY <2>1, <2>2
<1>5. PICK v \in Lengths : v = base * c + digit /\ v # MaxLength
  BY <1>4, ParserBounds DEF Lengths
<1>6. PICK q : q = [r EXCEPT !.content_length = v]
  OBVIOUS
<1>7. Untouched(r, q) /\ q.content_length = v
  BY <1>5, <1>6 DEF Untouched, Parser
<1>8. q.state = r.state /\ q.header_state = r.header_state
  BY <1>6 DEF Parser
<1> QED
  BY <1>1, <1>5, <1>6, <1>7, <1>8

(* The value ends with its line.                                           *)
LEMMA ValueEnds ==
    ASSUME NEW l, NEW p, Ready(p, l), p.state = "s_header_value",
           NEW e, e = CALLBACK_DATA(UPDATE_STATE(p, "s_header_almost_done"),
                                    "header_value")
    PROVE  /\ Fin(p, e, l)
           /\ Ok(e) => e.state = "s_header_almost_done" /\ Now(l, e.out) = "header_value"
<1>1. /\ p.state \in FieldStates /\ p.state \in FieldStates \cup LineStates
      /\ "s_header_almost_done" \in FieldStates
  BY DEF FieldStates
<1>2. p \in Parser /\ p.mark \in Marks /\ Ok(p) /\ p.out = <<>> /\ p.left = FALSE
  BY ReadyFacts
<1>3. /\ "CHUNKED" \in p.flags => p.te
      /\ p.header_state \in EncodingStates => p.te
      /\ l \in Before(p.state, p.flags)
  BY <1>1, FieldFlags
<1>4. PICK c : c = UPDATE_STATE(p, "s_header_almost_done")
  OBVIOUS
<1>5. /\ Untouched(p, c) /\ c.state = "s_header_almost_done"
      /\ c.header_state = p.header_state
  BY <1>1, <1>2, <1>4, HeaderStates, UpdateState
<1>6. /\ c \in Parser /\ Ok(c) /\ c.out = <<>> /\ c.left = FALSE /\ c.nread = p.nread
      /\ c.flags = p.flags /\ c.te = p.te /\ c.mark = p.mark
  BY <1>2, <1>5 DEF Untouched, Ok
<1>7. ItemOf(p.state) = "header_value" /\ "header_value" \in DataKinds \ {"body"}
  BY ItemFacts DEF DataKinds
<1>8. p.state \in HeadStates /\ c.state \in HeadStates /\ ItemOf(c.state) = "none"
  BY <1>1, <1>5, HeaderStates
<1>9. /\ p.mark["header_value"] # NoMark
      /\ \A j \in DataKinds : j # "header_value" => p.mark[j] = NoMark
  BY <1>7, <1>8, OnlyMarked
<1>10. l \in Follows["header_value"]
  BY <1>3, BeforeFacts DEF Follows
<1>11. FlagInv(c.state, c.header_state, c.flags, c.te)
  BY <1>1, <1>3, <1>5, <1>6, HeaderFlags
<1>12. OrderInv(c.state, c.flags, "header_value")
  <2>1. "header_value" \in Before(c.state, c.flags)
    BY <1>5, BeforeFacts
  <2> QED
    BY <1>1, <1>5, <2>1, HeaderOrder
<1>13. MarkInv(c.state, Unmarked(c.mark, "header_value"))
  <2>1. \A j \in DataKinds : Unmarked(c.mark, "header_value")[j] = NoMark
    BY <1>2, <1>6, <1>9 DEF Unmarked, Marks
  <2> QED
    BY <1>8, <2>1 DEF MarkInv, DataKinds
<1>14. /\ c.mark["header_value"] # NoMark
       /\ \A j \in DataKinds : Held(c.mark, j) = Held(p.mark, j)
  BY <1>6, <1>9
<1>15. Fin(p, e, l)
  BY <1>4, <1>6, <1>7, <1>8, <1>10, <1>11, <1>12, <1>13, <1>14, Reported
<1>16. e.state = "s_header_almost_done" /\ Now(l, e.out) = "header_value"
  <2>1. PICK m \in 0 .. 1 : m = 0
    OBVIOUS
  <2>2. e = CALLBACK_DATA_(c, "header_value", m)
    BY <1>4, <2>1 DEF CALLBACK_DATA
  <2>3. MayCall(l, c, "header_value")
    BY <1>6, <1>10, NoneOut DEF MayCall
  <2>4. AfterCall(l, c, e, "header_value", c.mark["header_value"] + m,
                  Unmarked(c.mark, "header_value"))
    BY <1>7, <1>14, <2>2, <2>3, DataEffect
  <2> QED
    BY <1>5, <2>4 DEF AfterCall, SameHead, OneMore
<1> QED
  BY <1>15, <1>16

(* The CR or LF behind a value.                                            *)
LEMMA ValueFolds ==
    ASSUME NEW l, NEW p, Ready(p, l), p.state = "s_header_value",
           NEW e, Fin(p, e, l), Ok(e), e.state = "s_header_almost_done",
           Now(l, e.out) = "header_value"
    PROVE  Fin(p, UPDATE_STATE(e, "s_header_value_lws"), l)
<1>1. /\ "s_header_value_lws" \in FieldStates \cup LineStates
      /\ "s_header_almost_done" \in FieldStates \cup LineStates
      /\ "s_header_value_lws" \in FieldStates /\ "s_header_almost_done" \in FieldStates
  BY DEF FieldStates
<1>2. PICK q : q = UPDATE_STATE(e, "s_header_value_lws")
  OBVIOUS
<1>3. /\ Untouched(e, q) /\ q.state = "s_header_value_lws"
      /\ q.header_state = e.header_state /\ q.content_length = e.content_length
  <2>1. "s_header_value_lws" \in States /\ e \in Parser
    BY <1>1, HeaderStates DEF Fin
  <2> QED
    BY <1>2, <2>1, UpdateState
<1>4. /\ q \in Parser /\ q.errno = "OK" /\ q.out = e.out /\ q.left = e.left
      /\ q.nread = e.nread /\ q.flags = e.flags /\ q.te = e.te /\ q.mark = e.mark
  BY <1>3 DEF Untouched, Ok
<1>5. /\ Resting(e, "header_value") /\ Moved(p, e)
      /\ WantNext(p, e, Expected(p)) = Due(e) /\ Linked(l, e.out) /\ e.mark \in Marks
  BY DEF Fin, Parser
<1>6. Moved(p, q)
  BY <1>4, <1>5 DEF Moved
<1>7. WantNext(p, q, Expected(p)) = Due(q)
  BY <1>3, <1>4, <1>5 DEF WantNext, Due
<1>8. Resting(q, "header_value")
  <2>1. FlagInv(e.state, e.header_state, e.flags, e.te)
    BY <1>5 DEF Resting
  <2>2. ("CHUNKED" \in e.flags => e.te) /\ (e.header_state \in EncodingStates => e.te)
    BY <1>1, <2>1 DEF FlagInv
  <2>3. FlagInv(q.state, q.header_state, q.flags, q.te)
    BY <1>1, <1>3, <1>4, <2>2, HeaderFlags
  <2>4. OrderInv(q.state, q.flags, "header_value")
    <3>1. "header_value" \in Before(q.state, q.flags)
      BY <1>3, BeforeFacts
    <3> QED
      BY <1>1, <1>3, <3>1, HeaderOrder
  <2>5. MarkInv(q.state, q.mark)
    <3>1. MarkInv(e.state, e.mark) /\ ItemOf(e.state) = "none" /\ ItemOf(q.state) = "none"
      BY <1>1, <1>3, <1>5, HeaderStates DEF Resting
    <3>2. e.state \in HeadStates /\ q.state \in HeadStates
      BY <1>1, <1>3, HeaderStates
    <3> QED
      BY <1>4, <1>5, <3>1, <3>2, SameItem
  <2>6. q.state \in HeadStates /\ q.nread <= max_header_size /\ (q.left => q.state \in IdleStates)
    <3>1. e.left => e.state \in IdleStates
      BY <1>5 DEF Resting
    <3>2. e.left = FALSE
      <4>1. e.state \notin IdleStates /\ e.left \in BOOLEAN
        BY <1>1, HeaderStates DEF Fin, Parser
      <4> QED
        BY <3>1, <4>1
    <3> QED
      BY <1>1, <1>3, <1>4, <1>5, <3>2, HeaderStates DEF Resting
  <2> QED
    BY <2>3, <2>4, <2>5, <2>6, HeadLengths DEF Resting
<1>9. "header_value" \notin Completes
  BY DEF Completes
<1> QED
  BY <1>2, <1>4, <1>5, <1>6, <1>7, <1>8, <1>9 DEF Fin

(* A value that ends in CR is counted behind its delivery.                 *)
LEMMA CountBehind ==
    ASSUME NEW l, NEW p, NEW e, Fin(p, e, l), Ok(e), e.state = "s_header_almost_done",
           Now(l, e.out) = "header_value", NEW n \in Nat
    PROVE  Fin(p, COUNT_HEADER_SIZE(e, n), l)
<1>1. /\ e \in Parser /\ Resting(e, "header_value") /\ Moved(p, e) /\ Linked(l, e.out)
      /\ WantNext(p, e, Expected(p)) = Due(e)
  BY DEF Fin
<1>2. PICK m \in Counts : m = e.nread + n
  BY <1>1 DEF Parser, Counts
<1>3. PICK d : d = [e EXCEPT !.nread = m]
  OBVIOUS
<1>4. d \in Parser /\ d.nread = m /\ d.out = e.out /\ d.errno = e.errno /\ d.left = e.left
  BY <1>1, <1>3 DEF Parser
<1>5. /\ d.state = e.state /\ d.mark = e.mark /\ d.content_length = e.content_length
      /\ d.header_state = e.header_state /\ d.flags = e.flags /\ d.te = e.te
  BY <1>1, <1>3 DEF Parser
<1>6. PICK c : c = COUNT_HEADER_SIZE(e, n)
  OBVIOUS
<1>7. c = IF m > max_header_size THEN SET_ERRNO(d, "HEADER_OVERFLOW") ELSE d
  <2>1. d = [e EXCEPT !.nread = @ + n]
    BY <1>2, <1>3
  <2> QED
    BY <1>4, <1>6, <2>1 DEF COUNT_HEADER_SIZE
<1>8. "header_value" \notin Completes
  BY DEF Completes
<1>9. CASE m > max_header_size
  <2>1. c = SET_ERRNO(d, "HEADER_OVERFLOW") /\ "HEADER_OVERFLOW" \in Errnos
    BY <1>7, <1>9 DEF Errnos, Refusals
  <2>2. c \in Parser /\ c.out = d.out /\ c.errno = "HEADER_OVERFLOW"
    BY <1>4, <2>1 DEF SET_ERRNO, Parser
  <2> QED
    BY <1>1, <1>4, <1>6, <1>8, <2>2 DEF Fin, Ok
<1>10. CASE ~(m > max_header_size)
  <2>1. c = d
    BY <1>7, <1>10
  <2>2. d.nread <= max_header_size /\ d.state # "s_chunk_size_start"
    BY <1>2, <1>4, <1>5, <1>10, ParserBounds DEF Counts
  <2>3. Resting(d, "header_value")
    BY <1>1, <1>4, <1>5, <2>2 DEF Resting
  <2>4. Moved(p, d) /\ WantNext(p, d, Expected(p)) = Due(d)
    BY <1>1, <1>4, <1>5 DEF Moved, WantNext, Due
  <2> QED
    BY <1>1, <1>4, <1>6, <1>8, <2>1, <2>3, <2>4 DEF Fin, Ok
<1> QED
  BY <1>6, <1>9, <1>10

(* A value that ends in LF is counted before its delivery.                 *)
LEMMA CountEarly ==
    ASSUME NEW l, NEW p, Ready(p, l), p.state \in LoopStates, NEW n \in Nat,
           NEW c, c = COUNT_HEADER_SIZE(p, n),
           NEW d, d = CALLBACK_DATA(COUNT_HEADER_SIZE(
                          UPDATE_STATE(p, "s_header_almost_done"), n), "header_value")
    PROVE  /\ Ok(c) => d = CALLBACK_DATA(UPDATE_STATE(c, "s_header_almost_done"),
                                         "header_value")
           /\ ~Ok(c) => d \in Parser /\ d.out = <<>> /\ d.errno = "HEADER_OVERFLOW"
<1>1. p \in Parser /\ Ok(p) /\ p.out = <<>>
  BY ReadyFacts
<1>2. PICK u : u = UPDATE_STATE(p, "s_header_almost_done")
  OBVIOUS
<1>3. "s_header_almost_done" \in States
  BY DEF States
<1>4. u \in Parser /\ u.out = <<>> /\ u.nread = p.nread /\ Ok(u)
  BY <1>1, <1>2, <1>3, UpdateState DEF Untouched, Ok
<1>5. PICK m \in Counts : m = p.nread + n
  BY <1>1 DEF Parser, Counts
<1>6. PICK v : v = [u EXCEPT !.nread = m]
  OBVIOUS
<1>7. v \in Parser /\ v.out = u.out /\ v.nread = m /\ v.errno = u.errno
  BY <1>4, <1>6 DEF Parser
<1>8. COUNT_HEADER_SIZE(u, n) = IF m > max_header_size
                                THEN SET_ERRNO(v, "HEADER_OVERFLOW") ELSE v
  <2>1. v = [u EXCEPT !.nread = @ + n]
    BY <1>4, <1>5, <1>6
  <2> QED
    BY <1>7, <2>1 DEF COUNT_HEADER_SIZE
<1>9. /\ Ok(c) => c = [p EXCEPT !.nread = m] /\ c.nread <= max_header_size
      /\ ~Ok(c) => m > max_header_size
  <2>1. /\ Ok(c) => Ready(c, l) /\ c = [p EXCEPT !.nread = m]
        /\ ~Ok(c) => m > max_header_size
    BY <1>5, Recount
  <2> QED
    BY <2>1 DEF Ready
<1>10. CASE Ok(c)
  <2>1. c.nread = m /\ ~(m > max_header_size)
    BY <1>1, <1>9, <1>10, ParserBounds DEF Parser, Counts
  <2>2. v = UPDATE_STATE(c, "s_header_almost_done")
    BY <1>1, <1>2, <1>6, <1>9, <1>10 DEF UPDATE_STATE, Parser
  <2> QED
    BY <1>2, <1>8, <1>10, <2>1, <2>2
<1>11. CASE ~Ok(c)
  <2>1. PICK w : w = SET_ERRNO(v, "HEADER_OVERFLOW")
    OBVIOUS
  <2>2. w \in Parser /\ w.out = <<>> /\ w.errno = "HEADER_OVERFLOW"
    <3>1. "HEADER_OVERFLOW" \in Errnos
      BY DEF Errnos, Refusals
    <3> QED
      BY <1>4, <1>7, <2>1, <3>1 DEF SET_ERRNO, Parser
  <2>3. d = w
    BY <1>2, <1>8, <1>9, <1>11, <2>1, <2>2 DEF CALLBACK_DATA, CALLBACK_DATA_, Ok
  <2> QED
    BY <1>11, <2>2, <2>3
<1> QED
  BY <1>10, <1>11

(* A byte in s_header_value.                                               *)
LEMMA HeaderValueFin ==
    ASSUME NEW l, NEW p, Ready(p, l), p.state = "s_header_value", NEW ch
    PROVE  Fin(p, HeaderValue(p, ch), l)
<1>1. p.state \in FieldStates /\ p.state \in FieldStates \cup LineStates
  BY DEF FieldStates
<1>2. p \in Parser /\ MarkInv(p.state, p.mark) /\ Ok(p) /\ p.out = <<>> /\ p.left = FALSE
  BY ReadyFacts
<1>3. /\ "CHUNKED" \in p.flags => p.te
      /\ p.header_state \in EncodingStates => p.te
      /\ p.header_state \notin {"h_connection", "h_transfer_encoding"}
      /\ l \in Before(p.state, p.flags)
  BY <1>1, FieldFlags
<1>4. ASSUME NEW q \in Parser, q.state = p.state, q.errno = p.errno, q.out = p.out,
             q.left = p.left, q.nread = p.nread, q.te = p.te, q.mark = p.mark,
             "CHUNKED" \in q.flags => "CHUNKED" \in p.flags,
             q.header_state \in EncodingStates => p.header_state \in EncodingStates,
             q.header_state \notin {"h_connection", "h_transfer_encoding"}
      PROVE  Fin(p, q, l)
  <2>1. l \in Before(q.state, q.flags)
    BY <1>3, <1>4, BeforeFacts
  <2>2. /\ Ok(q) /\ q.out = <<>> /\ q.left = FALSE /\ MarkInv(q.state, q.mark)
        /\ "CHUNKED" \in q.flags => q.te
        /\ q.header_state \in EncodingStates => q.te
    BY <1>2, <1>3, <1>4 DEF Ok
  <2> QED
    BY <1>1, <1>4, <2>1, <2>2, HeaderSilent
<1>5. p.run \in Nat /\ p.state \in LoopStates
  BY <1>2 DEF Parser, Counts, LoopStates
<1>6. PICK e : e = CALLBACK_DATA(UPDATE_STATE(p, "s_header_almost_done"), "header_value")
  OBVIOUS
<1>7. Fin(p, IF Ok(e) THEN COUNT_HEADER_SIZE(e, p.run) ELSE e, l)
  BY <1>5, <1>6, ValueEnds, CountBehind
<1>18. PICK d : d = CALLBACK_DATA(COUNT_HEADER_SIZE(
                       UPDATE_STATE(p, "s_header_almost_done"), p.run), "header_value")
  OBVIOUS
<1>19. ch = LF => Fin(p, IF Ok(d) THEN HeaderAlmostDone(d, ch) ELSE d, l)
  <2>1. PICK c : c = COUNT_HEADER_SIZE(p, p.run)
    OBVIOUS
  <2>2. /\ c.state = "s_header_value"
        /\ Ok(c) => Ready(c, l)
        /\ \A x : Fin(c, x, l) => Fin(p, x, l)
    BY <1>5, <2>1, Recount
  <2>3. CASE Ok(c)
    <3>1. d = CALLBACK_DATA(UPDATE_STATE(c, "s_header_almost_done"), "header_value")
      BY <1>5, <1>18, <2>1, <2>3, CountEarly
    <3>2. Fin(c, d, l)
      BY <2>2, <2>3, <3>1, ValueEnds
    <3>3. Ok(d) => Fin(c, UPDATE_STATE(d, "s_header_value_lws"), l)
      BY <2>2, <2>3, <3>1, <3>2, ValueEnds, ValueFolds
    <3> QED
      BY <2>2, <3>2, <3>3 DEF HeaderAlmostDone, Expect
  <2>4. CASE ~Ok(c)
    <3>1. d \in Parser /\ d.out = <<>> /\ d.errno = "HEADER_OVERFLOW"
      BY <1>5, <1>18, <2>1, <2>4, CountEarly
    <3> QED
      BY <3>1, Overflow DEF Ok
  <2> QED
    BY <2>3, <2>4
<1>8. Fin(p, SET_ERRNO(p, "INVALID_HEADER_TOKEN"), l)
  BY RefusedHere DEF Refusals
<1>9. Fin(p, SET_ERRNO(p, "INVALID_CONTENT_LENGTH"), l)
  BY RefusedHere DEF Refusals
<1>10. ASSUME p.header_state \in {"h_content_length_num", "h_content_length_ws"}
       PROVE  Fin(p, ContentLengthChar(p, ch), l)
  <2>1. Fin(p, [p EXCEPT !.header_state = "h_content_length_ws"], l)
    <3>1. /\ "h_content_length_ws" \in HeaderNames
          /\ "h_content_length_ws" \notin EncodingStates
      BY DEF HeaderNames, ValueNames, EncodingStates
    <3>2. PICK q : q = [p EXCEPT !.header_state = "h_content_length_ws"]
      OBVIOUS
    <3>3. Untouched(p, q) /\ q.header_state = "h_content_length_ws" /\ q.state = p.state
      BY <1>2, <3>1, <3>2, NewName
    <3> QED
      BY <1>4, <3>1, <3>2, <3>3 DEF Untouched
  <2>2. IS_NUM(ch) => Fin(p, AddDigit(p, 10, Value[ch]), l)
    <3>1. CASE (MaxLength - 10) \div 10 < p.content_length
      BY <1>9, <3>1 DEF AddDigit
    <3>2. CASE IS_NUM(ch) /\ ~((MaxLength - 10) \div 10 < p.content_length)
      <4>1. PICK base \in {10, 16} : base = 10
        OBVIOUS
      <4>2. PICK v \in 0 .. (base - 1) : v = Value[ch]
        BY <3>2, <4>1, Digits
      <4>3. PICK q : q = [p EXCEPT !.content_length = base * @ + v]
        OBVIOUS
      <4>4. /\ Untouched(p, q) /\ q.state = p.state /\ q.header_state = p.header_state
        BY <1>2, <3>2, <4>1, <4>3, AddDigitEffect
      <4>5. Fin(p, q, l)
        BY <1>3, <1>4, <4>4 DEF Untouched
      <4>6. q = AddDigit(p, 10, Value[ch])
        BY <3>2, <4>1, <4>2, <4>3 DEF AddDigit
      <4> QED
        BY <4>5, <4>6
    <3> QED
      BY <3>1, <3>2
  <2> QED
    BY <1>9, <2>1, <2>2 DEF ContentLengthChar, IS_NUM, Value, SP
<1>11. PICK h \in HeaderNames : h = ValueState(p.header_state, ch)
  BY ValueStateName
<1>12. PICK g : g = [p EXCEPT !.header_state = h]
  OBVIOUS
<1>13. Untouched(p, g) /\ g.header_state = h /\ g.state = p.state
  BY <1>2, <1>12, NewName
<1>14. /\ h \notin {"h_connection", "h_transfer_encoding"}
       /\ h \in EncodingStates => p.header_state \in EncodingStates
  BY <1>11, ValueStateName
<1>15. Fin(p, g, l)
  BY <1>4, <1>13, <1>14 DEF Untouched
<1>16. ASSUME p.header_state \in DOMAIN Meaning, Meaning[p.header_state] # "CHUNKED"
       PROVE  Fin(p, Flag(g, Meaning[p.header_state]), l)
  <2>1. PICK f : f = Meaning[p.header_state]
    OBVIOUS
  <2>2. f \in {"CONNECTION_KEEP_ALIVE", "CONNECTION_CLOSE", "CONNECTION_UPGRADE"}
    BY <1>16, <2>1, ValueDomains DEF Meaning
  <2>3. PICK q : q = Flag(g, f)
    OBVIOUS
  <2>4. /\ q \in Parser /\ q.flags = g.flags \cup {f}
        /\ q.errno = g.errno /\ q.out = g.out /\ q.left = g.left
        /\ q.nread = g.nread /\ q.te = g.te /\ q.mark = g.mark
        /\ q.state = g.state /\ q.header_state = g.header_state
    BY <1>13, <2>2, <2>3, FlagEffect DEF Untouched
  <2>5. Fin(p, q, l)
    BY <1>4, <1>13, <1>14, <2>2, <2>4 DEF Untouched
  <2> QED
    BY <2>1, <2>3, <2>5
<1>17. Fin(p, ValueChar(p, ch), l)
  BY <1>3, <1>10, <1>11, <1>12, <1>15, <1>16 DEF ValueChar
<1> QED
  BY <1>6, <1>7, <1>8, <1>17, <1>18, <1>19 DEF HeaderValue, IS_HEADER_CHAR, CR, LF, CTL

(* What a value meant becomes a flag.                                      *)
LEMMA ConcludeEffect ==
    ASSUME NEW l, NEW p, Between(p, l), p.state \in FieldStates
    PROVE  LET q == Conclude(p)
           IN  /\ Going(l, q)
               /\ Ok(q) /\ q.out = <<>>
               /\ "TRAILING" \in q.flags <=> "TRAILING" \in p.flags
<1>1. Going(l, p) /\ Ok(p) /\ p.out = <<>> /\ Ready(p, l)
  BY BetweenGoing DEF Between
<1>2. PICK q : q = Conclude(p)
  OBVIOUS
<1>3. CASE p.header_state \notin DOMAIN Meaning
  BY <1>1, <1>3 DEF Conclude
<1>4. CASE p.header_state \in DOMAIN Meaning
  <2>1. PICK f : f = Meaning[p.header_state]
    OBVIOUS
  <2>2. /\ f \in {"CONNECTION_KEEP_ALIVE", "CONNECTION_CLOSE", "CONNECTION_UPGRADE",
                  "CHUNKED"}
        /\ f = "CHUNKED" => p.header_state \in EncodingStates
    BY <1>4, <2>1, ValueDomains DEF Meaning, EncodingStates
  <2>3. q = Flag(p, f)
    BY <1>2, <1>4, <2>1 DEF Conclude
  <2>4. /\ q \in Parser /\ q.flags = p.flags \cup {f}
        /\ q.errno = p.errno /\ q.out = p.out /\ q.left = p.left
        /\ q.nread = p.nread /\ q.te = p.te /\ q.mark = p.mark
    BY <1>1, <2>2, <2>3, FlagEffect DEF Going
  <2>5. p.header_state \in EncodingStates => p.te
    BY <1>1, FieldFlags
  <2>6. Going(l, q)
    BY <1>1, <2>2, <2>4, <2>5 DEF Going
  <2> QED
    BY <1>1, <1>2, <2>2, <2>4, <2>6 DEF Ok
<1> QED
  BY <1>3, <1>4

(* A byte in s_header_value_lws.                                           *)
LEMMA HeaderValueLwsFin ==
    ASSUME NEW l, NEW p, Ready(p, l), p.state = "s_header_value_lws", NEW ch
    PROVE  Fin(p, HeaderValueLws(p, ch), l)
<1>1. Between(p, l) /\ p.state \in FieldStates /\ l = "header_value"
  BY DiscardBetween
<1>2. p \in Parser
  BY ReadyFacts
<1>3. ASSUME NEW h, h = IF p.header_state = "h_content_length_num"
                        THEN "h_content_length_ws" ELSE p.header_state
      PROVE  Fin(p, HeaderValueStart([p EXCEPT !.header_state = h], ch), l)
  <2>1. h \in HeaderNames /\ (h \in EncodingStates => p.header_state \in EncodingStates)
    <3>1. "h_content_length_ws" \in HeaderNames /\ "h_content_length_ws" \notin EncodingStates
      BY DEF HeaderNames, ValueNames, EncodingStates
    <3>2. p.header_state \in HeaderNames
      BY <1>2 DEF Parser
    <3> QED
      BY <1>3, <3>1, <3>2
  <2>2. p.header_state \in EncodingStates => p.te
    BY <1>1, FieldFlags
  <2>3. PICK r : r = [p EXCEPT !.header_state = h]
    OBVIOUS
  <2>4. Untouched(p, r) /\ r.header_state = h
    BY <1>2, <2>1, <2>3, NewName
  <2> QED
    BY <1>1, <2>1, <2>2, <2>3, <2>4, HeaderValueStartFin
<1>4. Fin(p, HeaderFieldStart(Conclude(p), ch), l)
  <2>1. PICK r : r = Conclude(p)
    OBVIOUS
  <2>2. Going(l, r) /\ Ok(r) /\ r.out = <<>>
    BY <1>1, <2>1, ConcludeEffect
  <2>3. Now(l, r.out) = l /\ OnSet(r.out) = {}
    BY <2>2, NoneOut
  <2>4. OrderInv("s_header_field_start", r.flags, Now(l, r.out))
    <3>1. "s_header_field_start" \in LineStates
      BY DEF LineStates
    <3>2. l \in Before("s_header_field_start", r.flags)
      BY <1>1, ValueBeforeLine
    <3> QED
      BY <2>3, <3>1, <3>2, HeaderOrder
  <2> QED
    BY <1>1, <2>1, <2>2, <2>3, <2>4, HeaderFieldStartFin
<1> QED
  BY <1>3, <1>4 DEF HeaderValueLws

(* The callback of an empty value gets no byte.                            *)
LEMMA EmptyValueEffect ==
    ASSUME NEW l, NEW p, Between(p, l), p.state \in FieldStates, l = "header_field"
    PROVE  LET q == EmptyValue(p)
           IN  /\ Going(l, q)
               /\ q.errno \in {"OK", "CB"}
               /\ OnSet(q.out) = {"header_value"}
               /\ Now(l, q.out) = "header_value"
<1>1. PICK c : c = Conclude(p)
  OBVIOUS
<1>2. Going(l, c) /\ Ok(c) /\ c.out = <<>>
  BY <1>1, ConcludeEffect
<1>3. PICK d : d = MARK(c, "header_value")
  OBVIOUS
<1>4. /\ d \in Parser /\ SameHead(c, d) /\ d.errno = c.errno /\ d.out = c.out
      /\ d.mark["header_value"] # NoMark
      /\ \A j \in DataKinds : j # "header_value" => d.mark[j] = c.mark[j]
      /\ \A j \in DataKinds : Held(d.mark, j) = Held(c.mark, j)
  <2>1. c \in Parser /\ "header_value" \in DataKinds
    BY <1>2 DEF Going, DataKinds
  <2> QED
    BY <1>3, <2>1, MarkEffect
<1>5. "header_value" \in DataKinds /\ \A j \in DataKinds : c.mark[j] = NoMark
  BY <1>2 DEF Going, DataKinds
<1>6. d.mark["header_value"] = 0 /\ \A j \in DataKinds : j # "header_value" => d.mark[j] = NoMark
  BY <1>4, <1>5 DEF Held
<1>7. PICK e : e = UPDATE_STATE(d, "s_header_field_start")
  OBVIOUS
<1>8. Untouched(d, e)
  <2>1. "s_header_field_start" \in States
    BY DEF States
  <2> QED
    BY <1>4, <1>7, <2>1, UpdateState
<1>9. /\ e \in Parser /\ Ok(e) /\ e.out = <<>> /\ e.left = FALSE /\ e.nread = c.nread
      /\ e.flags = c.flags /\ e.te = c.te /\ e.mark = d.mark
  BY <1>2, <1>4, <1>8 DEF Untouched, SameHead, Ok, Going
<1>10. PICK q : q = CALLBACK_DATA(e, "header_value")
  OBVIOUS
<1>11. AfterCall(l, e, q, "header_value", 0, Unmarked(e.mark, "header_value"))
  <2>1. PICK m \in 0 .. 1 : m = 0
    OBVIOUS
  <2>2. q = CALLBACK_DATA_(e, "header_value", m)
    BY <1>10, <2>1 DEF CALLBACK_DATA
  <2>3. MayCall(l, e, "header_value")
    BY <1>9, NoneOut DEF MayCall, Follows
  <2>4. AfterCall(l, e, q, "header_value", e.mark["header_value"] + m,
                  Unmarked(e.mark, "header_value"))
    BY <1>4, <1>5, <1>9, <2>2, <2>3, DataEffect
  <2>5. e.mark["header_value"] + m = 0
    BY <1>6, <1>9, <2>1
  <2> QED
    BY <2>4, <2>5
<1>12. \A j \in DataKinds : q.mark[j] = NoMark
  <2>1. e.mark \in Marks
    BY <1>9 DEF Parser
  <2> QED
    BY <1>6, <1>9, <1>11, <2>1 DEF AfterCall, Unmarked, Marks
<1>13. /\ q \in Parser /\ q.errno \in {"OK", "CB"} /\ SameHead(e, q)
       /\ OnSet(q.out) = {"header_value"}
       /\ Now(l, q.out) = "header_value"
       /\ Linked(l, q.out)
       /\ \A j \in DataKinds : Del(q.out, j) = 0
  BY <1>9, <1>11, NoneOut DEF AfterCall, OneMore
<1>14. Going(l, q)
  BY <1>2, <1>9, <1>12, <1>13 DEF Going, SameHead
<1> QED
  BY <1>1, <1>3, <1>7, <1>10, <1>13, <1>14 DEF EmptyValue

(* A byte in s_header_value_discard_lws.                                   *)
LEMMA HeaderValueDiscardLwsFin ==
    ASSUME NEW l, NEW p, Ready(p, l), p.state = "s_header_value_discard_lws", NEW ch
    PROVE  Fin(p, HeaderValueDiscardLws(p, ch), l)
<1>1. p.state \in DiscardStates /\ "s_header_value_discard_ws" \in DiscardStates
  BY DEF DiscardStates
<1>2. Between(p, l) /\ p.state \in FieldStates /\ l = "header_field"
  BY <1>1, DiscardBetween
<1>3. Fin(p, UPDATE_STATE(p, "s_header_value_discard_ws"), l)
  BY <1>1, DiscardMove
<1>4. Fin(p, SET_ERRNO(p, "INVALID_CONTENT_LENGTH"), l)
  BY RefusedHere DEF Refusals
<1>5. PICK e : e = EmptyValue(p)
  OBVIOUS
<1>6. /\ Going(l, e) /\ e.errno \in {"OK", "CB"}
      /\ OnSet(e.out) = {"header_value"} /\ Now(l, e.out) = "header_value"
  BY <1>2, <1>5, EmptyValueEffect
<1>7. Ok(e) => Fin(p, HeaderFieldStart(e, ch), l)
  <2>1. OrderInv("s_header_field_start", e.flags, Now(l, e.out))
    <3>1. "s_header_field_start" \in LineStates
      BY DEF LineStates
    <3>2. "header_value" \in Before("s_header_field_start", e.flags)
      BY ValueBeforeLine
    <3> QED
      BY <1>6, <3>1, <3>2, HeaderOrder
  <2> QED
    BY <1>2, <1>6, <2>1, HeaderFieldStartFin
<1>8. ~Ok(e) => Fin(p, e, l)
  <2>1. e.errno # "ASSERT" /\ Now(l, e.out) \notin Completes
    BY <1>6 DEF Completes
  <2> QED
    BY <1>2, <1>6, <2>1, GoingEnds
<1> QED
  BY <1>3, <1>4, <1>5, <1>7, <1>8 DEF HeaderValueDiscardLws

(* A byte in s_header_almost_done.                                         *)
LEMMA HeaderAlmostDoneFin ==
    ASSUME NEW l, NEW p, Ready(p, l), p.state = "s_header_almost_done", NEW ch
    PROVE  Fin(p, HeaderAlmostDone(p, ch), l)
<1>1. p.state \in FieldStates /\ "s_header_value_lws" \in FieldStates
  BY DEF FieldStates
<1>2. ItemOf("s_header_value_lws") = ItemOf(p.state)
  BY <1>1, HeaderStates
<1>3. l \in Before("s_header_value_lws", p.flags)
  <2>1. l \in Before(p.state, p.flags)
    BY <1>1, FieldFlags
  <2> QED
    BY <2>1, BeforeFacts
<1>4. Fin(p, UPDATE_STATE(p, "s_header_value_lws"), l)
  BY <1>1, <1>2, <1>3, HeaderMove
<1>5. Fin(p, SET_ERRNO(p, "LF_EXPECTED"), l)
  BY RefusedHere DEF Refusals
<1> QED
  BY <1>4, <1>5 DEF HeaderAlmostDone, Expect

(* A byte at the beginning of a line.                                      *)
LEMMA LineFin ==
    ASSUME NEW l, NEW p, Ready(p, l), p.state \in LineStates, NEW ch
    PROVE  /\ p.state = "s_header_field_start" => Fin(p, HeaderFieldStart(p, ch), l)
           /\ p.state = "s_headers_almost_done" => Fin(p, HeadersAlmostDone(p, ch), l)
<1>1. Between(p, l)
  BY HeaderStates DEF Between, LineStates
<1>2. Going(l, p) /\ Ok(p) /\ p.out = <<>> /\ Now(l, p.out) = l
  BY <1>1, BetweenGoing
<1>3. OnSet(p.out) = {}
  BY <1>2, NoneOut
<1>4. OrderInv(p.state, p.flags, l)
  BY ReadyFacts
<1>5. p.state = "s_header_field_start" => Fin(p, HeaderFieldStart(p, ch), l)
  BY <1>1, <1>2, <1>3, <1>4, HeaderFieldStartFin
<1>6. p.state = "s_headers_almost_done" => Fin(p, HeadersAlmostDone(p, ch), l)
  BY <1>1, <1>2, <1>3, <1>4, HeadersAlmostDoneFin
<1> QED
  BY <1>5, <1>6

-----------------------------------------------------------------------------
(* The states that expect one character *)

(* The rows of Literal.                                                    *)
LEMMA LiteralRow ==
    ASSUME NEW s \in DOMAIN Literal
    PROVE  /\ Literal[s][2] \in Refusals
           /\ \/ s \in BeginStates /\ Literal[s][3] \in BeginStates
              \/ s = "s_res_line_almost_done" /\ Literal[s][3] = "s_header_field_start"
              \/ s = "s_header_value_discard_ws_almost_done"
                    /\ Literal[s][3] = "s_header_value_discard_lws"
  BY DEF Literal, Refusals, BeginStates

(* The rows of ReqLiteral.                                                 *)
LEMMA ReqLiteralRow ==
    ASSUME NEW s \in DOMAIN ReqLiteral
    PROVE  /\ ReqLiteral[s][2] \in Refusals
           /\ s \in VersionStates
           /\ \/ ReqLiteral[s][3] \in VersionStates
              \/ ReqLiteral[s][3] = "s_header_field_start"
  BY DEF ReqLiteral, Refusals, VersionStates

(* A byte where one character is expected.                                 *)
LEMMA MatchFin ==
    ASSUME NEW l, NEW p, Ready(p, l), NEW ch
    PROVE  /\ p.state \in DOMAIN Literal => Fin(p, Match(p, Literal, ch), l)
           /\ p.state \in DOMAIN ReqLiteral => Fin(p, Match(p, ReqLiteral, ch), l)
<1>1. ASSUME p.state \in DOMAIN Literal
      PROVE  Fin(p, Match(p, Literal, ch), l)
  <2>1. PICK e, s : e = Literal[p.state][2] /\ s = Literal[p.state][3]
    OBVIOUS
  <2>2. /\ e \in Refusals
        /\ \/ p.state \in BeginStates /\ s \in BeginStates
           \/ p.state = "s_res_line_almost_done" /\ s = "s_header_field_start"
           \/ p.state = "s_header_value_discard_ws_almost_done"
                 /\ s = "s_header_value_discard_lws"
    BY <1>1, <2>1, LiteralRow
  <2>3. Fin(p, SET_ERRNO(p, e), l)
    BY <2>2, RefusedHere
  <2>4. Fin(p, UPDATE_STATE(p, s), l)
    <3>1. CASE p.state \in BeginStates /\ s \in BeginStates
      BY <3>1, GoTo
    <3>2. CASE p.state = "s_res_line_almost_done" /\ s = "s_header_field_start"
      BY <3>2, ToHeader
    <3>3. CASE p.state = "s_header_value_discard_ws_almost_done"
               /\ s = "s_header_value_discard_lws"
      BY <3>3, DiscardMove DEF DiscardStates
    <3> QED
      BY <2>2, <3>1, <3>2, <3>3
  <2> QED
    BY <2>1, <2>3, <2>4 DEF Match, Expect
<1>2. ASSUME p.state \in DOMAIN ReqLiteral
      PROVE  Fin(p, Match(p, ReqLiteral, ch), l)
  <2>1. PICK e, s : e = ReqLiteral[p.state][2] /\ s = ReqLiteral[p.state][3]
    OBVIOUS
  <2>2. /\ e \in Refusals /\ p.state \in VersionStates
        /\ s \in VersionStates \/ s = "s_header_field_start"
    BY <1>2, <2>1, ReqLiteralRow
  <2>3. Fin(p, SET_ERRNO(p, e), l)
    BY <2>2, RefusedHere
  <2>4. Fin(p, UPDATE_STATE(p, s), l)
    BY <2>2, GoTo, ToHeader
  <2> QED
    BY <2>1, <2>3, <2>4 DEF Match, Expect
<1> QED
  BY <1>1, <1>2

-----------------------------------------------------------------------------
(* The body *)

(* The states of the body.                                                 *)
LEMMA BodyStateFacts ==
    /\ ChunkStates = SizeStates \cup DataStates
    /\ ChunkStates \cup PlainStates \subseteq States
    /\ \A s \in ChunkStates \cup PlainStates :
          ItemOf(s) = "none" /\ s \notin IdleStates
  BY ItemFacts DEF ChunkStates, SizeStates, DataStates, PlainStates, States,
     BodyStates, IdleStates, UrlStates

(* In a body nothing but the body is marked.                               *)
LEMMA BodyMarks ==
    ASSUME NEW l, NEW p, Ready(p, l), p.state \in ChunkStates \cup PlainStates
    PROVE  /\ \A k \in DataKinds \ {"body"} : p.mark[k] = NoMark /\ Held(p.mark, k) = 0
           /\ p.mark["body"] \in {NoMark} \cup Nat
           /\ Held(p.mark, "body") \in Nat
           /\ p.state \notin PlainStates \cup {"s_chunk_data", "s_chunk_data_almost_done"}
                 => p.mark["body"] = NoMark /\ Held(p.mark, "body") = 0
<1>1. p.mark \in Marks /\ MarkInv(p.state, p.mark)
  BY ReadyFacts
<1>2. ItemOf(p.state) = "none" /\ "none" \notin DataKinds /\ "body" \in DataKinds
  BY BodyStateFacts DEF DataKinds
<1>3. \A k \in DataKinds \ {"body"} : p.mark[k] = NoMark /\ Held(p.mark, k) = 0
  BY <1>1, <1>2 DEF MarkInv, Held
<1>4. p.mark["body"] \in {NoMark} \cup Nat
  BY <1>1, <1>2 DEF Marks
<1>5. Held(p.mark, "body") \in Nat
  BY <1>4 DEF Held
<1>6. p.state \notin PlainStates \cup {"s_chunk_data", "s_chunk_data_almost_done"}
         => p.mark["body"] = NoMark /\ Held(p.mark, "body") = 0
  BY <1>1 DEF MarkInv, Held
<1> QED
  BY <1>3, <1>4, <1>5, <1>6

(* The flags of chunks stay right.                                         *)
LEMMA ChunkFlags ==
    ASSUME NEW s \in ChunkStates, NEW h, NEW flags, NEW te, FlagInv(s, h, flags, te),
           NEW t \in ChunkStates, NEW g
    PROVE  FlagInv(t, g, flags, te)
  BY DEF FlagInv, FieldStates, LineStates, DiscardStates, ChunkStates,
         FirstLineStates, BeginStates, UrlStates, VersionStates

(* OrderInv in a body.                                                     *)
LEMMA BodyOrder ==
    ASSUME NEW s \in ChunkStates \cup PlainStates, NEW flags, NEW l
    PROVE  OrderInv(s, flags, l) <=>
              l \in IF s \in SizeStates THEN {"headers_complete", "chunk_complete"}
                    ELSE IF s \in DataStates THEN {"chunk_header", "body"}
                    ELSE {"headers_complete", "body"}
<1>1. CASE s \in SizeStates
  BY <1>1 DEF OrderInv, LineStates, DiscardStates, BeginStates, IdleStates,
         UrlStates, VersionStates, SizeStates, DataStates, PlainStates
<1>2. CASE s \in DataStates
  BY <1>2 DEF OrderInv, LineStates, DiscardStates, BeginStates, IdleStates,
         UrlStates, VersionStates, SizeStates, DataStates, PlainStates
<1>3. CASE s \in PlainStates
  BY <1>3 DEF OrderInv, LineStates, DiscardStates, BeginStates, IdleStates,
         UrlStates, VersionStates, SizeStates, DataStates, PlainStates
<1> QED
  BY <1>1, <1>2, <1>3, BodyStateFacts

(* A body rests in another state of it.                                    *)
LEMMA BodyRestsAt ==
    ASSUME NEW q, q.state \in ChunkStates \cup PlainStates,
           q.nread <= max_header_size, q.state = "s_chunk_size_start" => q.nread = 0,
           FlagInv(q.state, q.header_state, q.flags, q.te),
           LengthInv(q.state, q.content_length),
           NEW l, OrderInv(q.state, q.flags, l),
           q.left = FALSE,
           \A k \in DataKinds \ {"body"} : q.mark[k] = NoMark,
           q.mark["body"] # NoMark =>
              q.state \in PlainStates \cup {"s_chunk_data", "s_chunk_data_almost_done"}
    PROVE  Resting(q, l)
<1>1. ItemOf(q.state) = "none" /\ "none" \notin DataKinds
  BY BodyStateFacts DEF DataKinds
<1>2. MarkInv(q.state, q.mark)
  BY <1>1 DEF MarkInv
<1> QED
  BY <1>2 DEF Resting

(* A byte of the line with the size of a chunk.                            *)
LEMMA SizeSilent ==
    ASSUME NEW l, NEW p, Ready(p, l), p.state \in SizeStates,
           NEW q, Untouched(p, q), q.state \in SizeStates \ {"s_chunk_size_start"},
           q.content_length # MaxLength
    PROVE  Fin(p, q, l)
<1>1. /\ p \in Parser /\ Ok(p) /\ p.out = <<>> /\ p.left = FALSE
      /\ OrderInv(p.state, p.flags, l)
      /\ FlagInv(p.state, p.header_state, p.flags, p.te)
  BY ReadyFacts
<1>2. p.state \in ChunkStates /\ q.state \in ChunkStates
  BY BodyStateFacts
<1>3. /\ p.state \notin PlainStates \cup {"s_chunk_data", "s_chunk_data_almost_done"}
      /\ p.state \notin ReadingStates
      /\ q.state \notin {"s_body_identity", "s_chunk_data", "s_chunk_data_almost_done"}
  BY DEF SizeStates, PlainStates, ReadingStates
<1>4. /\ \A k \in DataKinds \ {"body"} : p.mark[k] = NoMark /\ Held(p.mark, k) = 0
      /\ p.mark["body"] = NoMark /\ Held(p.mark, "body") = 0
  BY <1>2, <1>3, BodyMarks
<1>5. /\ q \in Parser /\ Ok(q) /\ q.out = <<>> /\ q.left = FALSE /\ q.nread = p.nread
      /\ q.flags = p.flags /\ q.te = p.te /\ q.mark = p.mark
  BY <1>1 DEF Untouched, Ok
<1>6. Resting(q, l)
  <2>1. FlagInv(q.state, q.header_state, p.flags, p.te)
    BY <1>1, <1>2, ChunkFlags
  <2>2. OrderInv(q.state, q.flags, l)
    <3>1. l \in {"headers_complete", "chunk_complete"}
      BY <1>1, <1>2, BodyOrder
    <3> QED
      BY <1>2, <3>1, BodyOrder
  <2>3. LengthInv(q.state, q.content_length)
    BY <1>3 DEF LengthInv
  <2>4. q.nread <= max_header_size
    BY <1>5 DEF Ready
  <2>5. FlagInv(q.state, q.header_state, q.flags, q.te)
    BY <1>5, <2>1
  <2> QED
    BY <1>2, <1>4, <1>5, <2>2, <2>3, <2>4, <2>5, BodyRestsAt
<1>7. Expected(p) = 0
  BY <1>3, <1>4 DEF Expected, PlainStates
<1>8. Moved(p, q)
  BY <1>3, <1>4, <1>5, NoneOut DEF Moved
<1>9. WantNext(p, q, Expected(p)) = 0
  BY <1>3, <1>5, <1>7, NoneOut DEF WantNext, PlainStates
<1>10. Due(q) = 0
  BY <1>3, <1>4, <1>5 DEF Due
<1> QED
  BY <1>5, <1>6, <1>8, <1>9, <1>10, NoneOut DEF Fin, Ok

(* The value of a digit of a chunk size.                                   *)
LEMMA HexDigits ==
    ASSUME NEW ch \in DOMAIN Unhex
    PROVE  Unhex[ch] \in 0 .. 15
  BY DEF Unhex, Value

(* A byte in s_chunk_size_start: it is the first one counted.              *)
LEMMA ChunkSizeStartFin ==
    ASSUME NEW l, NEW p, Ready(p, l), p.state = "s_chunk_size_start", NEW ch
    PROVE  Fin(p, ChunkSizeStart(p, ch), l)
<1>1. p \in Parser /\ p.nread = 1
  BY DEF Ready
<1>2. Fin(p, SET_ERRNO(p, "INVALID_CHUNK_SIZE"), l)
  BY RefusedHere DEF Refusals
<1>3. ASSUME ch \in DOMAIN Unhex
      PROVE  Fin(p, [p EXCEPT !.content_length = Unhex[ch], !.state = "s_chunk_size"], l)
  <2>1. PICK v \in 0 .. 15 : v = Unhex[ch]
    BY <1>3, HexDigits
  <2>2. v \in Lengths /\ v # MaxLength
    BY ParserBounds DEF Lengths
  <2>3. "s_chunk_size" \in States /\ "s_chunk_size" \in SizeStates /\ p.state \in SizeStates
    BY DEF States, SizeStates
  <2>4. PICK q : q = [p EXCEPT !.content_length = v, !.state = "s_chunk_size"]
    OBVIOUS
  <2>5. Untouched(p, q)
    BY <1>1, <2>2, <2>3, <2>4 DEF Untouched, Parser
  <2>6. q.state = "s_chunk_size" /\ q.content_length = v
    BY <1>1, <2>4 DEF Parser
  <2>7. Fin(p, q, l)
    BY <2>2, <2>3, <2>5, <2>6, SizeSilent
  <2> QED
    BY <2>1, <2>4, <2>7
<1> QED
  BY <1>1, <1>2, <1>3 DEF ChunkSizeStart, Asserted

(* UPDATE_STATE in the line with the size of a chunk.                      *)
LEMMA SizeMove ==
    ASSUME NEW l, NEW p, Ready(p, l), p.state \in SizeStates \ {"s_chunk_size_start"},
           NEW s \in SizeStates \ {"s_chunk_size_start"}
    PROVE  Fin(p, UPDATE_STATE(p, s), l)
<1>1. p \in Parser
  BY ReadyFacts
<1>2. PICK q : q = UPDATE_STATE(p, s)
  OBVIOUS
<1>3. Untouched(p, q) /\ q.state = s /\ q.content_length = p.content_length
  <2>1. s \in States
    BY BodyStateFacts
  <2> QED
    BY <1>1, <1>2, <2>1, UpdateState
<1>4. q.content_length # MaxLength
  BY <1>3 DEF Ready, LengthInv
<1> QED
  BY <1>2, <1>3, <1>4, SizeSilent

(* A byte in s_chunk_size.                                                 *)
LEMMA ChunkSizeFin ==
    ASSUME NEW l, NEW p, Ready(p, l), p.state = "s_chunk_size", NEW ch
    PROVE  Fin(p, ChunkSize(p, ch), l)
<1>1. p \in Parser
  BY ReadyFacts
<1>2. /\ p.state \in SizeStates \ {"s_chunk_size_start"}
      /\ "s_chunk_size_almost_done" \in SizeStates \ {"s_chunk_size_start"}
      /\ "s_chunk_parameters" \in SizeStates \ {"s_chunk_size_start"}
  BY DEF SizeStates
<1>3. /\ Fin(p, UPDATE_STATE(p, "s_chunk_size_almost_done"), l)
      /\ Fin(p, UPDATE_STATE(p, "s_chunk_parameters"), l)
  BY <1>2, SizeMove
<1>4. Fin(p, SET_ERRNO(p, "INVALID_CHUNK_SIZE"), l)
  BY RefusedHere DEF Refusals
<1>5. ASSUME ch \in DOMAIN Unhex PROVE Fin(p, AddDigit(p, 16, Unhex[ch]), l)
  <2>1. CASE (MaxLength - 16) \div 16 < p.content_length
    <3>1. Fin(p, SET_ERRNO(p, "INVALID_CONTENT_LENGTH"), l)
      BY RefusedHere DEF Refusals
    <3> QED
      BY <2>1, <3>1 DEF AddDigit
  <2>2. CASE ~((MaxLength - 16) \div 16 < p.content_length)
    <3>1. PICK base \in {10, 16} : base = 16
      OBVIOUS
    <3>2. PICK v \in 0 .. (base - 1) : v = Unhex[ch]
      BY <1>5, <3>1, HexDigits
    <3>3. PICK q : q = [p EXCEPT !.content_length = base * @ + v]
      OBVIOUS
    <3>4. Untouched(p, q) /\ q.state = p.state /\ q.content_length # MaxLength
      BY <1>1, <2>2, <3>1, <3>3, AddDigitEffect
    <3>5. Fin(p, q, l)
      BY <1>2, <3>4, SizeSilent
    <3>6. q = AddDigit(p, 16, Unhex[ch])
      BY <2>2, <3>1, <3>2, <3>3 DEF AddDigit
    <3> QED
      BY <3>5, <3>6
  <2> QED
    BY <2>1, <2>2
<1> QED
  BY <1>3, <1>4, <1>5 DEF ChunkSize, Unhex, Value, CR, SP

(* A byte in s_chunk_parameters.                                           *)
LEMMA ChunkParametersFin ==
    ASSUME NEW l, NEW p, Ready(p, l), p.state = "s_chunk_parameters", NEW ch
    PROVE  Fin(p, ChunkParameters(p, ch), l)
<1>1. /\ p.state \in SizeStates \ {"s_chunk_size_start"}
      /\ "s_chunk_size_almost_done" \in SizeStates \ {"s_chunk_size_start"}
  BY DEF SizeStates
<1>2. Fin(p, UPDATE_STATE(p, "s_chunk_size_almost_done"), l)
  BY <1>1, SizeMove
<1>3. Fin(p, p, l)
  <2>1. Untouched(p, p) /\ p.content_length # MaxLength
    BY <1>1 DEF Ready, LengthInv, Untouched
  <2> QED
    BY <1>1, <2>1, SizeSilent
<1> QED
  BY <1>2, <1>3 DEF ChunkParameters

(* In the lines around the data of a chunk nothing is marked.              *)
LEMMA BodyGoing ==
    ASSUME NEW l, NEW p, Ready(p, l), p.state \in SizeStates \cup {"s_chunk_data_done"}
    PROVE  /\ Going(l, p) /\ Ok(p) /\ p.out = <<>> /\ Now(l, p.out) = l
           /\ Expected(p) = 0
           /\ p.state \in ChunkStates /\ p.state \notin ReadingStates
           /\ \A k \in DataKinds : p.mark[k] = NoMark /\ Held(p.mark, k) = 0
<1>1. /\ p \in Parser /\ Ok(p) /\ p.out = <<>> /\ p.left = FALSE
      /\ FlagInv(p.state, p.header_state, p.flags, p.te)
  BY ReadyFacts
<1>2. /\ p.state \in ChunkStates
      /\ p.state \notin PlainStates \cup {"s_chunk_data", "s_chunk_data_almost_done"}
      /\ p.state \notin ReadingStates
  BY DEF SizeStates, ChunkStates, PlainStates, ReadingStates
<1>3. \A k \in DataKinds : p.mark[k] = NoMark /\ Held(p.mark, k) = 0
  BY <1>2, BodyMarks
<1>4. Expected(p) = 0
  BY <1>2, <1>3 DEF Expected, PlainStates, DataKinds
<1>5. Going(l, p)
  BY <1>1, <1>3, NoneOut DEF Going, Ready, FlagInv
<1> QED
  BY <1>1, <1>2, <1>3, <1>4, <1>5, NoneOut

(* A byte in s_chunk_size_almost_done: a chunk, or the trailer.            *)
LEMMA ChunkSizeAlmostDoneFin ==
    ASSUME NEW l, NEW p, Ready(p, l), p.state = "s_chunk_size_almost_done", NEW ch
    PROVE  Fin(p, ChunkSizeAlmostDone(p, ch), l)
<1>1. p.state \in SizeStates
  BY DEF SizeStates
<1>2. /\ Going(l, p) /\ Ok(p) /\ p.out = <<>> /\ Expected(p) = 0
      /\ p.state \in ChunkStates /\ p.state \notin ReadingStates
      /\ \A k \in DataKinds : p.mark[k] = NoMark /\ Held(p.mark, k) = 0
  BY <1>1, BodyGoing
<1>3. /\ p \in Parser /\ FlagInv(p.state, p.header_state, p.flags, p.te)
      /\ OrderInv(p.state, p.flags, l)
  BY ReadyFacts
<1>4. p.content_length # MaxLength /\ p.content_length \in Int
  BY <1>1, <1>3 DEF Ready, LengthInv, Parser, Lengths
<1>5. "CHUNKED" \in p.flags /\ p.te /\ "CONTENTLENGTH" \notin p.flags
  BY <1>2, <1>3 DEF FlagInv
<1>6. l \in Follows["chunk_header"]
  BY <1>1, <1>2, <1>3, BodyOrder DEF Follows
<1>7. PICK new : new = ResetCount(p)
  OBVIOUS
<1>8. /\ Going(l, new) /\ new.nread = 0 /\ new.errno = p.errno /\ new.out = p.out
      /\ new.flags = p.flags /\ new.te = p.te /\ new.content_length = p.content_length
  BY <1>2, <1>7, ResetCountEffect
<1>9. ASSUME NEW d, Going(l, d), Ok(d), d.out = <<>>, d.content_length = p.content_length,
             NEW q, q = CALLBACK_NOTIFY(d, "chunk_header"),
             SameHead(d, q) /\ q.mark = d.mark => Resting(q, "chunk_header"),
             d.state \in {"s_chunk_data", "s_header_field_start"},
             d.state = "s_header_field_start" => d.content_length = 0
      PROVE  Fin(p, q, l)
  <2>1. "chunk_header" \in NoticeKinds /\ "chunk_header" \notin DataKinds
    BY DEF NoticeKinds, DataKinds
  <2>2. MayCall(l, d, "chunk_header")
    BY <1>6, <1>9, NoneOut DEF MayCall, Going
  <2>3. AfterCall(l, d, q, "chunk_header", 0, d.mark)
    BY <1>9, <2>1, <2>2, NoticeEffect
  <2>4. /\ q \in Parser /\ q.errno \in {"OK", "CB"} /\ SameHead(d, q) /\ q.mark = d.mark
        /\ "chunk_header" \in OnSet(q.out)
        /\ Now(l, q.out) = "chunk_header" /\ Linked(l, q.out)
        /\ \A j \in DataKinds : Del(q.out, j) = 0
    BY <1>9, <2>1, <2>3, NoneOut DEF AfterCall, OneMore
  <2>5. /\ \A k \in DataKinds : q.mark[k] = NoMark /\ Held(q.mark, k) = 0
        /\ q.mark["body"] = NoMark /\ "body" \in DataKinds
    BY <1>9, <2>4 DEF Going, Held, DataKinds
  <2>6. Moved(p, q)
    BY <1>2, <2>4, <2>5 DEF Moved
  <2>7. WantNext(p, q, Expected(p)) = p.content_length
    BY <1>9, <2>4 DEF WantNext, SameHead
  <2>8. Due(q) = p.content_length
    BY <1>4, <1>9, <2>4, <2>5 DEF Due, SameHead
  <2>9. Resting(q, "chunk_header") /\ "chunk_header" \notin Completes
    BY <1>9, <2>4 DEF Completes
  <2> QED
    BY <2>4, <2>6, <2>7, <2>8, <2>9 DEF Fin
<1>10. ASSUME p.content_length = 0
       PROVE  Fin(p, CALLBACK_NOTIFY(UPDATE_STATE(Flag(new, "TRAILING"),
                                        "s_header_field_start"), "chunk_header"), l)
  <2>1. PICK c : c = Flag(new, "TRAILING")
    OBVIOUS
  <2>2. /\ c \in Parser /\ c.flags = new.flags \cup {"TRAILING"}
        /\ c.errno = new.errno /\ c.out = new.out /\ c.left = new.left
        /\ c.nread = new.nread /\ c.te = new.te /\ c.mark = new.mark
        /\ c.content_length = new.content_length
    BY <1>8, <2>1, FlagEffect DEF Going
  <2>3. Going(l, c)
    BY <1>8, <2>2 DEF Going
  <2>4. PICK d : d = UPDATE_STATE(c, "s_header_field_start")
    OBVIOUS
  <2>5. /\ Going(l, d) /\ Untouched(c, d) /\ d.state = "s_header_field_start"
        /\ d.content_length = c.content_length
    <3>1. "s_header_field_start" \in States
      BY DEF States
    <3> QED
      BY <2>3, <2>4, <3>1, GoingState
  <2>6. Ok(d) /\ d.out = <<>> /\ d.content_length = p.content_length /\ "TRAILING" \in d.flags
    BY <1>2, <1>8, <2>2, <2>5 DEF Untouched, Ok
  <2>7. PICK q : q = CALLBACK_NOTIFY(d, "chunk_header")
    OBVIOUS
  <2>8. ASSUME SameHead(d, q), q.mark = d.mark PROVE Resting(q, "chunk_header")
    <3>1. /\ q.state = "s_header_field_start" /\ q.state \in LineStates
          /\ q.left = FALSE /\ q.nread <= max_header_size
          /\ "CHUNKED" \in q.flags => q.te
          /\ \A k \in DataKinds : q.mark[k] = NoMark
          /\ "TRAILING" \in q.flags
      BY <2>5, <2>6, <2>8 DEF SameHead, Going, LineStates
    <3>2. OrderInv(q.state, q.flags, "chunk_header")
      <4>1. "chunk_header" \in Before(q.state, q.flags)
        BY <3>1, BeforeFacts
      <4> QED
        BY <3>1, <4>1, HeaderOrder
    <3> QED
      BY <3>1, <3>2, LineRests
  <2> QED
    BY <1>9, <1>10, <2>1, <2>4, <2>5, <2>6, <2>7, <2>8
<1>11. ASSUME p.content_length # 0
       PROVE  Fin(p, CALLBACK_NOTIFY(UPDATE_STATE(new, "s_chunk_data"), "chunk_header"), l)
  <2>1. "s_chunk_data" \in ChunkStates /\ "s_chunk_data" \in DataStates
        /\ "s_chunk_data" \notin SizeStates
    BY DEF ChunkStates, DataStates, SizeStates
  <2>2. PICK d : d = UPDATE_STATE(new, "s_chunk_data")
    OBVIOUS
  <2>3. /\ Going(l, d) /\ Untouched(new, d) /\ d.state = "s_chunk_data"
        /\ d.content_length = new.content_length
    BY <1>8, <2>1, <2>2, BodyStateFacts, GoingState
  <2>4. /\ Ok(d) /\ d.out = <<>> /\ d.content_length = p.content_length
        /\ d.flags = p.flags /\ d.te = p.te
    BY <1>2, <1>8, <2>3 DEF Untouched, Ok
  <2>5. PICK q : q = CALLBACK_NOTIFY(d, "chunk_header")
    OBVIOUS
  <2>6. ASSUME SameHead(d, q), q.mark = d.mark PROVE Resting(q, "chunk_header")
    <3>1. /\ q.state = "s_chunk_data" /\ q.state \in ChunkStates \cup PlainStates
          /\ q.left = FALSE /\ q.nread <= max_header_size
          /\ \A k \in DataKinds : q.mark[k] = NoMark
          /\ q.flags = p.flags /\ q.te = p.te /\ q.content_length = p.content_length
      BY <2>1, <2>3, <2>4, <2>6 DEF SameHead, Going
    <3>2. FlagInv(q.state, q.header_state, p.flags, p.te)
      BY <1>2, <1>3, <2>1, <3>1, ChunkFlags
    <3>3. OrderInv(q.state, q.flags, "chunk_header")
      BY <2>1, <3>1, BodyOrder
    <3>4. LengthInv(q.state, q.content_length)
      BY <1>4, <1>11, <3>1 DEF LengthInv, SizeStates
    <3>5. FlagInv(q.state, q.header_state, q.flags, q.te)
      BY <3>1, <3>2
    <3>6. q.mark["body"] = NoMark
      BY <3>1 DEF DataKinds
    <3> QED
      BY <3>1, <3>3, <3>4, <3>5, <3>6, BodyRestsAt
  <2> QED
    BY <1>9, <2>2, <2>3, <2>4, <2>5, <2>6
<1>12. Fin(p, SET_ERRNO(p, "STRICT"), l)
  BY RefusedHere DEF Refusals
<1> QED
  BY <1>7, <1>10, <1>11, <1>12 DEF ChunkSizeAlmostDone

(* The parser q is p with one more byte of the body marked.                *)
OneRead(p, q) ==
    /\ q \in Parser
    /\ q.errno = p.errno /\ q.out = p.out /\ q.left = p.left
    /\ q.flags = p.flags /\ q.te = p.te /\ q.nread = p.nread
    /\ \A k \in DataKinds \ {"body"} : q.mark[k] = p.mark[k]
    /\ \A k \in DataKinds : Held(q.mark, k) = Held(p.mark, k)
    /\ q.mark["body"] = Held(p.mark, "body")
    /\ q.mark["body"] # NoMark

(* MARK in a body.                                                         *)
LEMMA MarkBody ==
    ASSUME NEW p \in Parser
    PROVE  /\ OneRead(p, MARK(p, "body"))
           /\ MARK(p, "body").state = p.state
           /\ MARK(p, "body").header_state = p.header_state
           /\ MARK(p, "body").content_length = p.content_length
<1>1. PICK q : q = MARK(p, "body")
  OBVIOUS
<1>2. "body" \in DataKinds
  BY DEF DataKinds
<1>3. /\ q \in Parser /\ SameHead(p, q) /\ q.errno = p.errno /\ q.out = p.out
      /\ q.mark["body"] # NoMark
      /\ \A j \in DataKinds : j # "body" => q.mark[j] = p.mark[j]
      /\ \A j \in DataKinds : Held(q.mark, j) = Held(p.mark, j)
  BY <1>1, <1>2, MarkEffect
<1>4. q.mark["body"] = Held(p.mark, "body")
  BY <1>2, <1>3 DEF Held
<1> QED
  BY <1>1, <1>3, <1>4 DEF OneRead, SameHead

(* content_length counts down.                                             *)
LEMMA ReadByte ==
    ASSUME NEW p \in Parser, p.content_length # 0
    PROVE  LET q == [MARK(p, "body") EXCEPT !.content_length = @ - 1]
           IN  /\ OneRead(p, q)
               /\ q.state = p.state
               /\ q.content_length = p.content_length - 1
               /\ q.content_length \in Nat
               /\ q.content_length # MaxLength
<1>1. PICK c : c = MARK(p, "body")
  OBVIOUS
<1>2. OneRead(p, c) /\ c.state = p.state /\ c.content_length = p.content_length
  BY <1>1, MarkBody
<1>3. p.content_length \in 0 .. MaxLength
  BY DEF Parser, Lengths
<1>4. PICK v \in Lengths : v = c.content_length - 1 /\ v \in Nat /\ v # MaxLength
  BY <1>2, <1>3, ParserBounds DEF Lengths
<1>5. PICK q : q = [c EXCEPT !.content_length = v]
  OBVIOUS
<1>6. q \in Parser /\ q.content_length = v /\ q.state = c.state
  BY <1>2, <1>5 DEF OneRead, Parser
<1>7. /\ q.errno = c.errno /\ q.out = c.out /\ q.left = c.left
      /\ q.flags = c.flags /\ q.te = c.te /\ q.nread = c.nread /\ q.mark = c.mark
  BY <1>2, <1>5 DEF OneRead, Parser
<1>8. OneRead(p, q)
  BY <1>2, <1>6, <1>7 DEF OneRead
<1> QED
  BY <1>1, <1>2, <1>4, <1>5, <1>6, <1>8

(* A byte of the body is read, and it is not the last one.                 *)
LEMMA BodyRead ==
    ASSUME NEW l, NEW p, Ready(p, l), p.state \in ReadingStates,
           NEW q, OneRead(p, q), LengthInv(q.state, q.content_length),
           \/ p.state = "s_body_identity_eof" /\ q.state = p.state
           \/ /\ p.state # "s_body_identity_eof"
              /\ q.content_length = p.content_length - 1
              /\ q.state = p.state
           \/ /\ p.state = "s_chunk_data"
              /\ p.content_length = 1
              /\ q.state = "s_chunk_data_almost_done"
    PROVE  Fin(p, q, l)
<1>1. /\ p \in Parser /\ Ok(p) /\ p.out = <<>> /\ p.left = FALSE
      /\ FlagInv(p.state, p.header_state, p.flags, p.te) /\ OrderInv(p.state, p.flags, l)
  BY ReadyFacts
<1>2. /\ p.state \in ChunkStates \cup PlainStates
      /\ q.state \in ChunkStates \cup PlainStates
      /\ q.state \in PlainStates \cup {"s_chunk_data", "s_chunk_data_almost_done"}
      /\ q.state # "s_chunk_size_start"
      /\ (q.state = p.state \/ (q.state \in ChunkStates /\ p.state \in ChunkStates))
      /\ (q.state \in SizeStates <=> p.state \in SizeStates)
      /\ (q.state \in DataStates <=> p.state \in DataStates)
  BY DEF ReadingStates, ChunkStates, PlainStates, SizeStates, DataStates
<1>3. /\ \A k \in DataKinds \ {"body"} : p.mark[k] = NoMark /\ Held(p.mark, k) = 0
      /\ Held(p.mark, "body") \in Nat
  BY <1>2, BodyMarks
<1>4. "body" \in DataKinds
  BY DEF DataKinds
<1>5. /\ q \in Parser /\ Ok(q) /\ q.out = <<>> /\ q.left = FALSE /\ q.nread = p.nread
      /\ q.flags = p.flags /\ q.te = p.te
      /\ \A k \in DataKinds \ {"body"} : q.mark[k] = NoMark
      /\ \A k \in DataKinds : Held(q.mark, k) = Held(p.mark, k)
      /\ q.mark["body"] # NoMark /\ q.mark["body"] = Held(p.mark, "body")
  BY <1>1, <1>3 DEF OneRead, Ok
<1>6. Resting(q, l)
  <2>1. FlagInv(q.state, q.header_state, q.flags, q.te)
    <3>1. CASE q.state \in ChunkStates /\ p.state \in ChunkStates
      <4>1. FlagInv(q.state, q.header_state, p.flags, p.te)
        BY <1>1, <3>1, ChunkFlags
      <4> QED
        BY <1>5, <4>1
    <3>2. CASE q.state = p.state
      BY <1>1, <1>2, <1>5, <3>2 DEF FlagInv, FieldStates, DiscardStates, ChunkStates,
         PlainStates, FirstLineStates, BeginStates, UrlStates, VersionStates
    <3> QED
      BY <1>2, <3>1, <3>2
  <2>2. OrderInv(q.state, q.flags, l)
    BY <1>1, <1>2, BodyOrder
  <2>3. q.nread <= max_header_size
    BY <1>5 DEF Ready
  <2> QED
    BY <1>2, <1>5, <2>1, <2>2, <2>3, BodyRestsAt
<1>7. Moved(p, q)
  BY <1>3, <1>4, <1>5, NoneOut DEF Moved
<1>8. WantNext(p, q, Expected(p)) = Expected(p)
  <2>1. Expected(p) \in Int
    BY <1>1, <1>3 DEF Expected, Parser, Lengths
  <2>2. p.state # "s_body_identity" => q.state # "s_body_identity"
    OBVIOUS
  <2> QED
    BY <1>5, <2>1, <2>2, NoneOut DEF WantNext
<1>9. Expected(p) = Due(q)
  <2>1. p.content_length \in Int
    BY <1>1 DEF Parser, Lengths
  <2> QED
    BY <1>3, <1>5, <2>1 DEF Expected, Due, ReadingStates
<1> QED
  BY <1>5, <1>6, <1>7, <1>8, <1>9, NoneOut DEF Fin, Ok

(* A byte in s_body_identity_eof.                                          *)
LEMMA BodyIdentityEofFin ==
    ASSUME NEW l, NEW p, Ready(p, l), p.state = "s_body_identity_eof"
    PROVE  Fin(p, MARK(p, "body"), l)
<1>1. p \in Parser /\ p.state \in ReadingStates
  BY ReadyFacts DEF ReadingStates
<1>2. PICK q : q = MARK(p, "body")
  OBVIOUS
<1>3. OneRead(p, q) /\ q.state = p.state
  BY <1>1, <1>2, MarkBody
<1>4. LengthInv(q.state, q.content_length)
  BY <1>3 DEF LengthInv, SizeStates
<1> QED
  BY <1>1, <1>2, <1>3, <1>4, BodyRead

(* A byte in s_chunk_data.                                                 *)
LEMMA ChunkDataFin ==
    ASSUME NEW l, NEW p, Ready(p, l), p.state = "s_chunk_data"
    PROVE  Fin(p, ChunkData(p), l)
<1>1. p \in Parser /\ p.content_length \notin {0, MaxLength}
  BY DEF Ready, LengthInv
<1>2. p.state \in ReadingStates
  BY DEF ReadingStates
<1>3. PICK r : r = [MARK(p, "body") EXCEPT !.content_length = @ - 1]
  OBVIOUS
<1>4. /\ OneRead(p, r) /\ r.state = p.state /\ r.content_length = p.content_length - 1
      /\ r.content_length \in Nat /\ r.content_length # MaxLength
  BY <1>1, <1>3, ReadByte
<1>5. PICK s : s = IF r.content_length = 0 THEN "s_chunk_data_almost_done" ELSE r.state
  OBVIOUS
<1>6. PICK q : q = UPDATE_STATE(r, s)
  OBVIOUS
<1>7. ChunkData(p) = q
  BY <1>1, <1>3, <1>5, <1>6 DEF ChunkData, Asserted, UPDATE_STATE
<1>8. /\ Untouched(r, q) /\ q.state = s /\ q.content_length = r.content_length
  <2>1. s \in States /\ r \in Parser
    BY <1>4, <1>5 DEF States, BodyStates, OneRead
  <2> QED
    BY <1>6, <2>1, UpdateState
<1>9. OneRead(p, q)
  BY <1>4, <1>8 DEF OneRead, Untouched
<1>10. LengthInv(q.state, q.content_length)
  BY <1>4, <1>5, <1>8 DEF LengthInv, SizeStates
<1>11. r.content_length = 0 => p.content_length = 1
  <2>1. p.content_length \in Int
    BY <1>1 DEF Parser, Lengths
  <2> QED
    BY <1>4, <2>1
<1>12. Fin(p, q, l)
  BY <1>2, <1>4, <1>5, <1>8, <1>9, <1>10, <1>11, BodyRead
<1> QED
  BY <1>7, <1>12

(* s_message_done, whatever was delivered before.                          *)
LEMMA MessageDoneEffect ==
    ASSUME NEW l, NEW r, MayCall(l, r, "message_complete")
    PROVE  LET q == MessageDone(r)
           IN  /\ q \in Parser /\ q.errno \in {"OK", "CB"}
               /\ q.state \in IdleStates
               /\ q.nread = r.nread /\ q.flags = r.flags /\ q.te = r.te
               /\ q.mark = r.mark
               /\ OneMore(l, r.out, q.out, "message_complete", 0)
<1>1. r \in Parser /\ NEW_MESSAGE(r) \in IdleStates /\ NEW_MESSAGE(r) \in States
  BY NewMessage DEF MayCall
<1>2. PICK d : d = UPDATE_STATE(r, NEW_MESSAGE(r))
  OBVIOUS
<1>3. Untouched(r, d) /\ d.state \in IdleStates
  BY <1>1, <1>2, UpdateState
<1>4. MayCall(l, d, "message_complete")
  BY <1>3 DEF MayCall, Untouched, Ok
<1>5. PICK c : c = CALLBACK_NOTIFY(d, "message_complete")
  OBVIOUS
<1>6. AfterCall(l, d, c, "message_complete", 0, d.mark)
  <2>1. "message_complete" \in NoticeKinds
    BY DEF NoticeKinds
  <2> QED
    BY <1>4, <1>5, <2>1, NoticeEffect
<1>7. PICK b \in BOOLEAN : b = (Ok(c) /\ r.upgrade)
  OBVIOUS
<1>8. PICK q : q = [c EXCEPT !.left = b]
  OBVIOUS
<1>9. MessageDone(r) = q
  BY <1>2, <1>5, <1>7, <1>8 DEF MessageDone
<1>10. /\ q \in Parser /\ q.state = c.state /\ q.nread = c.nread
       /\ q.flags = c.flags /\ q.te = c.te /\ q.mark = c.mark /\ q.out = c.out
       /\ q.errno = c.errno
  <2>1. c \in Parser
    BY <1>6 DEF AfterCall
  <2> QED
    BY <1>8, <2>1, Leave
<1>11. /\ q.errno \in {"OK", "CB"} /\ q.state \in IdleStates
       /\ q.nread = r.nread /\ q.flags = r.flags /\ q.te = r.te /\ q.mark = r.mark
       /\ OneMore(l, r.out, q.out, "message_complete", 0)
  BY <1>3, <1>6, <1>10 DEF AfterCall, SameHead, Untouched
<1> QED
  BY <1>9, <1>10, <1>11

(* A byte in s_body_identity: the last one also ends the message.          *)
LEMMA BodyIdentityFin ==
    ASSUME NEW l, NEW p, Ready(p, l), p.state = "s_body_identity"
    PROVE  Fin(p, BodyIdentity(p), l)
<1>1. /\ p \in Parser /\ p.content_length \notin {0, MaxLength}
      /\ Ok(p) /\ p.out = <<>> /\ p.left = FALSE /\ p.nread <= max_header_size
  BY DEF Ready, LengthInv
<1>2. p.state \in ReadingStates /\ p.state \in PlainStates
  BY DEF ReadingStates, PlainStates
<1>3. PICK r : r = [MARK(p, "body") EXCEPT !.content_length = @ - 1]
  OBVIOUS
<1>4. /\ OneRead(p, r) /\ r.state = p.state /\ r.content_length = p.content_length - 1
      /\ r.content_length \in Nat /\ r.content_length # MaxLength
  BY <1>1, <1>3, ReadByte
<1>5. BodyIdentity(p) =
        IF r.content_length = 0
        THEN REEXECUTE(CALLBACK_DATA_(UPDATE_STATE(r, "s_message_done"), "body", 1),
                       MessageDone)
        ELSE r
  BY <1>1, <1>3 DEF BodyIdentity, Asserted
<1>6. CASE r.content_length # 0
  <2>1. LengthInv(r.state, r.content_length)
    BY <1>4, <1>6 DEF LengthInv, SizeStates
  <2>2. Fin(p, r, l)
    BY <1>2, <1>4, <2>1, BodyRead
  <2> QED
    BY <1>5, <1>6, <2>2
<1>7. CASE r.content_length = 0
  <2>1. p.content_length = 1
    <3>1. p.content_length \in Int
      BY <1>1 DEF Parser, Lengths
    <3> QED
      BY <1>4, <1>7, <3>1
  <2>2. PICK d : d = UPDATE_STATE(r, "s_message_done")
    OBVIOUS
  <2>3. Untouched(r, d)
    <3>1. r \in Parser /\ "s_message_done" \in States
      BY <1>4 DEF OneRead, States, BodyStates
    <3> QED
      BY <2>2, <3>1, UpdateState
  <2>4. /\ \A k \in DataKinds \ {"body"} : p.mark[k] = NoMark /\ Held(p.mark, k) = 0
        /\ Held(p.mark, "body") \in Nat /\ "body" \in DataKinds
    BY <1>2, BodyMarks DEF DataKinds
  <2>5. /\ d \in Parser /\ Ok(d) /\ d.out = <<>> /\ d.left = FALSE
        /\ d.nread = p.nread /\ d.flags = p.flags /\ d.te = p.te
        /\ \A k \in DataKinds \ {"body"} : d.mark[k] = NoMark
        /\ d.mark["body"] = Held(p.mark, "body") /\ d.mark["body"] # NoMark
    BY <1>1, <1>4, <2>3, <2>4 DEF OneRead, Untouched, Ok
  <2>6. l \in {"headers_complete", "body"}
    <3>1. OrderInv(p.state, p.flags, l)
      BY ReadyFacts
    <3> QED
      BY <3>1 DEF OrderInv, PlainStates
  <2>7. MayCall(l, d, "body")
    <3>1. l \in Follows["body"]
      BY <2>6 DEF Follows
    <3> QED
      BY <2>5, <3>1, NoneOut DEF MayCall
  <2>8. PICK c : c = CALLBACK_DATA_(d, "body", 1)
    OBVIOUS
  <2>9. AfterCall(l, d, c, "body", Held(p.mark, "body") + 1, Unmarked(d.mark, "body"))
    <3>1. PICK m \in 0 .. 1 : m = 1
      OBVIOUS
    <3>2. c = CALLBACK_DATA_(d, "body", m)
      BY <2>8, <3>1
    <3>3. AfterCall(l, d, c, "body", d.mark["body"] + m, Unmarked(d.mark, "body"))
      BY <2>4, <2>5, <2>7, <3>2, DataEffect
    <3> QED
      BY <2>5, <3>1, <3>3
  <2>10. /\ c \in Parser /\ c.errno \in {"OK", "CB"} /\ SameHead(d, c)
         /\ OnSet(c.out) = {"body"} /\ Now(l, c.out) = "body" /\ Linked(l, c.out)
         /\ Del(c.out, "body") = Held(p.mark, "body") + 1
         /\ \A j \in DataKinds : j # "body" => Del(c.out, j) = 0
         /\ c.mark = Unmarked(d.mark, "body")
    BY <2>5, <2>9, NoneOut DEF AfterCall, OneMore
  <2>11. \A k \in DataKinds : c.mark[k] = NoMark
    <3>1. d.mark \in Marks
      BY <2>5 DEF Parser
    <3> QED
      BY <2>5, <2>10, <3>1 DEF Unmarked, Marks
  <2>12. CASE ~Ok(c)
    <3>1. Fin(p, c, l)
      BY <2>10, <2>12 DEF Fin, Completes
    <3> QED
      BY <1>5, <1>7, <2>2, <2>8, <2>12, <3>1 DEF REEXECUTE
  <2>13. CASE Ok(c)
    <3>1. MayCall(l, c, "message_complete")
      BY <2>10, <2>13 DEF MayCall, Follows
    <3>2. PICK q : q = MessageDone(c)
      OBVIOUS
    <3>3. /\ q \in Parser /\ q.errno \in {"OK", "CB"} /\ q.state \in IdleStates
          /\ q.nread = c.nread /\ q.flags = c.flags /\ q.te = c.te /\ q.mark = c.mark
          /\ OneMore(l, c.out, q.out, "message_complete", 0)
      BY <3>1, <3>2, MessageDoneEffect
    <3>4. /\ Now(l, q.out) = "message_complete" /\ Linked(l, q.out)
          /\ OnSet(q.out) = {"body", "message_complete"}
          /\ Del(q.out, "body") = Held(p.mark, "body") + 1
          /\ \A j \in DataKinds : j # "body" => Del(q.out, j) = 0
      <4>1. "message_complete" \notin DataKinds
        BY DEF DataKinds
      <4> QED
        BY <2>4, <2>10, <3>3, <4>1 DEF OneMore
    <3>5. /\ \A k \in DataKinds : q.mark[k] = NoMark /\ Held(q.mark, k) = 0
          /\ q.mark["body"] = NoMark
      BY <2>4, <2>11, <3>3 DEF Held
    <3>6. Resting(q, "message_complete")
      <4>1. FlagInv(p.state, p.header_state, p.flags, p.te)
        BY ReadyFacts
      <4>2. q.nread = p.nread /\ q.flags = p.flags /\ q.te = p.te
        BY <2>5, <2>10, <3>3 DEF SameHead
      <4>3. "CHUNKED" \in q.flags => q.te
        BY <4>1, <4>2 DEF FlagInv
      <4> QED
        BY <1>1, <3>3, <3>5, <4>2, <4>3, IdleRests
    <3>7. Moved(p, q)
      BY <1>2, <2>4, <3>4, <3>5 DEF Moved
    <3>8. Expected(p) = Held(p.mark, "body") + 1
      BY <2>1, <2>4 DEF Expected
    <3>9. q.state # "s_body_identity" /\ q.state # "s_chunk_data"
      BY <3>3 DEF IdleStates
    <3>10. WantNext(p, q, Expected(p)) = 0
      BY <2>4, <3>4, <3>8 DEF WantNext
    <3>11. Due(q) = 0
      BY <3>5, <3>9 DEF Due
    <3>12. Fin(p, q, l)
      BY <3>3, <3>4, <3>6, <3>7, <3>10, <3>11 DEF Fin
    <3> QED
      BY <1>5, <1>7, <2>2, <2>8, <2>13, <3>2, <3>12 DEF REEXECUTE
  <2> QED
    BY <2>12, <2>13
<1> QED
  BY <1>6, <1>7

(* A byte in s_chunk_data_almost_done.                                     *)
LEMMA ChunkDataAlmostDoneFin ==
    ASSUME NEW l, NEW p, Ready(p, l), p.state = "s_chunk_data_almost_done", NEW ch
    PROVE  Fin(p, ChunkDataAlmostDone(p, ch), l)
<1>1. /\ p \in Parser /\ p.content_length = 0 /\ Ok(p) /\ p.out = <<>> /\ p.left = FALSE
      /\ p.nread <= max_header_size
  BY DEF Ready, LengthInv
<1>2. /\ p.state \in ChunkStates /\ p.state \notin ReadingStates
      /\ p.state \in DataStates /\ p.state \notin SizeStates
      /\ "s_chunk_data_done" \in ChunkStates \cap DataStates
      /\ "s_chunk_data_done" \notin SizeStates
  BY DEF ChunkStates, ReadingStates, DataStates, SizeStates
<1>3. PICK d : d = UPDATE_STATE(p, "s_chunk_data_done")
  OBVIOUS
<1>4. Untouched(p, d) /\ d.state = "s_chunk_data_done"
      /\ d.content_length = p.content_length
  BY <1>1, <1>2, <1>3, BodyStateFacts, UpdateState
<1>5. /\ \A k \in DataKinds \ {"body"} : p.mark[k] = NoMark /\ Held(p.mark, k) = 0
      /\ Held(p.mark, "body") \in Nat /\ "body" \in DataKinds
  BY <1>2, BodyMarks DEF DataKinds
<1>6. /\ d \in Parser /\ Ok(d) /\ d.out = <<>> /\ d.left = FALSE
      /\ d.nread = p.nread /\ d.flags = p.flags /\ d.te = p.te /\ d.mark = p.mark
  BY <1>1, <1>4 DEF Untouched, Ok
<1>7. /\ FlagInv(p.state, p.header_state, p.flags, p.te) /\ OrderInv(p.state, p.flags, l)
  BY ReadyFacts
<1>8. l \in {"chunk_header", "body"}
  BY <1>2, <1>7, BodyOrder
<1>9. ASSUME NEW q, SameHead(d, q), \A k \in DataKinds : q.mark[k] = NoMark,
             NEW x \in {"chunk_header", "body"}
      PROVE  Resting(q, x)
  <2>1. /\ q.state = "s_chunk_data_done" /\ q.flags = p.flags /\ q.te = p.te
        /\ q.nread <= max_header_size /\ q.left = FALSE
        /\ q.content_length = p.content_length
    BY <1>1, <1>4, <1>6, <1>9 DEF SameHead
  <2>2. FlagInv(q.state, q.header_state, p.flags, p.te)
    BY <1>2, <1>7, <2>1, ChunkFlags
  <2>3. FlagInv(q.state, q.header_state, q.flags, q.te)
    BY <2>1, <2>2
  <2>4. OrderInv(q.state, q.flags, x)
    BY <1>2, <1>9, <2>1, BodyOrder
  <2>5. LengthInv(q.state, q.content_length)
    BY <2>1 DEF LengthInv, SizeStates
  <2>6. q.mark["body"] = NoMark /\ \A k \in DataKinds \ {"body"} : q.mark[k] = NoMark
    BY <1>5, <1>9
  <2> QED
    BY <1>2, <2>1, <2>3, <2>4, <2>5, <2>6, BodyRestsAt
<1>10. Expected(p) = Held(p.mark, "body")
  BY <1>5 DEF Expected
<1>11. PICK q : q = CALLBACK_DATA(d, "body")
  OBVIOUS
<1>12. ASSUME p.mark["body"] = NoMark PROVE Fin(p, q, l)
  <2>1. q = d
    BY <1>6, <1>11, <1>12 DEF CALLBACK_DATA, CALLBACK_DATA_
  <2>2. \A k \in DataKinds : q.mark[k] = NoMark /\ Held(q.mark, k) = 0 /\ Held(p.mark, k) = 0
    BY <1>5, <1>6, <1>12, <2>1 DEF Held
  <2>3. Resting(q, l)
    BY <1>8, <1>9, <2>1, <2>2 DEF SameHead
  <2>4. Moved(p, q)
    BY <1>2, <1>5, <1>6, <2>1, <2>2, NoneOut DEF Moved
  <2>5. WantNext(p, q, Expected(p)) = 0
    BY <1>4, <1>5, <1>6, <1>10, <2>1, <2>2, NoneOut DEF WantNext
  <2>6. Due(q) = 0
    BY <1>4, <1>5, <2>1, <2>2 DEF Due
  <2> QED
    BY <1>1, <1>6, <2>1, <2>3, <2>4, <2>5, <2>6, <1>11, NoneOut DEF Fin, Ok
<1>13. ASSUME p.mark["body"] # NoMark PROVE Fin(p, q, l)
  <2>1. MayCall(l, d, "body")
    <3>1. l \in Follows["body"]
      BY <1>8 DEF Follows
    <3> QED
      BY <1>6, <3>1, NoneOut DEF MayCall
  <2>2. p.mark["body"] = Held(p.mark, "body")
    BY <1>13 DEF Held
  <2>3. AfterCall(l, d, q, "body", Held(p.mark, "body"), Unmarked(d.mark, "body"))
    <3>1. PICK m \in 0 .. 1 : m = 0
      OBVIOUS
    <3>2. q = CALLBACK_DATA_(d, "body", m)
      BY <1>11, <3>1 DEF CALLBACK_DATA
    <3>3. AfterCall(l, d, q, "body", d.mark["body"] + m, Unmarked(d.mark, "body"))
      BY <1>5, <1>6, <1>13, <2>1, <3>2, DataEffect
    <3> QED
      BY <1>5, <1>6, <2>2, <3>1, <3>3
  <2>4. /\ q \in Parser /\ q.errno \in {"OK", "CB"} /\ SameHead(d, q)
        /\ OnSet(q.out) = {"body"} /\ Now(l, q.out) = "body" /\ Linked(l, q.out)
        /\ Del(q.out, "body") = Held(p.mark, "body")
        /\ \A j \in DataKinds : j # "body" => Del(q.out, j) = 0
        /\ q.mark = Unmarked(d.mark, "body")
    BY <1>6, <2>3, NoneOut DEF AfterCall, OneMore
  <2>5. \A k \in DataKinds : q.mark[k] = NoMark /\ Held(q.mark, k) = 0
    <3>1. d.mark \in Marks
      BY <1>6 DEF Parser
    <3> QED
      BY <1>5, <1>6, <2>4, <3>1 DEF Unmarked, Marks, Held
  <2>6. Resting(q, "body")
    BY <1>9, <2>4, <2>5
  <2>7. Moved(p, q)
    BY <1>2, <1>5, <2>4, <2>5 DEF Moved
  <2>8. q.state = "s_chunk_data_done"
    BY <1>4, <2>4 DEF SameHead
  <2>9. WantNext(p, q, Expected(p)) = 0
    BY <1>5, <1>10, <2>4, <2>8 DEF WantNext
  <2>10. Due(q) = 0
    BY <1>5, <2>5, <2>8 DEF Due
  <2> QED
    BY <1>11, <2>4, <2>6, <2>7, <2>9, <2>10 DEF Fin
<1>14. Fin(p, SET_ERRNO(p, "STRICT"), l)
  BY RefusedHere DEF Refusals
<1>15. Fin(p, q, l)
  BY <1>12, <1>13
<1> QED
  BY <1>1, <1>3, <1>11, <1>14, <1>15 DEF ChunkDataAlmostDone, Asserted

(* A byte in s_chunk_data_done.                                            *)
LEMMA ChunkDataDoneFin ==
    ASSUME NEW l, NEW p, Ready(p, l), p.state = "s_chunk_data_done", NEW ch
    PROVE  Fin(p, ChunkDataDone(p, ch), l)
<1>1. /\ Going(l, p) /\ Ok(p) /\ p.out = <<>> /\ Now(l, p.out) = l /\ Expected(p) = 0
      /\ p.state \in ChunkStates /\ p.state \notin ReadingStates
      /\ \A k \in DataKinds : p.mark[k] = NoMark /\ Held(p.mark, k) = 0
  BY BodyGoing
<1>2. /\ FlagInv(p.state, p.header_state, p.flags, p.te) /\ OrderInv(p.state, p.flags, l)
  BY ReadyFacts
<1>3. l \in {"chunk_header", "body"}
  BY <1>2 DEF OrderInv, DataStates
<1>4. PICK new : new = ResetCount(p)
  OBVIOUS
<1>5. /\ Going(l, new) /\ new.nread = 0 /\ new.errno = p.errno /\ new.out = p.out
      /\ new.flags = p.flags /\ new.te = p.te
  BY <1>1, <1>4, ResetCountEffect
<1>6. PICK d : d = UPDATE_STATE(new, "s_chunk_size_start")
  OBVIOUS
<1>7. /\ Going(l, d) /\ Untouched(new, d) /\ d.state = "s_chunk_size_start"
  <2>1. "s_chunk_size_start" \in States
    BY DEF States
  <2> QED
    BY <1>5, <1>6, <2>1, GoingState
<1>8. PICK q : q = CALLBACK_NOTIFY(d, "chunk_complete")
  OBVIOUS
<1>9. /\ Going(l, q) /\ SameHead(d, q) /\ q.errno \in {"OK", "CB"}
      /\ OnSet(q.out) = {"chunk_complete"} /\ Now(l, q.out) = "chunk_complete"
  <2>1. Ok(d) /\ d.out = <<>>
    BY <1>1, <1>5, <1>7 DEF Untouched, Ok
  <2>2. "chunk_complete" \in NoticeKinds \ {"chunk_header"}
    BY DEF NoticeKinds
  <2>3. Now(l, d.out) \in Follows["chunk_complete"] /\ OnSet(d.out) = {}
    BY <1>3, <2>1, NoneOut DEF Follows
  <2> QED
    BY <1>7, <1>8, <2>1, <2>2, <2>3, GoingNotice
<1>10. /\ q.state = "s_chunk_size_start" /\ q.nread = 0 /\ q.flags = p.flags
       /\ q.te = p.te /\ q.left = FALSE
       /\ \A k \in DataKinds : q.mark[k] = NoMark /\ Held(q.mark, k) = 0 /\ Del(q.out, k) = 0
       /\ q \in Parser /\ Linked(l, q.out) /\ "body" \in DataKinds
  BY <1>5, <1>7, <1>9 DEF SameHead, Untouched, Going, Held, DataKinds
<1>11. Resting(q, "chunk_complete")
  <2>1. q.state \in ChunkStates /\ q.state \in SizeStates
    BY <1>10 DEF ChunkStates, SizeStates
  <2>2. FlagInv(q.state, q.header_state, p.flags, p.te)
    BY <1>1, <1>2, <2>1, ChunkFlags
  <2>3. FlagInv(q.state, q.header_state, q.flags, q.te)
    BY <1>10, <2>2
  <2>4. OrderInv(q.state, q.flags, "chunk_complete")
    BY <2>1, BodyOrder
  <2>5. LengthInv(q.state, q.content_length) /\ q.nread <= max_header_size
    BY <1>10, ParserBounds DEF LengthInv, SizeStates
  <2>6. q.mark["body"] = NoMark /\ \A k \in DataKinds \ {"body"} : q.mark[k] = NoMark
    BY <1>10
  <2> QED
    BY <1>10, <2>1, <2>3, <2>4, <2>5, <2>6, BodyRestsAt
<1>12. Moved(p, q)
  BY <1>1, <1>10 DEF Moved
<1>13. WantNext(p, q, Expected(p)) = 0 /\ Due(q) = 0
  BY <1>1, <1>9, <1>10 DEF WantNext, Due
<1>14. Fin(p, q, l)
  BY <1>9, <1>10, <1>11, <1>12, <1>13 DEF Fin
<1>15. Fin(p, SET_ERRNO(p, "STRICT"), l)
  BY RefusedHere DEF Refusals
<1> QED
  BY <1>4, <1>6, <1>8, <1>14, <1>15 DEF ChunkDataDone

-----------------------------------------------------------------------------
(* The switch on the state *)

(* The switch, in the states of chunks.                                    *)
LEMMA ChunkFin ==
    ASSUME NEW l, NEW p, Ready(p, l), p.state \in ChunkStates, NEW ch
    PROVE  Fin(p, Chunk(p, ch), l)
<1>1. CASE p.state = "s_chunk_size_start"
  BY <1>1, ChunkSizeStartFin DEF Chunk
<1>2. CASE p.state = "s_chunk_size"
  BY <1>2, ChunkSizeFin DEF Chunk
<1>3. CASE p.state = "s_chunk_parameters"
  BY <1>3, ChunkParametersFin DEF Chunk
<1>4. CASE p.state = "s_chunk_size_almost_done"
  BY <1>4, ChunkSizeAlmostDoneFin DEF Chunk
<1>5. CASE p.state = "s_chunk_data"
  BY <1>5, ChunkDataFin DEF Chunk
<1>6. CASE p.state = "s_chunk_data_almost_done"
  BY <1>6, ChunkDataAlmostDoneFin DEF Chunk
<1>7. CASE p.state = "s_chunk_data_done"
  BY <1>7, ChunkDataDoneFin DEF Chunk
<1> QED
  BY <1>1, <1>2, <1>3, <1>4, <1>5, <1>6, <1>7 DEF ChunkStates

(* The states that FirstLine switches on.                                  *)
LineOneStates ==
    (IdleStates \ {"s_dead"}) \cup UrlStates
        \cup {"s_res_or_resp_H", "s_res_http_major", "s_res_http_minor",
              "s_res_first_status_code", "s_res_status_code", "s_res_status_start",
              "s_res_status", "s_req_method", "s_req_spaces_before_url",
              "s_req_http_start", "s_req_http_major", "s_req_http_minor",
              "s_req_http_end"}

(* A byte in s_res_status.                                                 *)
LEMMA StatusFin ==
    ASSUME NEW l, NEW p, Ready(p, l), p.state = "s_res_status", NEW ch
    PROVE  Fin(p, ResStatus(p, ch), l)
<1>1. /\ p \in Parser /\ Ok(p) /\ p.out = <<>> /\ p.left = FALSE /\ p.mark \in Marks
      /\ MarkInv(p.state, p.mark)
  BY ReadyFacts
<1>2. p.state \in HeadStates /\ ItemOf(p.state) = "status" /\ "status" \in DataKinds
  BY ItemFacts DEF HeadStates, FirstLineStates, DataKinds
<1>3. /\ \A j \in DataKinds : j # "status" => p.mark[j] = NoMark
      /\ p.mark["status"] # NoMark
  BY <1>1, <1>2, HeadMarks DEF NoMark
<1> QED
  BY <1>1, <1>3, ResStatusFin

(* The switch, in the states of a first line.                              *)
LEMMA FirstLineFin ==
    ASSUME NEW l, NEW p, Ready(p, l), p.state \in LineOneStates, NEW ch
    PROVE  Fin(p, FirstLine(p, ch), l)
<1>1. CASE p.state = "s_start_req_or_res"
  BY <1>1, StartReqOrResFin DEF FirstLine, UrlStates
<1>2. CASE p.state = "s_res_or_resp_H"
  BY <1>2, ResOrRespHFin DEF FirstLine, UrlStates
<1>3. CASE p.state = "s_start_res"
  BY <1>3, StartResFin DEF FirstLine, UrlStates
<1>4. CASE p.state = "s_res_http_major"
  <2>1. Fin(p, Major(p, ch, "s_res_http_dot"), l)
    BY <1>4, MajorFin DEF BeginStates
  <2> QED
    BY <1>4, <2>1 DEF FirstLine, UrlStates
<1>5. CASE p.state = "s_res_http_minor"
  <2>1. Fin(p, Minor(p, ch, "s_res_http_end"), l)
    BY <1>5, MajorFin DEF BeginStates
  <2> QED
    BY <1>5, <2>1 DEF FirstLine, UrlStates
<1>6. CASE p.state = "s_res_first_status_code"
  BY <1>6, ResFirstStatusCodeFin DEF FirstLine, UrlStates
<1>7. CASE p.state = "s_res_status_code"
  BY <1>7, ResStatusCodeFin DEF FirstLine, UrlStates
<1>8. CASE p.state = "s_res_status_start"
  BY <1>8, ResStatusStartFin DEF FirstLine, UrlStates
<1>9. CASE p.state = "s_res_status"
  <2>1. Fin(p, ResStatus(p, ch), l)
    BY <1>9, StatusFin
  <2> QED
    BY <1>9, <2>1 DEF FirstLine, UrlStates
<1>10. CASE p.state = "s_start_req"
  <2>1. Fin(p, StartReq(p, ch), l)
    BY <1>10, FreshAtFirst, StartReqFin DEF IdleStates
  <2> QED
    BY <1>10, <2>1 DEF FirstLine, UrlStates
<1>11. CASE p.state = "s_req_method"
  BY <1>11, ReqMethodFin DEF FirstLine, UrlStates
<1>12. CASE p.state = "s_req_spaces_before_url"
  BY <1>12, ReqSpacesBeforeUrlFin DEF FirstLine, UrlStates
<1>13. CASE p.state \in UrlStates
  BY <1>13, ReqUrlFin DEF FirstLine, UrlStates
<1>14. CASE p.state = "s_req_http_start"
  BY <1>14, ReqHttpStartFin DEF FirstLine, UrlStates
<1>15. CASE p.state = "s_req_http_major"
  <2>1. Fin(p, Major(p, ch, "s_req_http_dot"), l)
    BY <1>15, MajorFin DEF VersionStates
  <2> QED
    BY <1>15, <2>1 DEF FirstLine, UrlStates
<1>16. CASE p.state = "s_req_http_minor"
  <2>1. Fin(p, Minor(p, ch, "s_req_http_end"), l)
    BY <1>16, MajorFin DEF VersionStates
  <2> QED
    BY <1>16, <2>1 DEF FirstLine, UrlStates
<1>17. CASE p.state = "s_req_http_end"
  BY <1>17, ReqHttpEndFin DEF FirstLine, UrlStates
<1> QED
  BY <1>1, <1>2, <1>3, <1>4, <1>5, <1>6, <1>7, <1>8, <1>9,
     <1>10, <1>11, <1>12, <1>13, <1>14, <1>15, <1>16, <1>17 DEF LineOneStates, IdleStates

(* The switch, in the states of a header.                                  *)
LEMMA HeaderLineFin ==
    ASSUME NEW l, NEW p, Ready(p, l),
           p.state \in LineOneStates \cup LineStates
              \cup (FieldStates \ {"s_header_value_discard_ws_almost_done"}), NEW ch
    PROVE  Fin(p, HeaderLine(p, ch), l)
<1>1. CASE p.state = "s_header_field_start"
  BY <1>1, LineFin DEF HeaderLine, LineStates
<1>2. CASE p.state = "s_header_field"
  BY <1>2, HeaderFieldFin DEF HeaderLine
<1>3. CASE p.state = "s_header_value_discard_ws"
  BY <1>3, HeaderValueDiscardWsFin DEF HeaderLine
<1>4. CASE p.state = "s_header_value_discard_lws"
  BY <1>4, HeaderValueDiscardLwsFin DEF HeaderLine
<1>5. CASE p.state = "s_header_value"
  BY <1>5, HeaderValueFin DEF HeaderLine
<1>6. CASE p.state = "s_header_almost_done"
  BY <1>6, HeaderAlmostDoneFin DEF HeaderLine
<1>7. CASE p.state = "s_header_value_lws"
  BY <1>7, HeaderValueLwsFin DEF HeaderLine
<1>8. CASE p.state = "s_headers_almost_done"
  BY <1>8, LineFin DEF HeaderLine, LineStates
<1>9. CASE p.state \in LineOneStates
  BY <1>9, FirstLineFin DEF HeaderLine, LineOneStates, IdleStates, UrlStates
<1> QED
  BY <1>1, <1>2, <1>3, <1>4, <1>5, <1>6, <1>7, <1>8, <1>9
     DEF FieldStates, DiscardStates, LineStates

(* A parser that is ready for a byte is done with it after the switch.     *)
LEMMA StepFin ==
    ASSUME NEW l, NEW p, Ready(p, l), NEW ch
    PROVE  Fin(p, Step(p, ch), l)
<1>1. /\ p \in Parser /\ FlagInv(p.state, p.header_state, p.flags, p.te)
      /\ OrderInv(p.state, p.flags, l)
  BY ReadyFacts
<1>2. p.state \in States
      /\ p.state \notin {"s_headers_done", "s_message_done", "s_header_value_start"}
  BY <1>1 DEF Parser, OrderInv
<1> DEFINE Heads == LineOneStates \cup LineStates
                      \cup (FieldStates \ {"s_header_value_discard_ws_almost_done"})
<1>3. \/ p.state = "s_dead"
      \/ p.state \in DOMAIN Literal
      \/ p.state \in DOMAIN ReqLiteral
      \/ p.state \in ChunkStates
      \/ p.state = "s_body_identity"
      \/ p.state = "s_body_identity_eof"
      \/ p.state \in Heads
  BY <1>2 DEF States, BodyStates, UrlStates, ChunkStates, Literal, ReqLiteral,
     LineOneStates, IdleStates, LineStates, FieldStates, DiscardStates
<1>4. CASE p.state = "s_dead"
  <2>1. Step(p, ch) = Dead(p, ch)
    BY <1>4 DEF Step, Literal, ReqLiteral, ChunkStates
  <2> QED
    BY <1>4, <2>1, DeadFin
<1>5. CASE p.state \in DOMAIN Literal
  <2>1. Step(p, ch) = Match(p, Literal, ch)
    BY <1>5 DEF Step, Literal, ReqLiteral, ChunkStates
  <2> QED
    BY <1>5, <2>1, MatchFin
<1>6. CASE p.state \in DOMAIN ReqLiteral
  <2>1. Step(p, ch) = Match(p, ReqLiteral, ch)
    BY <1>6 DEF Step, Literal, ReqLiteral, ChunkStates
  <2> QED
    BY <1>6, <2>1, MatchFin
<1>7. CASE p.state \in ChunkStates
  <2>1. Step(p, ch) = Asserted(Chunk(p, ch), "CHUNKED" \in p.flags)
    BY <1>7 DEF Step, Literal, ReqLiteral, ChunkStates
  <2>2. "CHUNKED" \in p.flags
    BY <1>1, <1>7 DEF FlagInv
  <2> QED
    BY <1>7, <2>1, <2>2, ChunkFin DEF Asserted
<1>8. CASE p.state = "s_body_identity"
  <2>1. Step(p, ch) = BodyIdentity(p)
    BY <1>8 DEF Step, Literal, ReqLiteral, ChunkStates
  <2> QED
    BY <1>8, <2>1, BodyIdentityFin
<1>9. CASE p.state = "s_body_identity_eof"
  <2>1. Step(p, ch) = MARK(p, "body")
    BY <1>9 DEF Step, Literal, ReqLiteral, ChunkStates
  <2> QED
    BY <1>9, <2>1, BodyIdentityEofFin
<1>10. CASE p.state \in Heads
  <2>1. Step(p, ch) = HeaderLine(p, ch)
    BY <1>10 DEF Step, Literal, ReqLiteral, ChunkStates, LineOneStates, IdleStates,
       LineStates, FieldStates, DiscardStates, UrlStates
  <2> QED
    BY <1>10, <2>1, HeaderLineFin
<1> QED
  BY <1>3, <1>4, <1>5, <1>6, <1>7, <1>8, <1>9, <1>10

(* Between messages, and at the size of a chunk, no byte begins a body of  *)
(* known length.                                                           *)
LEMMA NoBodyYet ==
    ASSUME NEW l, NEW p, Ready(p, l), p.state \in IdleStates \cup SizeStates, NEW ch
    PROVE  Step(p, ch).state # "s_body_identity"
<1>0. p \in Parser
  BY ReadyFacts
<1>1. /\ \A r \in Parser : \A e : SET_ERRNO(r, e).state = r.state
      /\ p.state # "s_body_identity"
  BY DEF SET_ERRNO, Parser, IdleStates, SizeStates
<1>2. \A r \in Parser : \A k : CALLBACK_NOTIFY(r, k).state = r.state
  BY DEF CALLBACK_NOTIFY, Called, Parser
<1>3. PICK r : r = Reset(p)
  OBVIOUS
<1>4. r \in Parser /\ r.state = p.state
  <2>1. MaxLength \in Lengths /\ {} \in FlagSets
    BY ParserBounds DEF Lengths, FlagSets
  <2> QED
    BY <1>0, <1>3, <2>1 DEF Reset, Parser
<1>5. CASE p.state = "s_dead"
  <2>1. Step(p, ch) = Dead(p, ch)
    BY <1>5 DEF Step, Literal, ReqLiteral, ChunkStates
  <2> QED
    BY <1>0, <1>1, <2>1 DEF Dead
<1>6. ASSUME NEW x \in Parser, x.state # "s_body_identity"
      PROVE  StartReq(x, ch).state # "s_body_identity"
  <2>1. PICK y : y = Reset(x)
    OBVIOUS
  <2>2. y \in Parser /\ y.state = x.state
    <3>1. MaxLength \in Lengths /\ {} \in FlagSets
      BY ParserBounds DEF Lengths, FlagSets
    <3> QED
      BY <2>1, <3>1 DEF Reset, Parser
  <2>3. CASE IsEol(ch)
    BY <1>6, <2>3 DEF StartReq
  <2>4. CASE ~IsEol(ch) /\ ch \notin DOMAIN MethodOf
    BY <1>1, <1>6, <2>1, <2>2, <2>4 DEF StartReq
  <2>5. CASE ~IsEol(ch) /\ ch \in DOMAIN MethodOf
    <3>1. PICK z : z = [y EXCEPT !.method = MethodOf[ch], !.index = 1,
                                 !.state = "s_req_method"]
      OBVIOUS
    <3>2. z.state = "s_req_method"
      BY <2>2, <3>1 DEF Parser
    <3>3. StartReq(x, ch) = CALLBACK_NOTIFY(z, "message_begin")
      BY <2>1, <2>5, <3>1 DEF StartReq
    <3>4. z \in Parser
      <4>1. MethodOf[ch] \in Methods /\ "s_req_method" \in States
        BY <2>5 DEF MethodOf, Methods, States
      <4> QED
        BY <2>2, <3>1, <4>1 DEF Parser
    <3> QED
      BY <1>2, <3>2, <3>3, <3>4
  <2> QED
    BY <2>3, <2>4, <2>5
<1>7. CASE p.state = "s_start_req"
  <2>1. Step(p, ch) = StartReq(p, ch)
    BY <1>7 DEF Step, HeaderLine, FirstLine, Literal, ReqLiteral, ChunkStates, UrlStates
  <2> QED
    BY <1>0, <1>1, <1>6, <2>1
<1>8. ASSUME NEW s \in States \ {"s_body_identity"}
      PROVE  CALLBACK_NOTIFY(UPDATE_STATE(r, s), "message_begin").state # "s_body_identity"
  <2>1. UPDATE_STATE(r, s) \in Parser /\ UPDATE_STATE(r, s).state = s
    BY <1>4, UpdateState DEF Untouched
  <2> QED
    BY <1>2, <2>1
<1>9. CASE p.state = "s_start_res"
  <2>1. Step(p, ch) = StartRes(p, ch)
    BY <1>9 DEF Step, HeaderLine, FirstLine, Literal, ReqLiteral, ChunkStates, UrlStates
  <2>2. CASE IsEol(ch)
    BY <1>1, <2>1, <2>2 DEF StartRes, IsEol, CR, LF
  <2>3. CASE ch = "H"
    BY <1>3, <1>8, <2>1, <2>3 DEF StartRes, IsEol, CR, LF, States
  <2>4. CASE ~IsEol(ch) /\ ch # "H"
    BY <1>1, <1>3, <1>4, <2>1, <2>4 DEF StartRes
  <2> QED
    BY <2>2, <2>3, <2>4
<1>10. CASE p.state = "s_start_req_or_res"
  <2>1. Step(p, ch) = StartReqOrRes(p, ch)
    BY <1>10 DEF Step, HeaderLine, FirstLine, Literal, ReqLiteral, ChunkStates, UrlStates
  <2>2. CASE IsEol(ch)
    BY <1>1, <2>1, <2>2 DEF StartReqOrRes, IsEol, CR, LF
  <2>3. CASE ch = "H"
    BY <1>3, <1>8, <2>1, <2>3 DEF StartReqOrRes, IsEol, CR, LF, States
  <2>4. CASE ~IsEol(ch) /\ ch # "H"
    <3>1. PICK x : x = [r EXCEPT !.type = "REQUEST", !.state = "s_start_req"]
      OBVIOUS
    <3>2. x \in Parser /\ x.state = "s_start_req"
      <4>1. "REQUEST" \in MessageTypes /\ "s_start_req" \in States
        BY DEF MessageTypes, States
      <4> QED
        BY <1>4, <3>1, <4>1 DEF Parser
    <3>3. Step(p, ch) = StartReq(x, ch)
      BY <1>3, <2>1, <2>4, <3>1 DEF StartReqOrRes
    <3> QED
      BY <1>6, <3>2, <3>3
  <2> QED
    BY <2>2, <2>3, <2>4
<1>11. CASE p.state \in SizeStates
  <2>1. PICK c : c = Chunk(p, ch)
    OBVIOUS
  <2>2. Step(p, ch) = Asserted(c, "CHUNKED" \in p.flags)
    BY <1>11, <2>1 DEF Step, Literal, ReqLiteral, ChunkStates, SizeStates
  <2>3. ASSUME NEW x, x.state # "s_body_identity", x \in Parser, NEW b
        PROVE  Asserted(x, b).state # "s_body_identity"
    BY <1>1, <2>3 DEF Asserted
  <2>4. c \in Parser
    <3>1. p.state \in ChunkStates
      BY <1>11, BodyStateFacts
    <3> QED
      BY <2>1, <3>1, ChunkFin DEF Fin
  <2>5. \A s \in States : UPDATE_STATE(p, s).state = s
    BY <1>0, UpdateState
  <2>6. ASSUME p.state = "s_chunk_size_start"
        PROVE  c.state # "s_body_identity"
    <3>1. c = ChunkSizeStart(p, ch)
      BY <2>1, <2>6 DEF Chunk
    <3> QED
      BY <1>0, <2>6, <3>1 DEF ChunkSizeStart, Asserted, SET_ERRNO, Parser
  <2>7. ASSUME p.state = "s_chunk_size"
        PROVE  c.state # "s_body_identity"
    <3>1. c = ChunkSize(p, ch)
      BY <2>1, <2>7 DEF Chunk
    <3>2. AddDigit(p, 16, Unhex[ch]).state = p.state
      BY <1>0 DEF AddDigit, SET_ERRNO, Parser
    <3>3. /\ UPDATE_STATE(p, "s_chunk_size_almost_done").state # "s_body_identity"
          /\ UPDATE_STATE(p, "s_chunk_parameters").state # "s_body_identity"
      BY <2>5 DEF States
    <3> QED
      BY <1>0, <1>1, <3>1, <3>2, <3>3 DEF ChunkSize
  <2>8. ASSUME p.state = "s_chunk_parameters"
        PROVE  c.state # "s_body_identity"
    <3>1. c = ChunkParameters(p, ch)
      BY <2>1, <2>8 DEF Chunk
    <3> QED
      BY <1>1, <2>5, <3>1 DEF ChunkParameters, States
  <2>9. ASSUME p.state = "s_chunk_size_almost_done"
        PROVE  c.state # "s_body_identity"
    <3>1. c = ChunkSizeAlmostDone(p, ch)
      BY <2>1, <2>9 DEF Chunk
    <3>2. PICK new : new = ResetCount(p)
      OBVIOUS
    <3>3. new \in Parser
      <4>1. 0 \in Counts
        BY ParserBounds DEF Counts
      <4> QED
        BY <1>0, <3>2, <4>1 DEF ResetCount, Parser
    <3>4. Flag(new, "TRAILING") \in Parser
      BY <3>3 DEF Flag, Parser, FlagSets
    <3>5. \A x \in Parser : \A s \in States :
             CALLBACK_NOTIFY(UPDATE_STATE(x, s), "chunk_header").state = s
      BY <1>2, UpdateState DEF Untouched
    <3> QED
      BY <1>0, <1>1, <3>1, <3>2, <3>3, <3>4, <3>5
         DEF ChunkSizeAlmostDone, States, BodyStates
  <2>10. c.state # "s_body_identity"
    BY <1>11, <2>6, <2>7, <2>8, <2>9 DEF SizeStates
  <2> QED
    BY <2>2, <2>3, <2>4, <2>10
<1> QED
  BY <1>5, <1>7, <1>9, <1>10, <1>11 DEF IdleStates

-----------------------------------------------------------------------------
(* The calls *)

(* The parser p between two bytes or calls, when nothing went wrong.       *)
Calm(p, l) ==
    /\ p.nread <= max_header_size
    /\ p.state = "s_chunk_size_start" => p.nread = 0
    /\ FlagInv(p.state, p.header_state, p.flags, p.te)
    /\ LengthInv(p.state, p.content_length)
    /\ OrderInv(p.state, p.flags, l)

(* Bytes wait to be counted only inside a header field or value.           *)
RunInv(p) == p.run > 0 => p.state \in LoopStates

(* The parser p takes the next byte of a call.                             *)
Active(p, l) ==
    /\ p \in Parser
    /\ Ok(p) /\ p.left = FALSE
    /\ RunInv(p)
    /\ Calm(p, l)
    /\ MarkInv(p.state, p.mark)

(* What one byte leaves behind.                                            *)
AfterByte(p, q, l) ==
    /\ q \in Parser
    /\ q.errno # "ASSERT"
    /\ Linked(l, q.out)
    /\ Returned(q) => q.mark = NoMarks
    /\ RunInv(q)
    /\ Ok(q) => Calm(q, Now(l, q.out))
    /\ ~Returned(q) => MarkInv(q.state, q.mark)
    /\ Ok(q) => /\ \A k \in DataKinds \ {"body"} :
                      Held(q.mark, k) = Held(p.mark, k) - Del(q.out, k)
                                        + IF ItemOf(q.state) = k THEN 1 ELSE 0
                /\ Held(q.mark, "body") = Held(p.mark, "body") - Del(q.out, "body")
                                          + IF p.state \in ReadingStates THEN 1 ELSE 0
    /\ Ok(q) => WantNext(p, q, Expected(p)) = Expected(q)
    /\ Now(l, q.out) \in Completes => WantNext(p, q, Expected(p)) = 0

(* p++: what is marked covers one byte more.                               *)
LEMMA AdvanceMarks ==
    ASSUME NEW m \in Marks
    PROVE  LET n == [header_field |-> Advance(m.header_field),
                     header_value |-> Advance(m.header_value),
                     url |-> Advance(m.url), body |-> Advance(m.body),
                     status |-> Advance(m.status)]
           IN  /\ n \in Marks
               /\ \A k \in DataKinds :
                     /\ n[k] = NoMark <=> m[k] = NoMark
                     /\ Held(n, k) = IF m[k] = NoMark THEN 0 ELSE m[k] + 1
<1> DEFINE n == [header_field |-> Advance(m.header_field),
                 header_value |-> Advance(m.header_value),
                 url |-> Advance(m.url), body |-> Advance(m.body),
                 status |-> Advance(m.status)]
<1>1. \A k \in DataKinds : n[k] = Advance(m[k])
  BY DEF DataKinds
<1>2. DOMAIN n = DataKinds /\ n = [k \in DOMAIN n |-> n[k]]
  BY DEF DataKinds
<1>3. \A k \in DataKinds : m[k] \in {NoMark} \cup Nat
  BY DEF Marks
<1>4. \A k \in DataKinds : /\ Advance(m[k]) \in {NoMark} \cup Nat
                           /\ Advance(m[k]) = NoMark <=> m[k] = NoMark
                           /\ m[k] # NoMark => Advance(m[k]) = m[k] + 1
  BY <1>3 DEF Advance, NoMark
<1> HIDE DEF n
<1>5. n \in Marks
  BY <1>1, <1>2, <1>4 DEF Marks
<1>6. \A k \in DataKinds : /\ n[k] = NoMark <=> m[k] = NoMark
                           /\ Held(n, k) = IF m[k] = NoMark THEN 0 ELSE m[k] + 1
  BY <1>1, <1>4 DEF Held
<1> QED
  BY <1>5, <1>6 DEF n

(* The parser as it comes to the switch.                                   *)
Read(p, f) ==
    LET new == [p EXCEPT !.out = <<>>, !.fail = f]
    IN  IF p.state \in BodyStates \/ p.run > 0 THEN new ELSE COUNT_HEADER_SIZE(new, 1)

(* A parser that is active is ready for the switch, or the header is too   *)
(* long.                                                                   *)
LEMMA ReadEffect ==
    ASSUME NEW l, NEW p, Active(p, l), NEW f \in Fails, NEW r, r = Read(p, f)
    PROVE  /\ r \in Parser /\ r.out = <<>>
           /\ r.state = p.state /\ r.content_length = p.content_length
           /\ r.mark = p.mark
           /\ \/ Ready(r, l)
              \/ r.errno = "HEADER_OVERFLOW"
<1>1. /\ p \in Parser /\ Ok(p) /\ p.left = FALSE /\ Calm(p, l) /\ MarkInv(p.state, p.mark)
  BY DEF Active
<1>0. PICK new : new = [p EXCEPT !.out = <<>>, !.fail = f]
  OBVIOUS
<1>2. /\ new \in Parser /\ new.out = <<>> /\ new.errno = p.errno /\ new.left = p.left
  BY <1>0, <1>1, NoneOut DEF Parser
<1>3. /\ new.state = p.state /\ new.nread = p.nread /\ new.mark = p.mark
      /\ new.content_length = p.content_length
  BY <1>0, <1>1 DEF Parser
<1>4. new.header_state = p.header_state /\ new.flags = p.flags /\ new.te = p.te
  BY <1>0, <1>1 DEF Parser
<1>5. CASE p.state \in BodyStates \/ p.run > 0
  <2>1. p.state # "s_chunk_size_start"
    BY <1>5 DEF BodyStates, Active, RunInv, LoopStates
  <2>2. Ready(new, l)
    BY <1>1, <1>2, <1>3, <1>4, <2>1 DEF Ready, Calm, Ok
  <2> QED
    BY <1>0, <1>2, <1>3, <1>5, <2>2 DEF Read
<1>6. CASE ~(p.state \in BodyStates \/ p.run > 0)
  <2>1. p.nread \in Counts /\ p.nread <= max_header_size
    BY <1>1 DEF Parser, Calm
  <2>2. PICK n \in Counts : n = p.nread + 1
    BY <2>1, ParserBounds DEF Counts
  <2>3. PICK c : c = [new EXCEPT !.nread = n]
    OBVIOUS
  <2>4. /\ c \in Parser /\ c.nread = n /\ c.out = <<>> /\ c.errno = p.errno
        /\ c.left = p.left
    BY <1>2, <2>3 DEF Parser
  <2>5. /\ c.state = p.state /\ c.mark = p.mark /\ c.content_length = p.content_length
    BY <1>2, <1>3, <2>3 DEF Parser
  <2>6. c.header_state = p.header_state /\ c.flags = p.flags /\ c.te = p.te
    BY <1>2, <1>4, <2>3 DEF Parser
  <2>7. r = IF n > max_header_size THEN SET_ERRNO(c, "HEADER_OVERFLOW") ELSE c
    <3>1. c = [new EXCEPT !.nread = @ + 1]
      BY <1>3, <2>2, <2>3
    <3> QED
      BY <1>0, <1>6, <2>4, <3>1 DEF COUNT_HEADER_SIZE, Read
  <2>8. CASE n > max_header_size
    <3>1. r = SET_ERRNO(c, "HEADER_OVERFLOW") /\ "HEADER_OVERFLOW" \in Errnos
      BY <2>7, <2>8 DEF Errnos, Refusals
    <3>2. r \in Parser /\ r.out = c.out /\ r.errno = "HEADER_OVERFLOW"
      BY <2>4, <3>1 DEF SET_ERRNO, Parser
    <3>3. r.state = c.state /\ r.content_length = c.content_length /\ r.mark = c.mark
      BY <2>4, <3>1 DEF SET_ERRNO, Parser
    <3> QED
      BY <2>4, <2>5, <3>2, <3>3
  <2>9. CASE ~(n > max_header_size)
    <3>1. r = c
      BY <2>7, <2>9
    <3>2. c.nread <= max_header_size
      BY <2>1, <2>2, <2>4, <2>9, ParserBounds DEF Counts
    <3>3. p.state = "s_chunk_size_start" => c.nread = 1
      BY <1>1, <2>2, <2>4 DEF Calm
    <3>4. Ready(c, l)
      BY <1>1, <2>4, <2>5, <2>6, <3>2, <3>3 DEF Ready, Calm, Ok
    <3> QED
      BY <2>4, <2>5, <3>1, <3>4
  <2> QED
    BY <2>8, <2>9
<1> QED
  BY <1>5, <1>6

(* What is delivered is a number of bytes.                                 *)
LEMMA DelNat ==
    ASSUME NEW out \in Outs, NEW k
    PROVE  Del(out, k) \in Nat
<1>0. \A i \in DOMAIN out : out[i] \in EventSet
  BY DEF Outs
<1>1. \A x \in EventsOn(out, k) : x.len \in Nat
  BY <1>0 DEF EventsOn, EventsOf, EventSet
<1>2. CASE EventsOn(out, k) = {}
  BY <1>2 DEF Del, LenOf
<1>3. CASE EventsOn(out, k) # {}
  BY <1>1, <1>3 DEF Del, LenOf
<1> QED
  BY <1>2, <1>3

(* Behind the end of a message or chunk nothing is wanted.                 *)
LEMMA NothingWanted ==
    ASSUME NEW l \in Completes, NEW p, Active(p, l)
    PROVE  /\ p.state \in IdleStates \cup SizeStates
           /\ p.state # "s_body_identity" /\ p.state # "s_body_identity_eof"
           /\ Expected(p) = 0
<1>1. p \in Parser /\ OrderInv(p.state, p.flags, l) /\ MarkInv(p.state, p.mark)
  BY DEF Active, Calm
<1>2. p.state \in States
  BY <1>1 DEF Parser
<1>3. p.state \in IdleStates \cup SizeStates
  <2>1. l \in {"chunk_complete", "message_complete"}
    BY DEF Completes
  <2>2. /\ p.state \notin BeginStates /\ p.state \notin UrlStates
        /\ p.state \notin VersionStates /\ p.state \notin LineStates
        /\ p.state \notin DiscardStates /\ p.state \notin DataStates
        /\ p.state \notin PlainStates
        /\ p.state \notin {"s_res_status", "s_res_line_almost_done", "s_header_field",
                           "s_header_value", "s_header_almost_done",
                           "s_header_value_lws", "s_headers_done", "s_message_done",
                           "s_header_value_start"}
    BY <1>1, <2>1 DEF OrderInv
  <2> QED
    BY <1>2, <2>2 DEF States, BodyStates, BeginStates, VersionStates, LineStates,
       DiscardStates, DataStates, PlainStates, IdleStates, SizeStates
<1>4. p.state \notin PlainStates \cup {"s_chunk_data", "s_chunk_data_almost_done"}
  BY <1>3 DEF IdleStates, SizeStates, PlainStates
<1>5. Held(p.mark, "body") = 0
  BY <1>1, <1>4 DEF MarkInv, Held
<1> QED
  BY <1>3, <1>4, <1>5 DEF Expected, PlainStates

(* NoMarks marks nothing.                                                  *)
LEMMA NoMarksType ==
    /\ NoMarks \in Marks
    /\ \A k \in DataKinds : NoMarks[k] = NoMark /\ Held(NoMarks, k) = 0
  BY DEF NoMarks, Marks, Held

(* The parser at the end of a byte or call.                                *)
Rested(c, n, m) == [c EXCEPT !.fail = "none", !.run = n, !.mark = m]

(* It has new marks and a new run.                                         *)
LEMMA MarksOf ==
    ASSUME NEW c \in Parser, NEW m \in Marks, NEW n \in Nat,
           NEW q, q = Rested(c, n, m)
    PROVE  /\ q \in Parser /\ q.mark = m /\ q.run = n /\ SameHead(c, q)
           /\ q.errno = c.errno /\ q.out = c.out
           /\ Returned(q) <=> Returned(c)
<1>1. "none" \in Fails /\ n \in Counts
  BY DEF Fails, Counts
<1>2. q \in Parser /\ q.mark = m /\ q.run = n
  BY <1>1 DEF Rested, Parser
<1>3. q.errno = c.errno /\ q.out = c.out /\ q.left = c.left
  BY DEF Rested, Parser
<1>4. SameHead(c, q)
  BY DEF Rested, Parser, SameHead
<1>5. Returned(q) <=> Returned(c)
  BY <1>3 DEF Returned, Ok
<1> QED
  BY <1>2, <1>3, <1>4, <1>5

(* One turn of the loop.                                                   *)
LEMMA ConsumeEffect ==
    ASSUME NEW l, NEW p, Active(p, l), NEW f \in Fails, NEW ch
    PROVE  AfterByte(p, Consume(p, ch, f), l)
<1>2. PICK r : r = Read(p, f)
  OBVIOUS
<1>3. /\ r \in Parser /\ r.out = <<>>
      /\ r.state = p.state /\ r.content_length = p.content_length /\ r.mark = p.mark
      /\ Ready(r, l) \/ r.errno = "HEADER_OVERFLOW"
  BY <1>2, ReadEffect
<1>4. PICK c : c = IF Ok(r) THEN Step(r, ch) ELSE r
  OBVIOUS
<1>5. PICK m : m = IF Returned(c) THEN NoMarks
                   ELSE [header_field |-> Advance(c.mark.header_field),
                         header_value |-> Advance(c.mark.header_value),
                         url |-> Advance(c.mark.url), body |-> Advance(c.mark.body),
                         status |-> Advance(c.mark.status)]
  OBVIOUS
<1>0. PICK n \in Nat : n = IF ~Returned(c) /\ c.state \in LoopStates \cap {p.state}
                           THEN p.run + 1 ELSE 0
  BY DEF Active, Parser, Counts
<1>6. PICK q : q = Rested(c, n, m)
  OBVIOUS
<1>7. Consume(p, ch, f) = q
  BY <1>0, <1>2, <1>4, <1>5, <1>6 DEF Consume, Read, Rested
<1>8. Expected(p) = Expected(r) /\ \A x, w : WantNext(p, x, w) = WantNext(r, x, w)
  BY <1>3 DEF Expected, WantNext
<1>9. ASSUME l \in Completes
      PROVE  /\ p.state \in IdleStates \cup SizeStates
             /\ p.state # "s_body_identity" /\ p.state # "s_body_identity_eof"
             /\ Expected(p) = 0
  BY <1>9, NothingWanted
<1>10. CASE r.errno = "HEADER_OVERFLOW"
  <2>1. c = r /\ ~Ok(r) /\ Returned(c)
    BY <1>4, <1>10 DEF Ok, Returned
  <2>2. m = NoMarks /\ m \in Marks
    BY <1>5, <2>1, NoMarksType
  <2>3. /\ q \in Parser /\ q.mark = NoMarks /\ q.run = n /\ SameHead(c, q)
        /\ q.errno = "HEADER_OVERFLOW" /\ q.out = <<>> /\ Returned(q)
    <3>1. c \in Parser /\ c.errno = "HEADER_OVERFLOW" /\ c.out = <<>> /\ Returned(c)
      BY <1>3, <1>10, <2>1
    <3> QED
      BY <1>0, <1>6, <2>2, <3>1, MarksOf
  <2>4. q.state = p.state /\ ~Ok(q)
    BY <1>3, <2>1, <2>3 DEF SameHead, Ok
  <2>5. l \in Completes => WantNext(p, q, Expected(p)) = 0
    BY <1>9, <2>3, <2>4, NoneOut DEF WantNext
  <2>6. RunInv(q)
    BY <1>0, <2>1, <2>3 DEF RunInv
  <2> QED
    BY <1>7, <2>3, <2>4, <2>5, <2>6, NoneOut DEF AfterByte
<1>11. CASE Ready(r, l)
  <2>1. c = Step(r, ch) /\ Fin(r, c, l)
    BY <1>4, <1>11, ReadyFacts, StepFin
  <2>2. /\ c \in Parser /\ c.errno # "ASSERT" /\ Linked(l, c.out) /\ c.mark \in Marks
    BY <2>1 DEF Fin, Parser
  <2>3. m \in Marks
    BY <1>5, <2>2, AdvanceMarks, NoMarksType
  <2>4. /\ q \in Parser /\ q.mark = m /\ q.run = n /\ SameHead(c, q)
        /\ q.errno = c.errno /\ q.out = c.out /\ (Returned(q) <=> Returned(c))
    BY <1>6, <2>2, <2>3, MarksOf
  <2>5. /\ q.state = c.state /\ q.content_length = c.content_length /\ (Ok(q) <=> Ok(c))
        /\ \A x : WantNext(p, q, x) = WantNext(p, c, x)
    BY <2>4 DEF SameHead, Ok, WantNext
  <2>6. ASSUME Ok(c)
        PROVE  \A k \in DataKinds :
                  /\ m[k] = NoMark <=> c.mark[k] = NoMark
                  /\ Held(m, k) = IF c.mark[k] = NoMark THEN 0 ELSE c.mark[k] + 1
    <3>1. CASE c.left = FALSE
      <4>1. ~Returned(c)
        BY <2>6, <3>1 DEF Returned
      <4> QED
        BY <1>5, <2>2, <4>1, AdvanceMarks
    <3>2. CASE c.left # FALSE
      <4>1. c.left = TRUE /\ Returned(c)
        BY <2>2, <3>2 DEF Parser, Returned
      <4>2. c.state \in IdleStates /\ MarkInv(c.state, c.mark)
        BY <2>1, <2>6, <4>1 DEF Fin, Resting
      <4>3. c.state \in HeadStates /\ ItemOf(c.state) = "none" /\ "none" \notin DataKinds
        BY <4>2, ItemFacts DEF HeadStates, IdleStates, UrlStates, DataKinds
      <4>4. \A k \in DataKinds : c.mark[k] = NoMark
        BY <2>2, <4>2, <4>3, HeadMarks
      <4> QED
        BY <1>5, <4>1, <4>4, NoMarksType
    <3> QED
      BY <3>1, <3>2
  <2>7. Returned(q) => q.mark = NoMarks
    BY <1>5, <2>4
  <2>8. ASSUME Ok(c)
        PROVE  Calm(q, Now(l, q.out)) /\ MarkInv(q.state, q.mark)
    <3>1. Resting(c, Now(l, c.out))
      BY <2>1, <2>8 DEF Fin
    <3>2. MarkInv(q.state, q.mark)
      <4>1. "body" \in DataKinds
        BY DEF DataKinds
      <4> QED
        BY <2>4, <2>5, <2>6, <2>8, <3>1, <4>1 DEF Resting, MarkInv
    <3>3. Calm(q, Now(l, q.out))
      BY <2>4, <3>1 DEF Resting, Calm, SameHead
    <3> QED
      BY <3>2, <3>3
  <2>9. ASSUME Ok(c)
        PROVE  /\ \A k \in DataKinds \ {"body"} :
                     Held(q.mark, k) = Held(p.mark, k) - Del(q.out, k)
                                       + IF ItemOf(q.state) = k THEN 1 ELSE 0
               /\ Held(q.mark, "body") = Held(p.mark, "body") - Del(q.out, "body")
                                         + IF p.state \in ReadingStates THEN 1 ELSE 0
    <3>1. MarkInv(c.state, c.mark) /\ Moved(r, c)
      BY <2>1, <2>9 DEF Fin, Resting
    <3>2. \A k \in DataKinds : /\ c.mark[k] \in {NoMark} \cup Nat
                               /\ Held(p.mark, k) \in Int
                               /\ Del(c.out, k) \in Int
      <4>1. p.mark \in Marks /\ c.out \in Outs
        BY <2>2, <1>3 DEF Parser
      <4> QED
        BY <2>2, <4>1, DelNat DEF Marks, Held, NoMark
    <3>3. ASSUME NEW k \in DataKinds \ {"body"}
          PROVE  Held(q.mark, k) = Held(p.mark, k) - Del(q.out, k)
                                   + IF ItemOf(q.state) = k THEN 1 ELSE 0
      <4>1. Del(c.out, k) + Held(c.mark, k) = Held(p.mark, k)
        BY <1>3, <3>1 DEF Moved
      <4>2. c.mark[k] # NoMark <=> ItemOf(q.state) = k
        BY <2>5, <3>1 DEF MarkInv
      <4>3. Held(q.mark, k) = IF c.mark[k] = NoMark THEN 0 ELSE c.mark[k] + 1
        BY <2>4, <2>6, <2>9
      <4> QED
        BY <2>4, <3>2, <4>1, <4>2, <4>3 DEF Held, NoMark
    <3>4. Held(q.mark, "body") = Held(p.mark, "body") - Del(q.out, "body")
                                 + IF p.state \in ReadingStates THEN 1 ELSE 0
      <4>1. "body" \in DataKinds
        BY DEF DataKinds
      <4>2. IF p.state \in ReadingStates /\ c.mark["body"] = NoMark
            THEN Del(c.out, "body") = Held(p.mark, "body") + 1
            ELSE /\ Del(c.out, "body") + Held(c.mark, "body") = Held(p.mark, "body")
                 /\ p.state \in ReadingStates \/ c.mark["body"] = NoMark
        BY <1>3, <3>1 DEF Moved
      <4>3. Held(q.mark, "body") = IF c.mark["body"] = NoMark THEN 0
                                   ELSE c.mark["body"] + 1
        BY <2>4, <2>6, <2>9, <4>1
      <4> QED
        BY <2>4, <3>2, <4>1, <4>2, <4>3 DEF Held, NoMark
    <3> QED
      BY <3>3, <3>4
  <2>10. ASSUME Ok(c)
         PROVE  WantNext(p, q, Expected(p)) = Expected(q)
    <3>1. WantNext(p, q, Expected(p)) = Due(c)
      BY <1>8, <2>1, <2>5, <2>10 DEF Fin
    <3>2. Held(q.mark, "body") = IF c.mark["body"] = NoMark THEN 0
                                 ELSE c.mark["body"] + 1
      BY <2>4, <2>6, <2>10 DEF DataKinds
    <3>3. Due(c) = Expected(q)
      BY <2>5, <3>2 DEF Due, Expected
    <3> QED
      BY <3>1, <3>3
  <2>11. Now(l, q.out) \in Completes => WantNext(p, q, Expected(p)) = 0
    <3>1. CASE c.out # <<>>
      BY <1>8, <2>1, <2>4, <2>5, <3>1 DEF Fin
    <3>2. CASE c.out = <<>> /\ l \in Completes
      <4>1. c.state # "s_body_identity"
        BY <1>3, <1>9, <1>11, <2>1, <3>2, NoBodyYet
      <4> QED
        BY <1>9, <2>4, <2>5, <3>2, <4>1, NoneOut DEF WantNext
    <3> QED
      BY <2>4, <3>1, <3>2, NoneOut
  <2>12. RunInv(q)
    BY <1>0, <2>4, <2>5 DEF RunInv
  <2> QED
    BY <1>7, <2>2, <2>4, <2>5, <2>7, <2>8, <2>9, <2>10, <2>11, <2>12 DEF AfterByte, Returned
<1> QED
  BY <1>3, <1>10, <1>11

(* The callbacks of q, and what is wanted behind them.                     *)
Shown(p, q, l) ==
    /\ q \in Parser
    /\ q.errno # "ASSERT"
    /\ Linked(l, q.out)
    /\ Ok(q) => WantNext(p, q, Expected(p)) = Expected(q)
    /\ Now(l, q.out) \in Completes => WantNext(p, q, Expected(p)) = 0

(* A new call goes on with the item that the last one was in.              *)
LEMMA StartCallEffect ==
    ASSUME NEW l, NEW p \in Parser, Ok(p), Calm(p, l), p.mark = NoMarks, RunInv(p)
    PROVE  LET q == StartCall(p)
           IN  /\ Active(q, l) /\ q.out = <<>>
               /\ Expected(q) = Expected(p)
               /\ \A k \in DataKinds : Held(q.mark, k) = 0
<1>1. PICK m : m = [k \in DataKinds |-> IF k = ItemOf(p.state) THEN 0 ELSE NoMark]
  OBVIOUS
<1>2. /\ m \in Marks
      /\ \A k \in DataKinds : Held(m, k) = 0 /\ (m[k] # NoMark <=> ItemOf(p.state) = k)
  BY <1>1 DEF Marks, Held, NoMark
<1>3. PICK q : q = [p EXCEPT !.out = <<>>, !.left = FALSE, !.mark = m]
  OBVIOUS
<1>4. q = StartCall(p)
  BY <1>1, <1>3 DEF StartCall
<1>5. q \in Parser /\ q.out = <<>> /\ q.left = FALSE /\ q.mark = m
  BY <1>2, <1>3, NoneOut DEF Parser
<1>6. q.errno = p.errno /\ q.state = p.state /\ q.nread = p.nread /\ q.run = p.run
  BY <1>3 DEF Parser
<1>7. /\ q.content_length = p.content_length /\ q.header_state = p.header_state
      /\ q.flags = p.flags /\ q.te = p.te
  BY <1>3 DEF Parser
<1>8. "body" \in DataKinds /\ ItemOf(p.state) # "body"
  BY DEF DataKinds, ItemOf
<1>9. MarkInv(q.state, q.mark)
  BY <1>2, <1>5, <1>6, <1>8 DEF MarkInv
<1>10. Active(q, l)
  BY <1>5, <1>6, <1>7, <1>9 DEF Active, Calm, Ok, RunInv
<1>11. Expected(q) = Expected(p)
  <2>1. Held(q.mark, "body") = 0 /\ Held(p.mark, "body") = 0
    BY <1>2, <1>5, <1>8, NoMarksType
  <2> QED
    BY <1>6, <1>7, <2>1 DEF Expected
<1> QED
  BY <1>2, <1>4, <1>5, <1>10, <1>11

(* At most one item is marked.                                             *)
LEMMA AtMostOne ==
    ASSUME NEW l, NEW p, Active(p, l)
    PROVE  \/ Marked(p) = {}
           \/ \E k \in DataKinds :
                 /\ Marked(p) = {k}
                 /\ l \in Follows[k]
                 /\ OrderInv(p.state, p.flags, k)
                 /\ k = "body" => p.state \in PlainStates \cup {"s_chunk_data",
                                                 "s_chunk_data_almost_done"}
<1>1. MarkInv(p.state, p.mark) /\ OrderInv(p.state, p.flags, l)
  BY DEF Active, Calm
<1>2. CASE p.mark["body"] # NoMark
  <2>1. p.state \in PlainStates \cup {"s_chunk_data", "s_chunk_data_almost_done"}
    BY <1>1, <1>2 DEF MarkInv
  <2>2. p.state \in ChunkStates \cup PlainStates /\ p.state \notin SizeStates
    BY <2>1 DEF ChunkStates, PlainStates, SizeStates
  <2>3. l \in Follows["body"] /\ OrderInv(p.state, p.flags, "body")
    BY <1>1, <2>2, BodyOrder DEF Follows
  <2>4. ItemOf(p.state) = "none" /\ "none" \notin DataKinds /\ "body" \in DataKinds
    BY <2>2, BodyStateFacts DEF DataKinds
  <2>5. Marked(p) = {"body"}
    BY <1>1, <1>2, <2>4 DEF Marked, MarkInv
  <2> QED
    BY <2>1, <2>3, <2>4, <2>5
<1>3. CASE p.mark["body"] = NoMark /\ ItemOf(p.state) = "none"
  <2>1. "none" \notin DataKinds
    BY DEF DataKinds
  <2> QED
    BY <1>1, <1>3, <2>1 DEF Marked, MarkInv
<1>4. CASE p.mark["body"] = NoMark /\ ItemOf(p.state) # "none"
  <2>1. PICK k \in DataKinds \ {"body"} :
           /\ ItemOf(p.state) = k
           /\ l \in Follows[k] /\ OrderInv(p.state, p.flags, k)
    <3>1. CASE p.state = "s_header_field"
      BY <1>1, <3>1, ItemFacts DEF OrderInv, Follows, DataKinds, IdleStates, BeginStates,
         UrlStates, VersionStates, LineStates, DiscardStates, SizeStates, DataStates,
         PlainStates
    <3>2. CASE p.state = "s_header_value"
      BY <1>1, <3>2, ItemFacts DEF OrderInv, Follows, DataKinds, IdleStates, BeginStates,
         UrlStates, VersionStates, LineStates, DiscardStates, SizeStates, DataStates,
         PlainStates
    <3>3. CASE p.state = "s_res_status"
      BY <1>1, <3>3, ItemFacts DEF OrderInv, Follows, DataKinds, IdleStates, BeginStates,
         UrlStates, VersionStates, LineStates, DiscardStates, SizeStates, DataStates,
         PlainStates
    <3>4. CASE p.state \in UrlStates
      <4>1. ItemOf(p.state) = "url" /\ l \in Follows["url"]
        BY <1>1, <3>4, ItemFacts DEF OrderInv, Follows
      <4>2. OrderInv(p.state, p.flags, "url")
        BY <3>4 DEF OrderInv, IdleStates, BeginStates,
           UrlStates, VersionStates, LineStates, DiscardStates, SizeStates, DataStates,
           PlainStates
      <4> QED
        BY <4>1, <4>2 DEF DataKinds
    <3> QED
      BY <1>4, <3>1, <3>2, <3>3, <3>4, ItemFacts
  <2>2. Marked(p) = {k}
    BY <1>1, <1>4, <2>1 DEF Marked, MarkInv
  <2> QED
    BY <2>1, <2>2
<1> QED
  BY <1>2, <1>3, <1>4

(* What is marked is delivered.                                            *)
LEMMA FlushEffect ==
    ASSUME NEW l, NEW p, Active(p, l), p.out = <<>>,
           NEW q, q = Rested(Flush(p), 0, NoMarks)
    PROVE  /\ Shown(p, q, l)
           /\ q.mark = NoMarks /\ q.run = 0
           /\ Ok(q) => Calm(q, Now(l, q.out))
           /\ Ok(q) => \A k \in DataKinds : Del(q.out, k) = Held(p.mark, k)
<1>1. /\ p \in Parser /\ Ok(p) /\ Calm(p, l) /\ MarkInv(p.state, p.mark) /\ p.mark \in Marks
  BY DEF Active, Parser
<1>6. Expected(p) \in Int
  <2>1. p.mark["body"] \in Int /\ p.content_length \in Int
    BY <1>1 DEF Marks, DataKinds, NoMark, Parser, Lengths
  <2> QED
    BY <2>1 DEF Expected, Held
<1>7. CASE Marked(p) = {}
  <2>1. \A k \in DataKinds : p.mark[k] = NoMark /\ Held(p.mark, k) = 0
    BY <1>7 DEF Marked, Held
  <2>2. ~(Cardinality(Marked(p)) > 1)
    <3>1. Cardinality(Marked(p)) = 0
      BY <1>7, FS_EmptySet
    <3> QED
      BY <3>1
  <2>3. q = Rested(p, 0, NoMarks)
    BY <1>7, <2>2, Zenon DEF Flush
  <2>4. /\ q \in Parser /\ q.mark = NoMarks /\ q.run = 0 /\ SameHead(p, q)
        /\ q.errno = p.errno /\ q.out = <<>>
    BY <1>1, <2>3, MarksOf, NoMarksType
  <2>5. SameHead(p, q)
    BY <2>4 DEF SameHead
  <2>6. Calm(q, l)
    BY <1>1, <2>5 DEF Calm, SameHead
  <2>7. WantNext(p, q, Expected(p)) = Expected(p)
    BY <1>6, <2>4, <2>5, NoneOut DEF WantNext, SameHead
  <2>8. Expected(q) = Expected(p)
    <3>1. Held(q.mark, "body") = 0 /\ Held(p.mark, "body") = 0
      BY <2>1, <2>4, NoMarksType DEF DataKinds
    <3> QED
      BY <2>5, <3>1 DEF Expected, SameHead
  <2>9. l \in Completes => Expected(p) = 0
    BY NothingWanted
  <2>10. Shown(p, q, l)
    BY <1>1, <2>4, <2>7, <2>8, <2>9, NoneOut DEF Shown, Ok
  <2> QED
    BY <2>1, <2>4, <2>6, <2>10, NoneOut
<1>8. ASSUME NEW k \in DataKinds, Marked(p) = {k}, l \in Follows[k],
             OrderInv(p.state, p.flags, k),
             k = "body" => p.state \in PlainStates \cup {"s_chunk_data",
                                                 "s_chunk_data_almost_done"}
      PROVE  /\ Shown(p, q, l)
             /\ q.mark = NoMarks /\ q.run = 0
             /\ Ok(q) => Calm(q, Now(l, q.out))
             /\ Ok(q) => \A j \in DataKinds : Del(q.out, j) = Held(p.mark, j)
  <2>1. /\ p.mark[k] # NoMark /\ p.mark[k] = Held(p.mark, k)
        /\ \A j \in DataKinds : j # k => p.mark[j] = NoMark /\ Held(p.mark, j) = 0
    BY <1>8 DEF Marked, Held
  <2>2. ~(Cardinality(Marked(p)) > 1) /\ Marked(p) # {}
    <3>1. Cardinality(Marked(p)) = 1
      BY <1>8, FS_Singleton
    <3> QED
      BY <1>8, <3>1
  <2>3. (CHOOSE j \in DataKinds : j \in Marked(p)) = k
    BY <1>8
  <2>4. PICK c : c = CALLBACK_DATA(p, k)
    OBVIOUS
  <2>5. q = Rested(c, 0, NoMarks)
    BY <2>2, <2>3, <2>4, Zenon DEF Flush
  <2>6. MayCall(l, p, k)
    BY <1>1, <1>8, NoneOut DEF MayCall, Ok
  <2>7. AfterCall(l, p, c, k, Held(p.mark, k), Unmarked(p.mark, k))
    <3>1. PICK z \in 0 .. 1 : z = 0
      OBVIOUS
    <3>2. c = CALLBACK_DATA_(p, k, z)
      BY <2>4, <3>1 DEF CALLBACK_DATA
    <3>3. AfterCall(l, p, c, k, p.mark[k] + z, Unmarked(p.mark, k))
      BY <1>1, <2>1, <2>6, <3>2, DataEffect
    <3>4. p.mark[k] + z = Held(p.mark, k)
      BY <1>1, <2>1, <3>1 DEF Marks, NoMark
    <3> QED
      BY <1>1, <3>3, <3>4
  <2>8. /\ c \in Parser /\ c.errno \in {"OK", "CB"} /\ SameHead(p, c)
        /\ OnSet(c.out) = {k} /\ Now(l, c.out) = k /\ Linked(l, c.out)
        /\ Del(c.out, k) = Held(p.mark, k)
        /\ \A j \in DataKinds : j # k => Del(c.out, j) = 0
    BY <1>1, <2>7, NoneOut DEF AfterCall, OneMore
  <2>9. /\ q \in Parser /\ q.mark = NoMarks /\ q.run = 0 /\ SameHead(c, q)
        /\ q.errno = c.errno /\ q.out = c.out
    BY <2>5, <2>8, MarksOf, NoMarksType
  <2>10. SameHead(p, q)
    BY <2>8, <2>9 DEF SameHead
  <2>11. Calm(q, k)
    BY <1>1, <1>8, <2>10 DEF Calm, SameHead
  <2>12. \A j \in DataKinds : Del(q.out, j) = Held(p.mark, j)
    BY <2>1, <2>8, <2>9
  <2>13. "chunk_header" \notin OnSet(q.out) /\ k \notin Completes
    BY <2>8, <2>9 DEF DataKinds, Completes
  <2>14. WantNext(p, q, Expected(p)) = Expected(q)
    <3>1. q.state = p.state /\ q.content_length = p.content_length
      BY <2>10 DEF SameHead
    <3>2. "body" \in DataKinds
      BY DEF DataKinds
    <3>3. Held(q.mark, "body") = 0 /\ Del(q.out, "body") = Held(p.mark, "body")
      BY <2>9, <2>12, <3>2, NoMarksType
    <3>4. Held(p.mark, "body") \in Int /\ p.content_length \in Int
      BY <1>1, <3>2 DEF Held, Marks, NoMark, Parser, Lengths
    <3>5. CASE p.state = "s_body_identity_eof"
      BY <2>13, <3>1, <3>3, <3>5 DEF WantNext, Expected
    <3>6. CASE p.state # "s_body_identity_eof"
      <4>1. PICK x \in Int : x = Held(p.mark, "body")
        BY <3>4
      <4>2. PICK y \in Int : y = IF p.state \in {"s_body_identity", "s_chunk_data"}
                                 THEN p.content_length ELSE 0
        BY <3>4
      <4>3. Expected(p) = y + x /\ Expected(q) = y + 0
        BY <3>1, <3>3, <3>6, <4>1, <4>2 DEF Expected
      <4>4. WantNext(p, q, Expected(p)) = Expected(p) - x
        BY <2>13, <3>1, <3>3, <3>6, <4>1 DEF WantNext
      <4> QED
        BY <4>3, <4>4
    <3> QED
      BY <3>5, <3>6
  <2>15. Shown(p, q, l)
    BY <2>8, <2>9, <2>13, <2>14 DEF Shown
  <2> QED
    BY <2>8, <2>9, <2>11, <2>12, <2>15
<1> QED
  BY <1>7, <1>8, AtMostOne

(* The end of a buffer: a loop that it ends is counted, the item goes out. *)
LEMMA FinishCallEffect ==
    ASSUME NEW l, NEW p, Active(p, l), NEW f \in Fails
    PROVE  LET q == FinishCall(p, f)
           IN  /\ Shown(p, q, l)
               /\ q.mark = NoMarks /\ q.run = 0
               /\ Ok(q) => Calm(q, Now(l, q.out))
               /\ Ok(q) => \A k \in DataKinds : Del(q.out, k) = Held(p.mark, k)
<1>1. /\ p \in Parser /\ Ok(p) /\ p.left = FALSE /\ Calm(p, l) /\ MarkInv(p.state, p.mark)
      /\ RunInv(p) /\ p.run \in Nat
  BY DEF Active, Parser, Counts
<1>2. PICK new : new = [p EXCEPT !.out = <<>>, !.fail = f]
  OBVIOUS
<1>3. /\ new \in Parser /\ new.out = <<>> /\ new.errno = p.errno /\ new.left = p.left
  BY <1>1, <1>2, NoneOut DEF Parser
<1>4. /\ new.state = p.state /\ new.nread = p.nread /\ new.mark = p.mark
      /\ new.content_length = p.content_length
  BY <1>1, <1>2 DEF Parser
<1>5. /\ new.header_state = p.header_state /\ new.flags = p.flags /\ new.te = p.te
      /\ new.run = p.run
  BY <1>1, <1>2 DEF Parser
<1>6. Active(new, l)
  BY <1>1, <1>3, <1>4, <1>5 DEF Active, Calm, RunInv, Ok
<1>7. PICK r : r = IF p.run > 0 THEN COUNT_HEADER_SIZE(new, p.run - 1) ELSE new
  OBVIOUS
<1>8. /\ r \in Parser /\ r.out = <<>> /\ r.mark = p.mark /\ r.state = p.state
      /\ r.content_length = p.content_length
      /\ \/ Active(r, l)
         \/ r.errno = "HEADER_OVERFLOW"
  <2>1. CASE ~(p.run > 0)
    BY <1>3, <1>4, <1>6, <1>7, <2>1
  <2>2. CASE p.run > 0
    <3>1. Ready(new, l) /\ new.state \in LoopStates
      <4>1. p.state \in LoopStates /\ p.state # "s_chunk_size_start"
        BY <1>1, <2>2 DEF RunInv, LoopStates
      <4> QED
        BY <1>3, <1>4, <1>6, <4>1 DEF Ready, Active, Calm
    <3>2. PICK n \in Nat : n = p.run - 1
      BY <1>1, <2>2
    <3>3. r = COUNT_HEADER_SIZE(new, n)
      BY <1>7, <2>2, <3>2
    <3>4. /\ r \in Parser /\ r.out = <<>> /\ r.state = new.state
          /\ Ok(r) => Ready(r, l)
          /\ ~Ok(r) => r.errno = "HEADER_OVERFLOW"
      BY <3>1, <3>3, Recount
    <3>5. r.mark = new.mark /\ r.content_length = new.content_length
      BY <1>3, <3>3 DEF COUNT_HEADER_SIZE, SET_ERRNO, Parser
    <3>6. Ok(r) => Active(r, l)
      <4>1. r.state # "s_chunk_size_start" /\ RunInv(r)
        BY <3>1, <3>4 DEF LoopStates, RunInv
      <4> QED
        BY <3>4, <4>1 DEF Ready, Active, Calm
    <3> QED
      BY <1>4, <3>4, <3>5, <3>6
  <2> QED
    BY <2>1, <2>2
<1>9. PICK q : q = FinishCall(p, f)
  OBVIOUS
<1>10. PICK e : e = IF Ok(r) THEN Flush(r) ELSE r
  OBVIOUS
<1>14. q = Rested(e, 0, NoMarks)
  BY <1>2, <1>7, <1>9, <1>10 DEF FinishCall, Rested
<1>11. Expected(p) = Expected(r) /\ \A x, w : WantNext(p, x, w) = WantNext(r, x, w)
  BY <1>8 DEF Expected, WantNext
<1>12. CASE Active(r, l)
  <2>1. q = Rested(Flush(r), 0, NoMarks)
    BY <1>10, <1>12, <1>14 DEF Active
  <2>2. /\ Shown(r, q, l)
        /\ q.mark = NoMarks /\ q.run = 0
        /\ Ok(q) => Calm(q, Now(l, q.out))
        /\ Ok(q) => \A k \in DataKinds : Del(q.out, k) = Held(r.mark, k)
    BY <1>8, <1>12, <2>1, FlushEffect
  <2>3. Shown(p, q, l)
    BY <1>11, <2>2 DEF Shown
  <2> QED
    BY <1>8, <1>9, <2>2, <2>3
<1>13. CASE r.errno = "HEADER_OVERFLOW"
  <2>1. q = Rested(r, 0, NoMarks)
    BY <1>10, <1>13, <1>14 DEF Ok
  <2>2. /\ q \in Parser /\ q.mark = NoMarks /\ q.run = 0 /\ SameHead(r, q)
        /\ q.errno = "HEADER_OVERFLOW" /\ q.out = <<>>
    BY <1>8, <1>13, <2>1, MarksOf, NoMarksType
  <2>3. ~Ok(q) /\ q.state = p.state
    BY <1>8, <2>2 DEF Ok, SameHead
  <2>4. l \in Completes => WantNext(p, q, Expected(p)) = 0
    BY <2>2, <2>3, NothingWanted, NoneOut DEF WantNext
  <2>5. Shown(p, q, l)
    BY <2>2, <2>3, <2>4, NoneOut DEF Shown
  <2> QED
    BY <1>9, <2>2, <2>3, <2>5
<1> QED
  BY <1>8, <1>12, <1>13

(* The end of the input.                                                   *)
LEMMA EndOfInputEffect ==
    ASSUME NEW l, NEW p \in Parser, Ok(p), Calm(p, l), p.mark = NoMarks, RunInv(p)
    PROVE  LET q == EndOfInput(p)
           IN  /\ Shown(p, q, l)
               /\ q.mark = NoMarks /\ SameHead(p, q) /\ q.run = p.run
               /\ Ok(q) => Now(l, q.out) \in {"none", "message_complete"}
               /\ \A k \in DataKinds : Del(q.out, k) = 0
<1>1. PICK new : new = [p EXCEPT !.out = <<>>]
  OBVIOUS
<1>2. new \in Parser /\ new.out = <<>> /\ new.errno = p.errno /\ new.mark = p.mark
  BY <1>1, NoneOut DEF Parser
<1>3. SameHead(p, new)
  BY <1>1 DEF Parser, SameHead
<1>4. PICK q : q = EndOfInput(p)
  OBVIOUS
<1>13. q.run = p.run
  <2>1. new.run = p.run
    BY <1>1 DEF Parser
  <2> QED
    BY <1>1, <1>2, <1>4, <2>1 DEF EndOfInput, CALLBACK_NOTIFY, Called, SET_ERRNO, Parser
<1>5. OrderInv(p.state, p.flags, l)
  BY DEF Calm
<1>6. \A k \in DataKinds : p.mark[k] = NoMark /\ Held(p.mark, k) = 0
  BY NoMarksType
<1>7. /\ Held(p.mark, "body") = 0 /\ p.content_length \in Int
      /\ Expected(p) \in Int
  BY <1>6 DEF DataKinds, Parser, Lengths, Expected
<1>8. l \in Completes => Expected(p) = 0
  <2>1. PICK c : c = StartCall(p)
    OBVIOUS
  <2>2. Active(c, l) /\ Expected(c) = Expected(p)
    BY <2>1, StartCallEffect
  <2> QED
    BY <2>2, NothingWanted
<1>9. ASSUME q.out = <<>>, SameHead(p, q), q.mark = p.mark
      PROVE  /\ WantNext(p, q, Expected(p)) = Expected(p)
             /\ Expected(q) = Expected(p)
  BY <1>7, <1>9, NoneOut DEF WantNext, Expected, SameHead
<1>10. CASE p.state = "s_body_identity_eof"
  <2>1. q = CALLBACK_NOTIFY(new, "message_complete")
    BY <1>1, <1>4, <1>10 DEF EndOfInput
  <2>2. l \in Follows["message_complete"]
    BY <1>5, <1>10 DEF OrderInv, PlainStates, Follows
  <2>3. MayCall(l, new, "message_complete")
    BY <1>2, <2>2, NoneOut DEF MayCall, Ok
  <2>4. AfterCall(l, new, q, "message_complete", 0, new.mark)
    <3>1. "message_complete" \in NoticeKinds
      BY DEF NoticeKinds
    <3> QED
      BY <2>1, <2>3, <3>1, NoticeEffect
  <2>5. /\ q \in Parser /\ q.errno \in {"OK", "CB"} /\ SameHead(p, q) /\ q.mark = p.mark
        /\ OnSet(q.out) = {"message_complete"} /\ Now(l, q.out) = "message_complete"
        /\ Linked(l, q.out)
        /\ \A j \in DataKinds : Del(q.out, j) = 0
    <3>1. "message_complete" \notin DataKinds
      BY DEF DataKinds
    <3> QED
      BY <1>2, <1>3, <2>4, <3>1, NoneOut DEF AfterCall, OneMore, SameHead
  <2>6. WantNext(p, q, Expected(p)) = Expected(p) /\ Expected(p) = 0 /\ Expected(q) = 0
    BY <1>10, <2>5 DEF WantNext, Expected, SameHead
  <2>7. Shown(p, q, l)
    BY <2>5, <2>6 DEF Shown
  <2> QED
    BY <1>4, <1>13, <2>5, <2>7
<1>11. CASE p.state \in IdleStates
  <2>1. q = new
    BY <1>1, <1>4, <1>11 DEF EndOfInput, IdleStates
  <2>2. l \in {"none", "message_complete"}
    BY <1>5, <1>11 DEF OrderInv
  <2>3. Shown(p, q, l)
    BY <1>2, <1>3, <1>8, <1>9, <2>1, NoneOut DEF Shown, Ok
  <2> QED
    BY <1>2, <1>3, <1>4, <1>13, <2>1, <2>2, <2>3, NoneOut
<1>12. CASE p.state # "s_body_identity_eof" /\ p.state \notin IdleStates
  <2>1. q = SET_ERRNO(new, "INVALID_EOF_STATE")
    BY <1>1, <1>4, <1>12 DEF EndOfInput, IdleStates
  <2>2. "INVALID_EOF_STATE" \in Errnos
    BY DEF Errnos, Refusals
  <2>3. q \in Parser /\ q.errno = "INVALID_EOF_STATE" /\ q.out = <<>> /\ q.mark = p.mark
    BY <1>2, <2>1, <2>2 DEF SET_ERRNO, Parser
  <2>4. SameHead(p, q)
    BY <1>2, <1>3, <2>1 DEF SET_ERRNO, Parser, SameHead
  <2>5. Shown(p, q, l) /\ ~Ok(q)
    BY <1>8, <1>9, <2>3, <2>4, NoneOut DEF Shown, Ok
  <2> QED
    BY <1>4, <1>13, <2>3, <2>4, <2>5, NoneOut
<1> QED
  BY <1>10, <1>11, <1>12

-----------------------------------------------------------------------------
(* The specification *)

(* The inductive invariant: the parser is well-formed and no assertion has *)
(* failed; unless a call has ended in an error, the state agrees with      *)
(* flags, length and last callback, and the bytes wanted are those not     *)
(* read yet and those marked; in a call the marks agree with the state,    *)
(* and between calls there are none; nothing follows the end of the input. *)
ParserInv ==
    /\ ps \in Parser
    /\ calling \in {"no", "begun", "some"}
    /\ pieces \in Nat
    /\ owed \in [DataKinds -> Int]
    /\ want \in Int
    /\ NoAssert
    /\ RunInv(ps)
    /\ Ok(ps) => /\ ps.nread <= max_header_size
                 /\ ps.state = "s_chunk_size_start" => ps.nread = 0
                 /\ FlagInv(ps.state, ps.header_state, ps.flags, ps.te)
                 /\ LengthInv(ps.state, ps.content_length)
                 /\ ~closed => OrderInv(ps.state, ps.flags, last)
                 /\ want = Expected(ps)
    /\ calling # "no" => Ok(ps) /\ ps.left = FALSE /\ MarkInv(ps.state, ps.mark)
    /\ calling = "no" => ps.mark = NoMarks
    /\ closed => input = <<>> /\ calling = "no"
    /\ AllDelivered
    /\ BodyFramed
    /\ EofDetected

(* The invariant holds at first.                                           *)
LEMMA InitInv ==
    ASSUME Init
    PROVE  ParserInv
<1>1. PICK t \in Types : ps = http_parser_init(t)
  BY DEF Init
<1>2. t \in MessageTypes
  BY CallsAssumption DEF MessageTypes
<1>3. PICK s : s = CASE t = "REQUEST" -> "s_start_req"
                     [] t = "RESPONSE" -> "s_start_res"
                     [] OTHER -> "s_start_req_or_res"
  OBVIOUS
<1>4. s \in IdleStates /\ s \in States
  BY <1>3 DEF IdleStates, States
<1>5. /\ ps.type = t /\ ps.state = s /\ ps.header_state = "h_general" /\ ps.flags = {}
      /\ ps.te = FALSE /\ ps.content_length = 0 /\ ps.method = "DELETE" /\ ps.nread = 0
      /\ ps.errno = "OK" /\ ps.mark = NoMarks /\ ps.out = <<>> /\ ps.fail = "none"
      /\ ps.left = FALSE /\ ps.run = 0
  BY <1>1, <1>3 DEF http_parser_init
<1>6. ps \in Parser
  <2>1. /\ "h_general" \in HeaderNames /\ {} \in FlagSets /\ "DELETE" \in Methods
        /\ "OK" \in Errnos /\ "none" \in Fails
    BY DEF HeaderNames, FieldNames, FlagSets, Methods, Errnos, Fails
  <2>2. 0 \in Lengths /\ 0 \in Counts /\ 0 \in Codes /\ NoMarks \in Marks /\ <<>> \in Outs
    BY ParserBounds, NoMarksType, NoneOut DEF Lengths, Counts, Codes
  <2> QED
    BY <1>1, <1>2, <1>3, <1>4, <2>1, <2>2 DEF http_parser_init, Parser
<1>7. Resting(ps, "none")
  BY <1>4, <1>5, NoMarksType, IdleRests, ParserBounds
<1>8. \A k \in DataKinds : ps.mark[k] = NoMark /\ Held(ps.mark, k) = 0
  BY <1>5, NoMarksType
<1>9. Expected(ps) = 0
  BY <1>4, <1>5, <1>8 DEF Expected, DataKinds, IdleStates
<1>10. /\ calling = "no" /\ closed = FALSE /\ input = <<>> /\ pieces = 0
       /\ last = "none" /\ owed = [k \in DataKinds |-> 0] /\ want = 0
  BY DEF Init
<1>11. AllDelivered
  BY <1>8, <1>10 DEF AllDelivered
<1>12. owed \in [DataKinds -> Int]
  BY <1>10
<1> QED
  BY <1>5, <1>6, <1>7, <1>9, <1>10, <1>11, <1>12
     DEF ParserInv, Resting, NoAssert, BodyFramed, EofDetected, Ok, RunInv

(* In a call the parser takes a byte, or ends the call.                    *)
LEMMA InvActive ==
    ASSUME ParserInv, calling # "no"
    PROVE  Active(ps, last) /\ ~closed /\ Ok(ps)
  BY DEF ParserInv, Active, Calm

(* Between calls the parser is calm.                                       *)
LEMMA InvCalm ==
    ASSUME ParserInv, Ok(ps), ~closed
    PROVE  Calm(ps, last) /\ RunInv(ps)
  BY DEF ParserInv, Calm

(* What Observe records.                                                   *)
LEMMA Observed ==
    ASSUME ParserInv, Ok(ps), NEW b \in BOOLEAN, Observe(b), Shown(ps, ps', last)
    PROVE  /\ last' = Now(last, ps'.out)
           /\ owed' \in [DataKinds -> Int] /\ want' \in Int
           /\ \A k \in DataKinds :
                 owed'[k] = owed[k] - Del(ps'.out, k)
                            + IF b /\ Belongs(k) THEN 1 ELSE 0
           /\ Ok(ps)' => want' = Expected(ps')
           /\ BodyFramed' /\ NoAssert'
           /\ ps' \in Parser
<1>1. ps' \in Parser /\ ps'.out \in Outs /\ ps'.content_length \in Int
  BY DEF Shown, Parser, Lengths
<1>2. /\ \A k : Delivered(ps', k) = Del(ps'.out, k)
      /\ Callbacks(ps') = OnSet(ps'.out)
  BY SameAsObserved
<1>3. last' = Now(last, ps'.out)
  BY DEF Observe, Now
<1>4. want' = WantNext(ps, ps', want)
  BY <1>2 DEF Observe, WantNext
<1>5. owed' = [k \in DataKinds |-> owed[k] - Del(ps'.out, k)
                                   + IF b /\ Belongs(k) THEN 1 ELSE 0]
  BY <1>2 DEF Observe
<1>6. \A k \in DataKinds : Del(ps'.out, k) \in Int /\ owed[k] \in Int
  BY <1>1, DelNat DEF ParserInv
<1>7. owed' \in [DataKinds -> Int]
  BY <1>5, <1>6
<1>8. want = Expected(ps) /\ want \in Int
  BY DEF ParserInv
<1>9. want' \in Int
  <2>1. Del(ps'.out, "body") \in Int
    BY <1>6 DEF DataKinds
  <2> QED
    BY <1>1, <1>4, <1>8, <2>1 DEF WantNext
<1>10. Ok(ps') => want' = Expected(ps')
  BY <1>4, <1>8 DEF Shown
<1>11. BodyFramed'
  BY <1>3, <1>4, <1>8 DEF Shown, BodyFramed, Completes
<1>12. NoAssert'
  BY DEF Shown, NoAssert
<1> QED
  BY <1>1, <1>3, <1>5, <1>7, <1>9, <1>10, <1>11, <1>12 DEF Ok

(* More input arrives.                                                     *)
LEMMA ArriveStep ==
    ASSUME ParserInv, Arrive
    PROVE  ParserInv'
  BY DEF ParserInv, Arrive, history, NoAssert, AllDelivered, BodyFramed, EofDetected,
     Ok, Expected, RunInv

(* A call begins.                                                          *)
LEMMA CallStep ==
    ASSUME ParserInv, Call
    PROVE  ParserInv' /\ ps'.out = <<>>
<1>1. /\ Ok(ps) /\ ~closed /\ ps \in Parser /\ ps.mark = NoMarks /\ Calm(ps, last)
      /\ RunInv(ps)
  BY InvCalm DEF ParserInv, Call
<1>2. /\ Active(ps', last) /\ ps'.out = <<>> /\ Expected(ps') = Expected(ps)
      /\ \A k \in DataKinds : Held(ps'.mark, k) = 0
  BY <1>1, StartCallEffect DEF Call
<1>3. /\ calling' = "begun" /\ UNCHANGED <<closed, input, pieces, last, owed, want>>
  BY DEF Call, history
<1>4. \A k \in DataKinds : owed[k] = 0
  BY <1>1, NoMarksType DEF ParserInv, AllDelivered
<1>5. AllDelivered'
  BY <1>2, <1>3, <1>4 DEF AllDelivered, Held
<1>6. /\ ps' \in Parser /\ Ok(ps') /\ ps'.left = FALSE /\ MarkInv(ps'.state, ps'.mark)
      /\ Calm(ps', last) /\ RunInv(ps')
  BY <1>2 DEF Active
<1>7. want' = Expected(ps')
  BY <1>1, <1>2, <1>3 DEF ParserInv
<1>8. NoAssert' /\ BodyFramed' /\ EofDetected'
  BY <1>1, <1>3, <1>6 DEF NoAssert, BodyFramed, EofDetected, Ok, ParserInv
<1> QED
  BY <1>1, <1>2, <1>3, <1>5, <1>6, <1>7, <1>8
     DEF ParserInv, Calm, Ok, Expected, RunInv

(* A byte is consumed.                                                     *)
LEMMA ByteStep ==
    ASSUME ParserInv, Byte
    PROVE  ParserInv' /\ Linked(last, ps'.out)
<1>1. Active(ps, last) /\ ~closed /\ Ok(ps) /\ ps \in Parser
  BY InvActive DEF Byte, Active
<1>2. PICK f \in Failures \cup {"none"} : ps' = Consume(ps, Head(input), f)
  BY DEF Byte
<1>3. f \in Fails
  BY CallsAssumption DEF Fails
<1>4. AfterByte(ps, ps', last)
  BY <1>1, <1>2, <1>3, ConsumeEffect
<1>5. Shown(ps, ps', last)
  BY <1>4 DEF AfterByte, Shown
<1>6. Observe(TRUE) /\ closed' = closed /\ pieces' = pieces
      /\ calling' = IF Returned(ps') THEN "no" ELSE "some"
  BY DEF Byte
<1>7. /\ last' = Now(last, ps'.out)
      /\ owed' \in [DataKinds -> Int] /\ want' \in Int
      /\ \A k \in DataKinds : owed'[k] = owed[k] - Del(ps'.out, k)
                                         + IF TRUE /\ Belongs(k) THEN 1 ELSE 0
      /\ Ok(ps)' => want' = Expected(ps')
      /\ BodyFramed' /\ NoAssert' /\ ps' \in Parser
  BY <1>1, <1>5, <1>6, Observed
<1>8. AllDelivered'
  <2>1. SUFFICES ASSUME Ok(ps'), NEW k \in DataKinds
                 PROVE  owed'[k] = Held(ps'.mark, k)
    BY DEF AllDelivered, Held, Ok
  <2>2. owed[k] = Held(ps.mark, k)
    BY <1>1 DEF ParserInv, AllDelivered, Held
  <2>3. CASE k = "body"
    <3>1. Belongs(k) <=> ps.state \in ReadingStates
      BY <2>3 DEF Belongs, ReadingStates
    <3> QED
      BY <1>4, <1>7, <2>1, <2>2, <2>3, <3>1 DEF AfterByte
  <2>4. CASE k # "body"
    <3>1. Belongs(k) <=> ItemOf(ps'.state) = k
      BY <2>4 DEF Belongs
    <3> QED
      BY <1>4, <1>7, <2>1, <2>2, <2>4, <3>1 DEF AfterByte
  <2> QED
    BY <2>3, <2>4
<1>9. Ok(ps') => Calm(ps', last')
  BY <1>4, <1>7 DEF AfterByte
<1>10. /\ calling' # "no" => Ok(ps') /\ ps'.left = FALSE /\ MarkInv(ps'.state, ps'.mark)
       /\ calling' = "no" => ps'.mark = NoMarks
       /\ calling' \in {"no", "begun", "some"}
  <2>1. ps'.left \in BOOLEAN
    BY <1>7 DEF Parser
  <2> QED
    BY <1>4, <1>6, <2>1 DEF AfterByte, Returned
<1>11. EofDetected' /\ ~closed'
  BY <1>1, <1>6 DEF EofDetected
<1>12. pieces' \in Nat
  BY <1>6 DEF ParserInv
<1>14. RunInv(ps')
  BY <1>4 DEF AfterByte
<1>13. ParserInv'
  BY <1>7, <1>8, <1>9, <1>10, <1>11, <1>12, <1>14
     DEF ParserInv, Calm, Ok, Expected, RunInv
<1> QED
  BY <1>5, <1>13 DEF Shown

(* The bytes run out.                                                      *)
LEMMA ReturnStep ==
    ASSUME ParserInv, Return
    PROVE  ParserInv' /\ Linked(last, ps'.out)
<1>1. Active(ps, last) /\ ~closed /\ Ok(ps) /\ ps \in Parser
  BY InvActive DEF Return, Active
<1>2. PICK f \in Failures \cup {"none"} : ps' = FinishCall(ps, f)
  BY DEF Return
<1>3. f \in Fails
  BY CallsAssumption DEF Fails
<1>4. /\ Shown(ps, ps', last) /\ ps'.mark = NoMarks /\ ps'.run = 0
      /\ Ok(ps') => Calm(ps', Now(last, ps'.out))
      /\ Ok(ps') => \A k \in DataKinds : Del(ps'.out, k) = Held(ps.mark, k)
  BY <1>1, <1>2, <1>3, FinishCallEffect
<1>5. /\ Observe(FALSE) /\ UNCHANGED <<closed, input, pieces>> /\ calling' = "no"
  BY DEF Return
<1>6. /\ last' = Now(last, ps'.out)
      /\ owed' \in [DataKinds -> Int] /\ want' \in Int
      /\ \A k \in DataKinds : owed'[k] = owed[k] - Del(ps'.out, k)
                                         + IF FALSE /\ Belongs(k) THEN 1 ELSE 0
      /\ Ok(ps)' => want' = Expected(ps')
      /\ BodyFramed' /\ NoAssert' /\ ps' \in Parser
  BY <1>1, <1>4, <1>5, Observed
<1>7. AllDelivered'
  <2>1. SUFFICES ASSUME Ok(ps'), NEW k \in DataKinds
                 PROVE  owed'[k] = 0
    BY <1>4, NoMarksType DEF AllDelivered, Ok
  <2>2. owed[k] = Held(ps.mark, k) /\ owed[k] \in Int
    BY <1>1 DEF ParserInv, AllDelivered, Held
  <2> QED
    BY <1>4, <1>6, <2>1, <2>2
<1>8. Ok(ps') => Calm(ps', last')
  BY <1>4, <1>6
<1>9. EofDetected' /\ ~closed' /\ pieces' \in Nat
  BY <1>1, <1>5 DEF EofDetected, ParserInv
<1>10. ParserInv'
  BY <1>4, <1>5, <1>6, <1>7, <1>8, <1>9 DEF ParserInv, Calm, Ok, Expected, RunInv
<1> QED
  BY <1>4, <1>10 DEF Shown

(* The input ends.                                                         *)
LEMMA CloseStep ==
    ASSUME ParserInv, Close
    PROVE  ParserInv' /\ Linked(last, ps'.out)
<1>1. /\ Ok(ps) /\ ~closed /\ ps \in Parser /\ ps.mark = NoMarks /\ Calm(ps, last)
      /\ RunInv(ps)
  BY InvCalm DEF ParserInv, Close
<1>2. /\ Shown(ps, ps', last) /\ ps'.mark = NoMarks /\ SameHead(ps, ps')
      /\ ps'.run = ps.run
      /\ Ok(ps') => Now(last, ps'.out) \in {"none", "message_complete"}
      /\ \A k \in DataKinds : Del(ps'.out, k) = 0
  BY <1>1, EndOfInputEffect DEF Close
<1>3. /\ Observe(FALSE) /\ UNCHANGED <<calling, input, pieces>> /\ closed' = TRUE
      /\ calling = "no" /\ input = <<>>
  BY DEF Close
<1>4. /\ last' = Now(last, ps'.out)
      /\ owed' \in [DataKinds -> Int] /\ want' \in Int
      /\ \A k \in DataKinds : owed'[k] = owed[k] - Del(ps'.out, k)
                                         + IF FALSE /\ Belongs(k) THEN 1 ELSE 0
      /\ Ok(ps)' => want' = Expected(ps')
      /\ BodyFramed' /\ NoAssert' /\ ps' \in Parser
  BY <1>1, <1>2, <1>3, Observed
<1>5. AllDelivered'
  <2>1. SUFFICES ASSUME Ok(ps'), NEW k \in DataKinds
                 PROVE  owed'[k] = 0
    BY <1>2, NoMarksType DEF AllDelivered, Ok
  <2>2. owed[k] = 0
    BY <1>1, NoMarksType DEF ParserInv, AllDelivered
  <2> QED
    BY <1>2, <1>4, <2>1, <2>2
<1>6. EofDetected'
  BY <1>2, <1>4 DEF EofDetected, Ok
<1>7. /\ ps'.nread <= max_header_size
      /\ ps'.state = "s_chunk_size_start" => ps'.nread = 0
      /\ FlagInv(ps'.state, ps'.header_state, ps'.flags, ps'.te)
      /\ LengthInv(ps'.state, ps'.content_length)
  BY <1>1, <1>2 DEF Calm, SameHead
<1>8. pieces' \in Nat /\ input' = <<>> /\ calling' = "no"
  BY <1>3 DEF ParserInv
<1>10. RunInv(ps')
  BY <1>1, <1>2 DEF RunInv, SameHead
<1>9. ParserInv'
  BY <1>2, <1>3, <1>4, <1>5, <1>6, <1>7, <1>8, <1>10 DEF ParserInv, Ok, Expected, RunInv
<1> QED
  BY <1>2, <1>9 DEF Shown

(* Every step keeps the invariant.                                         *)
LEMMA NextInv ==
    ASSUME ParserInv, [Next]_vars
    PROVE  ParserInv'
<1>1. CASE UNCHANGED vars
  BY <1>1 DEF vars, ParserInv, NoAssert, AllDelivered, BodyFramed, EofDetected, Ok,
     Expected, RunInv
<1> QED
  BY <1>1, ArriveStep, CallStep, ByteStep, ReturnStep, CloseStep DEF Next

(* The inductive invariant holds in every behaviour.                       *)
THEOREM ParserInvariant == Spec => []ParserInv
<1> QED
  BY InitInv, NextInv, PTL DEF Spec

(* The fields of the parser keep their types: no length or status code     *)
(* leaves its range, the count of header bytes is within its limit unless  *)
(* the parser has refused, and bytes wait to be counted only inside a      *)
(* header field or value.                                                  *)
THEOREM ParserTypes == Spec => []TypeOK
<1>1. ParserInv => TypeOK
  BY DEF ParserInv, TypeOK, RunInv, Parser, Counts, Lengths, Codes, Marks
<1> QED
  BY <1>1, ParserInvariant, PTL

(* No assertion of http_parser_execute fails, whatever the bytes are and   *)
(* wherever the buffers end.                                               *)
THEOREM ParserAsserts == Spec => []NoAssert
<1>1. ParserInv => NoAssert
  BY DEF ParserInv
<1> QED
  BY <1>1, ParserInvariant, PTL

(* Every byte of an item is delivered exactly once, wherever the buffers   *)
(* end.                                                                    *)
THEOREM ParserDelivers == Spec => []AllDelivered
<1>1. ParserInv => AllDelivered
  BY DEF ParserInv
<1> QED
  BY <1>1, ParserInvariant, PTL

(* A chunk or message is complete only when the announced number of bytes  *)
(* of its body has been delivered.                                         *)
THEOREM ParserFrames == Spec => []BodyFramed
<1>1. ParserInv => BodyFramed
  BY DEF ParserInv
<1> QED
  BY <1>1, ParserInvariant, PTL

(* No body is read both in chunks and by its Content-Length.               *)
THEOREM ParserOneFraming == Spec => []OneFraming
<1>1. ParserInv => OneFraming
  BY DEF ParserInv, OneFraming, FlagInv
<1> QED
  BY <1>1, ParserInvariant, PTL

(* The end of the input is accepted only between messages, or as the end   *)
(* of a body without length.                                               *)
THEOREM ParserEof == Spec => []EofDetected
<1>1. ParserInv => EofDetected
  BY DEF ParserInv
<1> QED
  BY <1>1, ParserInvariant, PTL

(* The callbacks of every step follow each other, and the last one before, *)
(* in the order of a message.                                              *)
THEOREM ParserOrder == Spec => CallbackOrder
<1> DEFINE seen == <<last>> \o [i \in DOMAIN ps'.out |-> ps'.out[i].on]
<1>1. ASSUME ParserInv, Next, pieces' = pieces
      PROVE  \A i \in 2..Len(seen) : seen[i - 1] \in Follows[seen[i]]
  <2>1. Linked(last, ps'.out)
    <3>1. ~Arrive
      BY <1>1 DEF Arrive, ParserInv
    <3>2. CASE Call
      BY <1>1, <3>2, CallStep, NoneOut
    <3> QED
      BY <1>1, <3>1, <3>2, ByteStep, ReturnStep, CloseStep DEF Next
  <2>2. ps'.out \in Outs
    <3>1. ParserInv'
      BY <1>1, NextInv
    <3> QED
      BY <3>1 DEF ParserInv, Parser
  <2> QED
    BY <2>1, <2>2, LinkedIsOrdered
<1>2. ParserInv /\ [Next]_vars =>
         [pieces' = pieces => \A i \in 2..Len(seen) : seen[i - 1] \in Follows[seen[i]]]_vars
  BY <1>1
<1> QED
  BY <1>2, ParserInvariant, PTL DEF Spec, CallbackOrder
=============================================================================
