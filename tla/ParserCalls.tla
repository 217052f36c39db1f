---------------------------- MODULE ParserCalls ----------------------------
(***************************************************************************)
(* http_parser_execute called with one buffer after another.  The input is *)
(* put together from pieces in any order, so that most inputs are no       *)
(* messages, and every byte may be the last one of its buffer.             *)
(***************************************************************************)
EXTENDS http_parser

CONSTANTS
    Pieces,         \* the input is a concatenation of these,
    MaxPieces,      \* bound: of so many
    Types,          \* what the parser is created for
    Failures        \* the callbacks that may return something else than 0

ASSUME CallsAssumption ==
    /\ \A s \in Pieces : s # <<>> /\ \A i \in DOMAIN s : s[i] \in Alphabet
    /\ MaxPieces \in Nat
    /\ Types \subseteq {"REQUEST", "RESPONSE", "BOTH"}
    /\ Failures \subseteq DataKinds \cup NoticeKinds \cup {"no_body", "upgrade"}

VARIABLES
    ps,         \* the parser
    calling,    \* "no", "begun", or "some" bytes of the buffer were consumed
    closed,     \* the end of the input has been reported
    input,      \* the rest of the piece that is arriving
    pieces,     \* the number of pieces so far

    last,       \* history: the last callback
    owed,       \* history: bytes of an item consumed and not yet delivered
    want        \* history: bytes of the body or chunk not yet delivered

vars == <<ps, calling, closed, input, pieces, last, owed, want>>
history == <<last, owed, want>>

Init ==
    /\ \E t \in Types : ps = http_parser_init(t)
    /\ calling = "no"
    /\ closed = FALSE
    /\ input = <<>>
    /\ pieces = 0
    /\ last = "none"
    /\ owed = [k \in DataKinds |-> 0]
    /\ want = 0

-----------------------------------------------------------------------------

Events(p) == {p.out[i] : i \in DOMAIN p.out}
Callbacks(p) == {e.on : e \in Events(p)}
Delivered(p, k) ==
    LET e == {x \in Events(p) : x.on = k}
    IN  IF e = {} THEN 0 ELSE (CHOOSE x \in e : TRUE).len

(* A byte belongs to the item that the parser is in behind it; a byte of   *)
(* the body is one read in a state of the body.                            *)
Belongs(k) ==
    IF k = "body"
    THEN ps.state \in {"s_body_identity", "s_body_identity_eof", "s_chunk_data"}
    ELSE ItemOf(ps'.state) = k

Observe(byte) ==
    /\ last' = IF ps'.out = <<>> THEN last ELSE ps'.out[Len(ps'.out)].on
    /\ owed' = [k \in DataKinds |->
                   owed[k] - Delivered(ps', k) + IF byte /\ Belongs(k) THEN 1 ELSE 0]
    /\ want' = IF \/ "chunk_header" \in Callbacks(ps')
                  \/ ps.state # "s_body_identity" /\ ps'.state = "s_body_identity"
               THEN ps'.content_length
               ELSE IF ps.state = "s_body_identity_eof" THEN want
               ELSE want - Delivered(ps', "body")

(* A callback fails only where it is called.                               *)
Possible(f, p) ==
    \/ f = "none"
    \/ f \in Callbacks(p)
    \/ f \in {"no_body", "upgrade"} /\ "headers_complete" \in Callbacks(p)

Arrive ==
    /\ input = <<>>
    /\ pieces < MaxPieces
    /\ ~closed /\ Ok(ps)
    /\ input' \in Pieces
    /\ pieces' = pieces + 1
    /\ UNCHANGED <<ps, calling, closed, history>>

Call ==
    /\ calling = "no"
    /\ input # <<>>
    /\ Ok(ps)
    /\ ps' = StartCall(ps)
    /\ calling' = "begun"
    /\ UNCHANGED <<closed, input, pieces, history>>

Byte ==
    /\ calling # "no"
    /\ input # <<>>
    /\ \E f \in Failures \cup {"none"} :
          /\ ps' = Consume(ps, Head(input), f)
          /\ Possible(f, ps')
    /\ calling' = IF Returned(ps') THEN "no" ELSE "some"
    /\ input' = Tail(input)
    /\ Observe(TRUE)
    /\ UNCHANGED <<closed, pieces>>

Return ==
    /\ calling = "some"
    /\ \E f \in Failures \cup {"none"} :
          /\ ps' = FinishCall(ps, f)
          /\ Possible(f, ps')
    /\ calling' = "no"
    /\ Observe(FALSE)
    /\ UNCHANGED <<closed, input, pieces>>

Close ==
    /\ calling = "no"
    /\ input = <<>>
    /\ ~closed
    /\ Ok(ps)
    /\ ps' = EndOfInput(ps)
    /\ closed' = TRUE
    /\ Observe(FALSE)
    /\ UNCHANGED <<calling, input, pieces>>

Next == Arrive \/ Call \/ Byte \/ Return \/ Close

Spec == Init /\ [][Next]_vars

-----------------------------------------------------------------------------
(* Properties *)

(* Types of the parser and of the history.  A parser without error has     *)
(* counted no more than the limit, though it may be inside a field or a    *)
(* value of any length, which is counted when its loop ends.               *)
TypeOK ==
    /\ ps.state \in States
    /\ ps.nread \in Nat /\ ps.run \in Nat
    /\ Ok(ps) => ps.nread <= max_header_size
    /\ ps.run > 0 => ps.state \in LoopStates
    /\ ps.content_length \in 0..MaxLength
    /\ ps.status_code \in 0..999
    /\ ps.mark \in [DataKinds -> {NoMark} \cup Nat]
    /\ calling \in {"no", "begun", "some"}
    /\ owed \in [DataKinds -> Int]
    /\ want \in Int

(* The assertions of http_parser_execute hold: one item at most is marked  *)
(* when the bytes run out, a chunk size begins with a fresh count, a body  *)
(* has a known length, and no value is read for a field still being        *)
(* matched.                                                                *)
NoAssert == ps.errno # "ASSERT"

(* Wherever a buffer ends, no byte of a url, field, value, status or body  *)
(* is lost or delivered twice: what has been consumed and not delivered is *)
(* what the mark covers, and nothing when the call has returned.           *)
AllDelivered ==
    Ok(ps) => \A k \in DataKinds :
                 owed[k] = IF ps.mark[k] = NoMark THEN 0 ELSE ps.mark[k]

(* A message or chunk is complete when exactly as many bytes of body were  *)
(* delivered as its length announced.                                      *)
BodyFramed == last \in {"chunk_complete", "message_complete"} => want = 0

(* No body is framed in two ways: chunks and a Content-Length together are *)
(* refused before the body.                                                *)
OneFraming ==
    Ok(ps) /\ ps.state \in ChunkStates \cup {"s_body_identity"}
        => ~({"CHUNKED", "CONTENTLENGTH"} \subseteq ps.flags)

(* An input that ends inside a message is an error.                        *)
EofDetected == closed /\ Ok(ps) => last \in {"none", "message_complete"}

(* Which callback may follow which.                                        *)
Follows ==
    [message_begin |-> {"none", "message_complete"},
     url |-> {"message_begin", "url"},
     status |-> {"message_begin", "status"},
     header_field |-> {"url", "status", "header_field", "header_value",
                       "chunk_header"},
     header_value |-> {"header_field", "header_value"},
     headers_complete |-> {"url", "status", "header_value"},
     body |-> {"headers_complete", "chunk_header", "body"},
     chunk_header |-> {"headers_complete", "chunk_complete"},
     chunk_complete |-> {"chunk_header", "body", "header_value"},
     message_complete |-> {"headers_complete", "body", "chunk_complete"}]

(* The callbacks of a message come in the order that HttpRequestParser     *)
(* relies on: a value after its field, the headers before the body, and    *)
(* one completion for each beginning.                                      *)
CallbackOrder ==
    [][LET seen == <<last>> \o [i \in DOMAIN ps'.out |-> ps'.out[i].on]
       IN  pieces' = pieces =>
              \A i \in 2..Len(seen) : seen[i - 1] \in Follows[seen[i]]]_vars
=============================================================================
