---------------------------- MODULE HttpSession ----------------------------
(***************************************************************************)
(* One connection of an HttpServer: handleClient and the HttpSession it    *)
(* reads requests from and writes responses to, between a client that      *)
(* writes requests with HttpRequest::dump and reads with an http_parser.   *)
(*                                                                         *)
(* TCP keeps the order of the bytes and nothing else: a read returns as    *)
(* many of the bytes on their way as it likes, and a write takes as many   *)
(* of the bytes it is given.  The client does not have to wait for a       *)
(* response before it sends the next request, and may leave at any time.   *)
(***************************************************************************)
EXTENDS HttpMessage

CONSTANTS
    Requests,       \* the requests a client may send
    MaxRequests,    \* bound: how many it sends
    MaxTurns,       \* bound: the reads of a request, the writes of a response
    BuffSize,       \* buffSize, the longest request
    Body            \* the body of every response

ASSUME SessionAssumption ==
    /\ MaxRequests \in Nat /\ MaxTurns \in Nat \ {0} /\ BuffSize \in Nat \ {0}
    /\ Len(Body) \in 1 .. 2

VARIABLES
    keepAlive,      \* m_isKeepAlive of the server
    connected,      \* m_isConnected of the server's socket
    pc,             \* where handleClient is: "recv", "send", "returned"
    rp,             \* the parser of recvRequest
    buffer,         \* the first "total" bytes of the buffer of recvRequest
    turns,          \* the reads or writes that were not enough
    output,         \* the rest of what writeFixSize has to write

    todo,           \* client: the requests it has sent and has no answer to
    wire,           \* client: bytes sent and not yet read
    leaving,        \* client: it has closed its end
    client,         \* client: its parser of responses
    sent,           \* client: how many requests it has sent

    mixed,          \* history: two requests were on their way at a time
    taken,          \* history: the last request that recvRequest returned
    complete        \* history: responses written as a whole

server == <<keepAlive, connected, pc, rp, buffer, turns, output>>
peer == <<todo, wire, leaving, client, sent>>
history == <<mixed, taken, complete>>
vars == <<server, peer, history>>

Init ==
    /\ keepAlive \in BOOLEAN
    /\ connected = TRUE
    /\ pc = "recv"
    /\ rp = HttpRequestParser
    /\ buffer = <<>>
    /\ turns = 0
    /\ output = <<>>
    /\ todo = <<>>
    /\ wire = <<>>
    /\ leaving = FALSE
    /\ client = http_parser_init("RESPONSE")
    /\ sent = 0
    /\ mixed = FALSE
    /\ taken = HttpRequest
    /\ complete = 0

-----------------------------------------------------------------------------
(* The client *)

Send ==
    /\ sent < MaxRequests
    /\ ~leaving
    /\ \E r \in Requests :
          /\ todo' = Append(todo, r)
          /\ wire' = wire \o RequestDump(r)
    /\ sent' = sent + 1
    /\ mixed' = (mixed \/ todo # <<>>)
    /\ UNCHANGED <<server, leaving, client, taken, complete>>

Leave ==
    /\ ~leaving
    /\ leaving' = TRUE
    /\ UNCHANGED <<server, todo, wire, client, sent, history>>

(* The client reads what has been written to it.                           *)
ReadByte(p, ch) == IF Ok(p) THEN Consume(p, ch, "none") ELSE p

Read(p, text) ==
    LET read[i \in 0 .. Len(text)] ==
            IF i = 0 THEN StartCall(p) ELSE ReadByte(read[i - 1], text[i])
        last == read[Len(text)]
    IN  FinishCall(last, "none")

-----------------------------------------------------------------------------
(* recvRequest *)

(* Socket::close, also by ~Socket when the session is dropped.             *)
Close ==
    /\ connected' = FALSE
    /\ pc' = "returned"

(* What a read may return: bytes, or 0 at the end or when the buffer is    *)
(* full.                                                                   *)
Available(n) == n <= Len(wire) /\ n <= BuffSize - Len(buffer)

(* Fault: every read goes to the begin of the buffer.                      *)
NotAppended(text) == text

(* buffer.get() + total                                                    *)
Appended(text) == buffer \o text

(* HttpServer::handleClient: the response to a request.                    *)
ResponseTo(request) ==
    [HttpResponse(request.version, request.close /\ ~keepAlive) EXCEPT !.body = Body]

(* The locals of recvRequest when it is called (again).                    *)
Fresh ==
    /\ rp' = HttpRequestParser
    /\ buffer' = <<>>
    /\ turns' = 0

(* One turn of the loop, with what it leads to.                            *)
RecvRequest ==
    /\ pc = "recv" /\ connected
    /\ turns < MaxTurns
    /\ \E n \in {k \in 1 .. Len(wire) : Available(k)} :
         \E text \in {Appended(SubSeq(wire, 1, n))} :
          \E parsed \in {execute(rp, text)} :
            /\ wire' = SubSeq(wire, n + 1, Len(wire))
            /\ CASE ~Ok(parsed.parser) ->
                      Close /\ Fresh /\ UNCHANGED <<output, taken>>
                 [] Ok(parsed.parser) /\ parsed.finished ->
                      /\ pc' = "send"
                      /\ output' = ResponseDump(ResponseTo(parsed.data))
                      /\ taken' = parsed.data
                      /\ Fresh
                      /\ UNCHANGED connected
                 [] OTHER ->
                      /\ rp' = parsed
                      /\ buffer' = text
                      /\ turns' = turns + 1
                      /\ UNCHANGED <<pc, connected, output, taken>>
    /\ UNCHANGED <<keepAlive, todo, leaving, client, sent, mixed, complete>>

(* read returns 0 or -1: the client has left, the timeout of the socket    *)
(* has expired, or there is no room left.                                  *)
RecvFails ==
    /\ pc = "recv"
    /\ wire = <<>> \/ Len(buffer) = BuffSize \/ turns = MaxTurns
    /\ Close
    /\ Fresh
    /\ UNCHANGED <<keepAlive, output, peer, history>>

-----------------------------------------------------------------------------
(* sendResponse *)

(* Fault: the socket is not closed.                                        *)
LeaveOpen ==
    /\ pc' = IF keepAlive THEN "recv" ELSE "returned"
    /\ UNCHANGED connected

(* The next turn of handleClient, or the end of it.                        *)
NextRequest ==
    IF keepAlive THEN pc' = "recv" /\ UNCHANGED connected ELSE Close

(* Fault: a write that took a part of the text is repeated.                *)
RestFromStart(n) == IF n = Len(output) THEN <<>> ELSE output

(* offset += rt                                                            *)
Rest(n) == SubSeq(output, n + 1, Len(output))

(* A write takes some of the text; the last one, all that is left.         *)
Writable == IF turns < MaxTurns - 1 THEN {1, Len(output) \div 2, Len(output)} \ {0}
            ELSE {Len(output)}

SendResponse ==
    /\ pc = "send" /\ connected
    /\ \E n \in Writable :
        /\ output' = Rest(n)
        /\ client' = IF leaving THEN client ELSE Read(client, SubSeq(output, 1, n))
    /\ IF output' = <<>>
       THEN /\ NextRequest
            /\ turns' = 0
            /\ complete' = complete + 1
            /\ todo' = IF todo = <<>> THEN todo ELSE Tail(todo)
       ELSE turns' = turns + 1 /\ UNCHANGED <<connected, pc, complete, todo>>
    /\ UNCHANGED <<keepAlive, rp, buffer, wire, leaving, sent, mixed, taken>>

(* The client has left.  Nobody looks at what sendResponse returns.        *)
SendFails ==
    /\ pc = "send"
    /\ leaving
    /\ output' = <<>>
    /\ turns' = 0
    /\ NextRequest
    /\ UNCHANGED <<keepAlive, rp, buffer, peer, history>>

Next ==
    \/ Send \/ Leave
    \/ RecvRequest \/ RecvFails
    \/ SendResponse \/ SendFails

(* The scheduler runs the fiber whenever it is able to go on, and it is    *)
(* until handleClient returns: this is WF_server(Next), with what ENABLED  *)
(* means here written out.                                                 *)
Fairness == []<>(pc = "returned") \/ []<><<TRUE>>_server

Spec == Init /\ [][Next]_vars /\ Fairness
-----------------------------------------------------------------------------

(* The variables have their types; no read goes beyond the buffer.         *)
TypeOK ==
    /\ keepAlive \in BOOLEAN /\ connected \in BOOLEAN
    /\ pc \in {"recv", "send", "returned"}
    /\ Len(buffer) <= BuffSize
    /\ rp.parser.state \in States
    /\ turns \in 0 .. MaxTurns
    /\ sent \in 0 .. MaxRequests
    /\ complete \in 0 .. MaxRequests
    /\ DOMAIN taken = DOMAIN HttpRequest

(* What was received is what was written: HttpRequest::dump and            *)
(* HttpRequestParser are inverse, but for the close flag, which nobody     *)
(* sets, and the headers that dump adds.                                   *)
Same(got, r) ==
    /\ got.method = r.method
    /\ got.version = r.version
    /\ got.path = r.path
    /\ got.query = r.query
    /\ got.fragment = r.fragment
    /\ got.body = r.body
    /\ \A k \in DOMAIN r.headers : k \in DOMAIN got.headers /\ got.headers[k] = r.headers[k]
    /\ DOMAIN got.headers \subseteq DOMAIN r.headers \cup {Connection, ContentLength}

(* recvRequest gives the parser the whole buffer again after every read.   *)
(* Wherever the reads cut a request, this never makes another request of   *)
(* it, if its body is not longer than its header: the request is received  *)
(* as it was written, or it is refused.                                    *)
Genuine ==
    pc = "send" /\ ~mixed /\ todo # <<>> => Same(taken, Head(todo))

(* A request that is written with HttpRequest::dump, and that one read     *)
(* takes as a whole, is not refused.                                       *)
NotRefused ==
    [][(/\ pc = "recv" /\ pc' # "recv"
        /\ buffer = <<>> /\ wire # <<>> /\ wire' = <<>>
        /\ ~mixed) => pc' = "send"]_vars

(* What the server writes are responses, whatever the writes took: the     *)
(* parser of the client accepts every byte of them.                        *)
ClientReads == Ok(client)

(* The responses the client has read are those that were written as a      *)
(* whole, and it never gets more of them than it has sent requests.        *)
OneForOne ==
    [][/\ complete' <= sent
       /\ complete' # complete /\ ~leaving =>
             client'.state = IF http_should_keep_alive(client') THEN "s_start_res"
                             ELSE "s_dead"]_vars

(* A request that is on its way is answered, or the connection is closed.  *)
Answered == todo # <<>> ~> (todo = <<>> \/ ~connected)
=============================================================================
