--------------------------- MODULE MCHttpSession ---------------------------
(* Requests for TLC: the default, one with a body, one with more header.   *)
EXTENDS HttpSession

TestRequests ==
    {HttpRequest,
     [HttpRequest EXCEPT !.method = "POST", !.version = 16, !.path = <<"/", "x">>,
                         !.body = <<"G", CR>>],
     [HttpRequest EXCEPT !.query = <<"x", "?">>, !.fragment = <<"x">>, !.close = TRUE,
                         !.headers = <<"x">> :> <<"n">> @@ <<"x", "x">> :> <<>>]}
TestBody == <<"x", "x">>
=============================================================================
