--------------------------- MODULE MCParserCalls ---------------------------
(* The pieces of input for TLC: lines of requests and of responses, header *)
(* fields and bodies, and pieces that belong nowhere.                      *)
EXTENDS ParserCalls

Version == <<"H", "T", "T", "P", "/", "1", ".", "1">>
Crlf == <<CR, LF>>

Lines ==
    {<<"G", "rest", SP, "/", "x", "?", "x", SP>> \o Version \o Crlf,
     <<"C", "rest", SP, "x", ":", "1", SP>> \o Version \o Crlf,
     <<"S", "ource", SP, "x", ":", "/", "/", "x", LF>>,
     Version \o <<SP, "1", "0", "1", SP, "x", LF>>,
     Version \o <<SP, "1", "1", LF>>}

ContentLength == <<"C", "o", "n", "T", "ent-length", ":">>

Fields ==
    {ContentLength \o <<"2", SP>>, ContentLength \o <<"0", "1", LF, SP>>,
     <<"T", "ransfer-encoding", ":", "x", ",", "C", "hunked">>,
     <<"C", "o", "n", "n", "ection", ":", "C", "lose", ",", SP, "U", "pgrade">>,
     <<"P", "roxy-connection", ":", "K", "eep-alive">>,
     <<"U", "pgrade", ":">>,
     <<"x", ":", CR, LF, TAB, "x">>}

Rest == {Crlf, <<LF>>, <<"2">>, <<"0">>, <<"x", "x">>, <<CTL>>}

TestPieces == Lines \cup {f \o Crlf : f \in Fields} \cup Rest
=============================================================================
