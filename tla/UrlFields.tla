----------------------------- MODULE UrlFields -----------------------------
(***************************************************************************)
(* http_parser_parse_url over every text up to a length: the text grows    *)
(* character by character, and the result is computed at each length.      *)
(***************************************************************************)
EXTENDS http_parser_url

CONSTANTS
    Characters,     \* the characters of the text,
    Beginnings,       \* what it may begin with,
    MaxLetters      \* bound: how many characters follow

ASSUME UrlAssumption ==
    /\ Characters \subseteq Alphabet \ Words
    /\ MaxLetters \in Nat

VARIABLES
    url,        \* the text
    left,       \* how much longer it may become
    connect,    \* the method is CONNECT
    u           \* what http_parser_parse_url makes of it

vars == <<url, left, connect, u>>

Init ==
    /\ url \in Beginnings
    /\ left = MaxLetters
    /\ connect \in BOOLEAN
    /\ u = http_parser_parse_url(url, connect)

Grows ==
    /\ left > 0
    /\ \E ch \in Characters : url' = Append(url, ch)
    /\ left' = left - 1
    /\ u' = http_parser_parse_url(url', connect)
    /\ UNCHANGED connect

Next == Grows
Spec == Init /\ [][Next]_vars

-----------------------------------------------------------------------------

Accepted == u.rc = 0
Exact == Len(url) < OffMod      \* every offset and every length fits
Text(f) == Slice(url, u, f)
Occurs(ch, s) == \E i \in DOMAIN s : s[i] = ch

(* The parts of a result have their types.                                 *)
TypeOK ==
    /\ u.rc \in {0, 1}
    /\ u.set \subseteq Fields
    /\ u.field \in [Fields -> [off : 0 .. (OffMod - 1), len : 0 .. (OffMod - 1)]]
    /\ u.port \in 0 .. MaxPort

(* An accepted URL whose offsets fit into uint16_t is its fields with      *)
(* their delimiters: no character is lost, delivered twice or put into the *)
(* wrong field.  What may be missing are empty fields, and a fragment may  *)
(* have several "#" before it.  Even in a longer one every field lies in   *)
(* the text.                                                               *)
Reassembled ==
    /\ \A f \in u.set : u.field[f].off + u.field[f].len <= Len(url)
    /\ Accepted /\ Exact =>
       \E user \in {<<>>, Text("USERINFO") \o <<"@">>},
          host \in {Text("HOST"), <<"[">> \o Text("HOST") \o <<"]">>},
          query \in {<<>>, <<"?">> \o Text("QUERY")},
          hashes \in 0 .. MaxLetters :
           url = (IF "SCHEMA" \in u.set THEN Text("SCHEMA") \o <<":", "/", "/">> ELSE <<>>)
                 \o user
                 \o host
                 \o (IF "PORT" \in u.set THEN <<":">> \o Text("PORT") ELSE <<>>)
                 \o Text("PATH")
                 \o query
                 \o [i \in 1 .. hashes |-> "#"]
                 \o Text("FRAGMENT")

(* A host is never empty, and is a name or an address: nothing of the user *)
(* or of the path is in it.                                                *)
HostIsHost ==
    Accepted /\ Exact /\ "HOST" \in u.set =>
        /\ Text("HOST") # <<>>
        /\ \A ch \in {"@", "/", "?", "[", "]", "*"} : ~Occurs(ch, Text("HOST"))
        /\ Occurs(":", Text("HOST")) => Occurs("[", url)

(* A number, as the sum of what its digits stand for.                      *)
Decimal(digits) ==
    MapThenSumSet(LAMBDA i : Value[digits[i]] * 10 ^ (Len(digits) - i), DOMAIN digits)

(* Whether a URL is accepted does not depend on how its port is written    *)
(* but on its number: where port 1 would be accepted, any digits are, with *)
(* the number they stand for, up to MaxPort, and no larger one is.         *)
PortValue ==
    Exact =>
    \A i, j \in DOMAIN url :
        /\ i < j /\ url[i] = ":"
        /\ \A k \in (i + 1) .. j : IS_NUM(url[k])
        /\ j < Len(url) => ~IS_NUM(url[j + 1])
        =>
        LET one == http_parser_parse_url(
                       SubSeq(url, 1, i) \o <<"1">> \o SubSeq(url, j + 1, Len(url)), connect)
            number == Decimal(SubSeq(url, i + 1, j))
        IN  one.rc = 0 /\ "PORT" \in one.set /\ one.field["PORT"].off = i =>
                /\ Accepted <=> number <= MaxPort
                /\ Accepted => u.port = number
=============================================================================
