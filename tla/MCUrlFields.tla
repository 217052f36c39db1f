---------------------------- MODULE MCUrlFields ----------------------------
(* Every text of up to MaxLetters characters, every server of as many, and *)
(* servers so long that what follows them has offsets from OffMod on.      *)
EXTENDS UrlFields

TestBeginnings ==
    {<<>>, <<"x", ":", "/", "/">>, <<"x", ":", "/", "/", "x", "x">>}
TestCharacters == {"x", "0", "1", "/", ":", "?", "#", "@", "[", "]", "%", "*"}
=============================================================================
