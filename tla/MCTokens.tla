------------------------------ MODULE MCTokens ------------------------------
(* An instance of TokenStream over short texts: a character of one byte and  *)
(* one of two or of four, and one line break.  Two plain characters have the *)
(* bytes of one accented, and not its code units.                            *)
EXTENDS TokenStream

MCTexts ==
    {s \in UNION {[1..n -> DOMAIN Bytes] : n \in 0..3} :
        /\ ~ {"accented", "astral"} \subseteq ToSet(s)
        /\ Cardinality({i \in 1..Len(s) : s[i] = "newline"}) <= 1}

MCInserts == {<<>>, <<"accented">>, <<"astral">>, <<"newline", "plain">>}

\* The implementor highlights words of every character.
MCHighlights == {{"plain", "accented", "astral"}}
=============================================================================
