------------------------------ MODULE MCDocument ------------------------------
(* Instances of DerivedData and of TextRanges.  A behaviour is one of callers *)
(* that ask a document or one of ranges that are cut: the halves never meet.  *)
EXTENDS DerivedData, TextRanges

VARIABLE half

Calls  == half = "calls" /\ UNCHANGED <<half, rangeVars>>
Ranges == half = "ranges" /\ UNCHANGED <<half, derivedVars>>

Content(text, matcher, parsed) == [text |-> text, matcher |-> matcher, parsed |-> parsed]

MCContents == {Content(<< <<1, 2>>, <<3>> >>, "json", TRUE), Content(<< <<2>> >>, "json", TRUE),
               Content(<< <<2>> >>, "yaml", TRUE), Content(<< <<2>> >>, NoOne, FALSE)}
MCNeeds == ("outline" :> {"tokens"}) @@ ("tokens" :> {})
MCCompiles == {<<"json", "q">>}

\* Up to four characters.
MCDocs == {FlattenSeq(s) : s \in SeqOf({<<"plain">>, <<"newline">>, <<"slash">>, <<"lead", "trail">>}, 4)}

DocumentInit ==
    \/ half = "calls" /\ DerivedInit /\ doc = << >> /\ bytes = None /\ lsp = None /\ ts = None
                     /\ counted = TRUE
    \/ half = "ranges" /\ RangesInit /\ DerivedInit /\ Last(generations).matcher = NoOne

DocumentNext ==
    \/ Calls /\ InstallsFromParts
    \/ Calls /\ InstallsFromSharedMeta
    \/ \E c \in Callers :
          \/ Calls /\ Asked(c)
          \/ Calls /\ Returned(c)
          \/ Calls /\ Found(c)
          \/ Calls /\ Missed(c)
          \/ Calls /\ Nests(c)
          \/ Calls /\ Memoizes(c)
          \/ Calls /\ Panics(c)
          \/ Calls /\ FindsNoTree(c)
          \/ Calls /\ RunsCached(c)
          \/ Calls /\ CompileFails(c)
          \/ Calls /\ CompilesQuery(c)
          \/ Calls /\ InsertsQuery(c)
          \/ \E size \in Buffers : Calls /\ Reads(c, size)
    \/ Ranges /\ SplitsAt
    \/ Ranges /\ Shrinks
    \/ Ranges /\ Subs
    \/ Ranges /\ Delimits
    \/ Ranges /\ DelimitsTwice
    \/ Ranges /\ RefusesDelimiter

DocumentSpec == /\ DocumentInit /\ [][DocumentNext]_<<half, derivedVars, rangeVars>>
                /\ \A c \in Callers : WF_derivedVars(Steps(c))
=============================================================================
