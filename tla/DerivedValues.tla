----------------------------- MODULE DerivedValues -----------------------------
(***************************************************************************)
(* What a Document promises its callers (src/documents/document.rs): "A    *)
(* snapshot ... every outstanding clone keeps the content it was created   *)
(* with".  A question about a snapshot, be it a derived value, a query or  *)
(* a reader, is answered from that snapshot alone, whatever is written to  *)
(* the document and whoever else asks in the meantime.                     *)
(***************************************************************************)
CONSTANTS
    Callers,        \* the threads that hold documents
    Contents,       \* what a document can hold: text, tree and matcher
    Questions,      \* what a caller can ask
    Answers(_, _),  \* the answers a question may get from a content
    NoCall          \* the value of a caller that asks nothing

VARIABLES
    content, \* what the document holds now
    asked,   \* of each caller: the content it holds and its question, or NoCall
    answer   \* of each caller: the answer it got, or NoCall

valueVars == <<content, asked, answer>>

ValuesInit ==
    /\ content \in Contents
    /\ asked = [c \in Callers |-> NoCall]
    /\ answer = [c \in Callers |-> NoCall]

Written ==
    /\ content' \in Contents
    /\ UNCHANGED <<asked, answer>>

Asks(c) ==
    /\ asked[c] = NoCall
    /\ \E q \in Questions : asked' = [asked EXCEPT ![c] = [content |-> content, question |-> q]]
    /\ UNCHANGED <<content, answer>>

IsAnswered(c) ==
    /\ asked[c] # NoCall /\ answer[c] = NoCall
    /\ \E a \in Answers(asked[c].question, asked[c].content) :
          answer' = [answer EXCEPT ![c] = a]
    /\ UNCHANGED <<content, asked>>

Leaves(c) ==
    /\ answer[c] # NoCall
    /\ asked' = [asked EXCEPT ![c] = NoCall]
    /\ answer' = [answer EXCEPT ![c] = NoCall]
    /\ UNCHANGED content

ValuesNext == Written \/ \E c \in Callers : Asks(c) \/ IsAnswered(c) \/ Leaves(c)

ValuesSpec == ValuesInit /\ [][ValuesNext]_valueVars
=============================================================================
