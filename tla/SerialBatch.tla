----------------------------- MODULE SerialBatch -----------------------------
(***************************************************************************)
(* What for_each_bounded (src/workspace/parallel.rs) promises: the outcome *)
(* of the serial loop over the items, all the values in input order or the *)
(* first error of the input.  How an item ends shows when it ends.         *)
(***************************************************************************)
EXTENDS Naturals

CONSTANTS
    N,       \* the number of items
    Values,  \* what an item may return
    Errors   \* how an item may fail

ASSUME BatchAssumption == N \in Nat /\ "pending" \notin Errors

Items   == 1..N
Outcome == [ok: {TRUE}, value: Values] \cup [ok: {FALSE}, value: Errors]

Pending == [ok |-> FALSE, value |-> "pending"]

VARIABLES
    outcome, \* outcome[i]: how the future of item i ended, or Pending
    answer   \* the result of the batch, or Pending

\* The serial loop stops at the first error of the input.
FirstError(f) == {i \in Items : ~f[i].ok /\ \A j \in 1..i - 1 : f[j].ok}

SerialOutcome(f) ==
    IF FirstError(f) = {}
    THEN [ok |-> TRUE, value |-> [i \in Items |-> f[i].value]]
    ELSE f[CHOOSE i \in FirstError(f) : TRUE]

SerialInit == outcome = [i \in Items |-> Pending] /\ answer = Pending

\* An item ends once.
ItemEnds(i) ==
    /\ outcome[i] = Pending
    /\ outcome'[i] \in Outcome
    /\ outcome' = [outcome EXCEPT ![i] = outcome'[i]]
    /\ UNCHANGED answer

\* When all have, the batch answers as a loop over them would have.
Answers ==
    /\ answer = Pending
    /\ \A i \in Items : outcome[i] # Pending
    /\ answer' = SerialOutcome(outcome)
    /\ UNCHANGED outcome

SerialNext == (\E i \in Items : ItemEnds(i)) \/ Answers

SerialSpec == SerialInit /\ [][SerialNext]_<<outcome, answer>>
=============================================================================
