----------------------------- MODULE BatchContract -----------------------------
(***************************************************************************)
(* What a batch promises to whoever submitted it, however many drivers     *)
(* take it over: each case is answered at most once, the batch ends once,  *)
(* and a batch that succeeded reports exactly the answers of all its cases *)
(* as they stood when it ended.  A case may still be answered after the    *)
(* batch was stopped or failed; nobody will report it.                     *)
(***************************************************************************)
CONSTANT Cases

VARIABLES status,    \* of the batch
          answer,    \* answer[c]: how case c ended
          reported   \* reported[c]: what the batch says of it

vars == <<status, answer, reported>>

Unanswered == [c \in Cases |-> "none"]
Stops == {"cancelled", "superseded"}

Init == status = "open" /\ answer = Unanswered /\ reported = Unanswered

\* One case is answered, once.
Answer(c) ==
    /\ status # "succeeded" /\ answer[c] = "none"
    /\ \E a \in {"succeeded", "failed"} : answer' = [answer EXCEPT ![c] = a]
    /\ UNCHANGED <<status, reported>>

\* All are, and the batch reports them.
Succeed ==
    /\ status = "open" /\ \A c \in Cases : answer[c] # "none"
    /\ status' = "succeeded" /\ reported' = answer
    /\ UNCHANGED answer

\* It ends without a report.  A stopped batch may change the name of its end.
Fail == status = "open" /\ status' = "failed" /\ UNCHANGED <<answer, reported>>
Stop == status \in {"open"} \cup Stops /\ status' \in Stops /\ UNCHANGED <<answer, reported>>

Next == Succeed \/ Fail \/ Stop \/ \E c \in Cases : Answer(c)

Spec == Init /\ [][Next]_vars
=============================================================================
