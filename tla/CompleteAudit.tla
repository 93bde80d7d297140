---------------------------- MODULE CompleteAudit ----------------------------
(***************************************************************************)
(* What an audit of a request in several chunks promises, whatever runs it *)
(* (audit_long_context.go: "Never return review/allow until every chunk    *)
(* has produced a decision"): the model judges chunks in any order, and    *)
(* the verdict of the whole follows from the judgements made.              *)
(***************************************************************************)
EXTENDS Naturals

CONSTANT Chunks

VARIABLES
    judged,    \* chunk -> decisions the model has given for it
    verdict    \* "none" until the audit returns

vars == <<judged, verdict>>

Decisions == {"allow", "review", "block"}
Verdicts == Decisions \cup {"error"}

Init ==
    /\ judged = [c \in Chunks |-> {}]
    /\ verdict = "none"

Judge(c, d) ==
    /\ verdict = "none"
    /\ judged' = [judged EXCEPT ![c] = @ \cup {d}]
    /\ UNCHANGED verdict

\* A verdict other than an error is justified by the judgements: allow and
\* review only when every chunk was judged, and no block is forgotten.
Justified(v) ==
    /\ v \in {"allow", "review"} =>
          \A c \in Chunks : judged[c] # {} /\ "block" \notin judged[c]
    /\ v = "allow" => \A c \in Chunks : "allow" \in judged[c]
    /\ v = "block" => \E c \in Chunks : "block" \in judged[c]
    /\ (\E c \in Chunks : "block" \in judged[c]) => v = "block"

Return(v) ==
    /\ verdict = "none"
    /\ Justified(v)
    /\ verdict' = v
    /\ UNCHANGED judged

Next ==
    \/ \E c \in Chunks, d \in Decisions : Judge(c, d)
    \/ \E v \in Verdicts : Return(v)

Spec == Init /\ [][Next]_vars
=============================================================================
