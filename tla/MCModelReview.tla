---------------------------- MODULE MCModelReview ----------------------------
(* ModelReview for TLC: the two chunks of a request, with no verifier, one *)
(* or a panel of two, share one slot.                                      *)
EXTENDS ModelReview, ModelOutput

MCRequestOf == [c \in Calls |-> "r1"]

Policy(decision, confidence, category, code, evidence) ==
    [decision |-> decision, confidence |-> confidence, category |-> category,
     code |-> code, evidence |-> evidence, complete |-> TRUE]
Object(p, kids) == [k |-> "object", policy |-> p, kids |-> kids]
Array(kids) == [k |-> "array", kids |-> kids]
JSON(v) == [k |-> "json", value |-> v]
Text(c) == [k |-> "string", text |-> c]
Prose(objects, torn) == [k |-> "prose", objects |-> objects, torn |-> torn]
Empty == [k |-> "empty"]
Body(final, others) ==
    [k |-> "body", choices |-> 1, cut |-> FALSE, final |-> final, others |-> others]

Allow == Policy("allow", "high", "benign", "NONE", "")
Deny == Policy("block", "high", "cyber", "governed", "harm")
Plain(p) == Body(JSON(Object(p, <<>>)), Empty)
Wrapped(p) == Object(NoPolicy, <<Text(JSON(Object(p, <<>>)))>>)

MCResponses ==
    {[k |-> "transport", class |-> "timeout"],
     [k |-> "status", status |-> 400, says |-> "context"],
     [k |-> "status", status |-> 401, says |-> ""],
     Plain(Allow),
     Plain(Policy("allow", "low", "benign", "", "")),
     Plain(Policy("allow", "high", "benign", "governed", "")),
     Plain([Allow EXCEPT !.complete = FALSE]),
     Plain(Policy("review", "high", "cyber", "offscope", "inert")),
     Plain(Policy("review", "low", "cyber", "governed", "harm")),
     Plain(Policy("block", "high", "cyber", "governed", "invented")),
     Plain(Policy("block", "high", "cyber", "governed", "topic")),
     Plain(Policy("block", "high", "cyber", "governed", "active")),
     Plain(Policy("block", "high", "cyber", "offscope", "mentioned")),
     Plain(Policy("block", "high", "cyber", "NONE", "harm")),
     Body(JSON(Array(<<[k |-> "number"], Wrapped(Deny)>>)), Empty),
     Body(Prose(<<Object(Deny, <<>>)>>, FALSE), Prose(<<Object(Allow, <<>>)>>, FALSE)),
     Body(Prose(<<Object(Deny, <<>>)>>, TRUE), Empty),
     Body(Empty, Prose(<<Object(Deny, <<>>), Object(Allow, <<>>)>>, FALSE)),
     Body(JSON(Object(Deny, <<Wrapped(Allow)>>)), Empty),
     Body(JSON(Array(<<Wrapped(Deny), Wrapped(Allow)>>)), Empty),
     Body([k |-> "repeated"], Empty),
     Body([k |-> "broken"], Empty),
     Body(Empty, Empty),
     [Plain(Deny) EXCEPT !.choices = 2],
     [Plain(Allow) EXCEPT !.cut = TRUE]}
=============================================================================
