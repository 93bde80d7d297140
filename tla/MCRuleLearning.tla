--------------------------- MODULE MCRuleLearning ---------------------------
(* RuleLearning for TLC: answers that make one candidate, one identified   *)
(* user and unidentified ones, two workers.  The first policy promotes and *)
(* blocks at the lowest thresholds the settings admit, the second is       *)
(* disabled and out of range, so that loading replaces its values by       *)
(* defaults.                                                               *)
EXTENDS RuleLearning

MCDefaultPolicy == [enabled |-> TRUE, promote |-> FALSE, block |-> FALSE,
                    band |-> 2, evidence |-> 3, users |-> 2]
MCPolicies ==
    {[enabled |-> TRUE, promote |-> TRUE, block |-> TRUE,
      band |-> 1, evidence |-> 1, users |-> 0],
     [enabled |-> FALSE, promote |-> TRUE, block |-> TRUE,
      band |-> 0, evidence |-> 0, users |-> 0]}
MCRuleInputs ==
    {[on |-> FALSE, action |-> "block", blank |-> FALSE],
     [on |-> TRUE, action |-> "allow", blank |-> TRUE],
     [on |-> TRUE, action |-> "audit", blank |-> FALSE]}

Answer(cyber, band, category, indicators) ==
    [cyber |-> cyber, band |-> band, category |-> category,
     indicators |-> indicators]
MCAnswers ==
    {Answer(TRUE, 3, "malware", {"steal cookies", "deploy loader"}),
     Answer(TRUE, 1, "malware", {"steal cookies", "deploy loader", "10.0.0.1"}),
     Answer(TRUE, 3, "malware", {"steal cookies", "10.0.0.1"}),
     Answer(TRUE, 3, "billing", {"steal cookies", "deploy loader"}),
     Answer(FALSE, 3, "malware", {"steal cookies", "deploy loader"}),
     Answer(TRUE, 0, "malware", {"steal cookies", "deploy loader"})}
=============================================================================
