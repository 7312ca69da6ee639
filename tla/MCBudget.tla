------------------------------ MODULE MCBudget ------------------------------
(* A small Run for TLC: concurrent goroutines that between them want more  *)
(* commands, more brace results and more files than the limits allow.      *)
EXTENDS Budget, TLC

MCResources == {"commands", "brace_results"}

MCLimit == [r \in MCResources |-> IF r = "commands" THEN 2 ELSE 1]

\* consumeCommand asks for one unit, expandBraces for as many as the word has.
MCBatch == [r \in MCResources |-> IF r = "commands" THEN {1} ELSE {1, 2}]

Symmetry == Permutations(Workers)

=============================================================================
