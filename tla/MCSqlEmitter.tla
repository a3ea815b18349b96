---------------------------- MODULE MCSqlEmitter ----------------------------
(* SqlEmitter on plans of up to six nodes.                                 *)
EXTENDS SqlEmitter

Node(kind, inputs) == [kind |-> kind, inputs |-> inputs]
Scan == Node("Scan", <<>>)
Unary == {"Filter", "Project", "Aggregate", "Sort", "Fetch"}

(* Chains, and joins and unions with something above and below them.       *)
Chains == {<<Node(a, <<2>>), Node(b, <<3>>), Scan, Scan, Scan, Scan>> : a, b \in Unary}
Branches == {<<Node(a, <<2>>), Node(b, <<3, 4>>), Node(c, <<5>>), Node(d, <<6>>), Scan, Scan>> :
               a \in {"Project", "Fetch"}, b \in {"Join", "Union"}, c, d \in Unary}
Joins == {<<Node(a, <<2, 3>>), Node(b, <<4, 5>>), Node(c, <<6>>), Scan, Scan, Scan>> :
            a, b \in {"Join", "Union"}, c \in Unary}
NoInputs == {<<Node("Project", <<2>>), Node("Union", <<>>), Scan, Scan, Scan, Scan>>}

MCPlans == Chains \cup Branches \cup Joins \cup NoInputs
=============================================================================
