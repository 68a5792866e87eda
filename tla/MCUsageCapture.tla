--------------------------- MODULE MCUsageCapture ---------------------------
(* Instances of UsageCapture for the model checker: every stream of a few  *)
(* lines, one of which looks like a usage event when its front is cut.     *)
EXTENDS UsageCapture, TLC

CONSTANT MaxLines

MCUsages == {"u1", "u2"}

MCSymbols == MCUsages \cup {"n", "d", "X", "c", "}"}

MCLines == {<<"d", "u1", "n">>, <<"d", "u2", "n">>, <<"d", "X", "n">>,
            <<"c", "d", "u2", "n">>, <<"d", "c", "n">>, <<"n">>}

Concat(lines) == FoldLeft(LAMBDA s, line : s \o line, <<>>, lines)

MCTexts == {Concat(lines) : lines \in UNION {[1..k -> MCLines] : k \in 1..MaxLines}}

MCBodies == {<<u>> \o [i \in 1..k |-> "c"] \o end :
                u \in MCUsages \cup {"c"}, k \in 0..4, end \in {<<>>, <<"}">>}}
=============================================================================
