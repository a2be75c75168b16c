------------------------------ MODULE MCCombos ------------------------------
(***************************************************************************)
(* A small catalogue for TLC: two grok efforts and a CodeBuddy model.      *)
(***************************************************************************)
EXTENDS Combos, TLC

Catalogue == {"high", "low", "cb"}
TargetTable == ("high" :> "grok") @@ ("low" :> "grok") @@ ("cb" :> "cb")
EffortTable == ("high" :> "high") @@ ("low" :> "low") @@ ("cb" :> "unset")

\* "cb" may be made an alias of another Grok effort.
CustomName == "cb"
SomeBindings == {Binding("grok", "max")}

Combo(strategy, models) == [strategy |-> strategy, models |-> models]

\* A list for each strategy, an empty and an overlong one.
SomeInputs == {
    Combo("fallback", <<"high", "cb", "low">>), Combo("round_robin", <<"cb", "high">>),
    Combo("fallback", <<>>), Combo("fallback", <<"cb", "low", "high", "cb">>)}

\* A key that is allowed Grok: of the rotated list one model, and while it is an
\* alias the other, passes the check, of the walked list the first.
GrokOnly == {{"grok", "combo"}}

\* Requests are interchangeable.
Symmetry == Permutations(Requests)
=============================================================================
