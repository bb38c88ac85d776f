---------------------------- MODULE OutputInputs ----------------------------
(* Collections, step outputs, file templates and hydrations for            *)
(* StepOutputs.  Texts are sequences of characters.                        *)
EXTENDS Integers, Sequences, FiniteSets, TLC

CONSTANT None

Y == <<"y">>
M == <<"m", "1">>
K == <<"k">>
F == <<"f">>
Whole(t) == [type |-> "int", text |-> t]
Text(t) == [text |-> t]
Param(n) == [param |-> n]
TextValue(t) == [type |-> "string", text |-> t]
Dim(n, values, range) == [parameter |-> n, values |-> values, range |-> range]
Def(n, parameters, dimensions, template, files, select, scope) ==
    [name |-> n, parameters |-> parameters, dimensions |-> dimensions, template |-> template, files |-> files,
     select |-> select, scope |-> scope]

(* Values that are a part of one another, of the template, or repeated.    *)
Years == Dim(Y, None, [from |-> 9, through |-> 11])
Digit == Dim(Y, None, [from |-> 1, through |-> 2])
Backwards == Dim(Y, None, [from |-> 2, through |-> 1])
Models == Dim(M, <<TextValue(<<"1">>), TextValue(<<"a">>)>>, None)
Twice == Dim(M, <<TextValue(<<"1">>), TextValue(<<"1">>)>>, None)
Kinds == Dim(K, <<TextValue(<<"a">>), TextValue(<<"b", "a">>)>>, None)

DimensionLists ==
    {<<Years>>, <<Digit>>, <<Backwards>>, <<Digit, Models>>, <<Models, Digit>>, <<Years, Kinds>>, <<Twice>>}
ParamsOf(ds) == [n \in {ds[i].parameter : i \in DOMAIN ds} \cup {F} |-> IF n = Y THEN "int" ELSE ""]
Templates == UNION {[1 .. n -> {Text(<<"/">>), Text(<<"1">>), Param(Y), Param(M), Param(K), Param(F)}] : n \in {0, 2, 3}}

Asked(def, with, env, alias, roots) ==
    [kind |-> "collection", def |-> def, selection |-> <<>>, with |-> with, env |-> env, alias |-> alias,
     roots |-> roots, fanOut |-> FALSE]

(* Where each of the items puts what it materialized.                      *)
SameRoot == [i \in 1 .. 6 |-> <<"/">>]
Moved == [SameRoot EXCEPT ![2] = <<"/", "b">>]

Collections ==
    {Asked(Def("d", ParamsOf(ds), ds, t, <<"x", "z">>, how[1], "shared"), F :> TextValue(<<"c">>), "e1", "in", how[2]) :
        ds \in DimensionLists, t \in Templates, how \in {<<<<>>, SameRoot>>, <<<<"x">>, SameRoot>>, <<<<>>, Moved>>}}
-----------------------------------------------------------------------------
(* Up to three items of a step, with their outputs and the sizes of these. *)
Obj(n) == [kind |-> "object", of |-> <<[kind |-> n]>>]
Item(i, state, output, size) == [index |-> i, state |-> state, output |-> output, size |-> size]
ItemOf(sizes) ==
    {Item(i, s, o, z) : i \in 0 .. 1, s \in {"completed", "skipped", "running"}, z \in sizes,
                        o \in {Obj("int"), Obj("null"), [kind |-> "list", of |-> <<>>], [kind |-> "float"]}}
SmallItem ==
    {Item(i, "completed", o, 1) : i \in 0 .. 2, o \in {Obj("int"), Obj("bool")}}
    \cup {Item(i, "completed", Obj("string"), 2) : i \in 0 .. 2}

(* A materialized asset, and the only member of a collection.              *)
Asset(member) == [kind |-> "object", of |-> <<>>, asset |-> [member |-> member]]
Member == [index |-> 0, count |-> 1, order |-> <<>>, bindings |-> <<>>]
Mixed == {Item(i, "completed", Asset(m), 1) : i \in 0 .. 1, m \in {None, Member, [Member EXCEPT !.index = 1]}}

StepOf(items) == [kind |-> "step", items |-> items]
StepsDone ==
    UNION {{StepOf(<<>>)}, {StepOf(<<a>>) : a \in ItemOf({0, 2, 3})}, {StepOf(<<a, b>>) : a, b \in ItemOf({0, 2})},
           {StepOf(<<a, b, c>>) : a, b, c \in SmallItem}, {StepOf(<<a, b>>) : a \in Mixed, b \in ItemOf({1})}}

Texts == {[kind |-> "text", text |-> t] : t \in UNION {[1 .. n -> {"\\", "${", "x", "}"}] : n \in 0 .. 4}}
-----------------------------------------------------------------------------
(* What earlier items materialized, and what an item needs of it.          *)
Simple(scope) == Def("p", F :> "", <<>>, <<>>, <<>>, <<>>, scope)
Placed == Def("q", F :> "", <<>>, <<Param(F)>>, <<>>, <<>>, "shared")
WithRoles == Def("s", F :> "", <<>>, <<>>, <<"x">>, <<>>, "shared")
Many == Def("c", Y :> "int", <<Digit>>, <<Param(Y)>>, <<"x">>, <<>>, "shared")
Fv(v) == F :> TextValue(<<v>>)

Done(def, with, env, alias, stage, state) ==
    Asked(def, with, env, alias, SameRoot) @@ [item |-> "i", stage |-> stage, state |-> state]
Materialized ==
    {Done(d, Fv(v), "e1", "a", 0, "completed") : d \in {Simple("shared"), Placed, WithRoles}, v \in {"1", "2"}}
    \cup {Done(Simple("shared"), Fv("1"), "e1", al, n, s) :
             al \in {"a", "b"}, n \in 0 .. 1, s \in {"completed", "failed"}}
    \cup {Done(Simple("shared"), Fv("1"), "e2", "a", 0, "completed"), Done(Many, <<>>, "e1", "a", 0, "completed")}
    \cup {[Done(d, Fv("1"), "e1", "a", 0, "completed") EXCEPT !.fanOut = TRUE] : d \in {Simple("shared"), Placed}}
MaterializedSets ==
    {{}} \cup {{m} : m \in Materialized} \cup {{m, [n EXCEPT !.item = "j"]} : m, n \in Materialized}

Need(alias, def, with) == [alias |-> alias, def |-> def, selection |-> <<>>, with |-> with]
Needs ==
    {Need("a", d, Fv(v)) : d \in {Simple("shared"), Placed, WithRoles, Simple("worker"), Simple("")}, v \in {"1", "2"}}
    \cup {Need("a", Many, Y :> Whole(<<"1">>))}
NeedLists ==
    {<<>>} \cup {<<n>> : n \in Needs}
    \cup {<<Need("a", d, Fv("1")), Need("b", d, Fv("2"))>> : d \in {Simple("shared"), Placed}}

Hydration(ms, ns, d, type, given) ==
    [kind |-> "hydrate", materialized |-> ms, needs |-> ns, env |-> "e1", dependsOn |-> d, type |-> type, given |-> given]
Hydrations ==
    {Hydration(ms, ns, d, "python_script", <<>>) :
        ms \in MaterializedSets, ns \in NeedLists, d \in {{}, {<<"i", 1>>, <<"j", 1>>}}}
    \cup {Hydration({m}, <<n>>, {}, how[1], how[2]) :
        m \in Materialized, n \in Needs,
        how \in {<<"asset.materialize", <<>>>>, <<"commit_data", <<>>>>, <<"python_script", <<"x">>>>}}

Questions == Collections \cup StepsDone \cup Texts \cup Hydrations
=============================================================================
