--------------------------- MODULE DocumentInputs ---------------------------
(* Workflow documents for StageCompilation.                                *)
EXTENDS Integers, Sequences, TLC

CONSTANT None

(* Document values.                                                        *)
Lit(t) == [text |-> t]
Ref(r) == [ref |-> r, field |-> None]
At(r, f) == [ref |-> r, field |-> f]
Bad == [malformed |-> TRUE]
T(parts) == [kind |-> "text", parts |-> parts]
W(t) == T(<<Lit(t)>>)
O(fields) == [kind |-> "object", fields |-> fields]
L(items) == [kind |-> "list", items |-> items]
N(t) == [kind |-> "number", text |-> t]

(* What the workflow's variables resolve to: lists of texts, of objects,   *)
(* of a text no id can have, of nothing, and no list.                      *)
S(t) == [type |-> "string", text |-> t]
One == [type |-> "int", text |-> <<"1">>]
FG(f) == [type |-> "object", fields |-> [f |-> S(f), g |-> One]]
ListOf(items) == [type |-> "list", items |-> items]
Variables ==
    "vs" :> ListOf(<<S(<<"b", "-", "c">>), S(<<"c">>)>>) @@ "os" :> ListOf(<<FG(<<"c">>), FG(<<"b", "-", "c">>)>>)
    @@ "bs" :> ListOf(<<S(<<"/">>)>>) @@ "none" :> ListOf(<<>>) @@ "one" :> One

(* A plain asset, one every worker has for itself, a collection, and the   *)
(* publish targets.                                                        *)
Y == <<"y">>
Base(n, ps, ds, t, fs) ==
    [name |-> n, parameters |-> ps, dimensions |-> ds, template |-> t, files |-> fs, select |-> <<>>,
     scope |-> "shared", source |-> <<n>>, transfers |-> <<"0">>]
Years == [parameter |-> Y, values |-> None, range |-> [from |-> 1, through |-> 2]]
Definitions ==
    "plain" :> Base("plain", Y :> "string", <<>>, <<>>, <<>>)
    @@ "own" :> [Base("own", Y :> "string", <<>>, <<>>, <<>>) EXCEPT !.scope = "worker"]
    @@ "many" :> Base("many", Y :> "int", <<Years>>, <<[param |-> Y]>>, <<"x">>)
Targets ==
    "out" :> [parameters |-> (Y :> "string"), location |-> "registered_location"]
    @@ "web" :> [parameters |-> (Y :> ""), location |-> "http"]
-----------------------------------------------------------------------------
Fan(over, id) == [over |-> T(<<Ref(over)>>), as |-> W(<<"v">>), id |-> T(id)]
IDs == {<<Ref("v")>>, <<Ref("fanout")>>, <<At("v", "f")>>, <<Lit(<<"c">>)>>, <<Bad>>, <<Ref("data")>>}
Fans ==
    {Fan(o, id) : o \in {"vs", "os", "bs", "none", "one", "unknown"}, id \in IDs}
    \cup {Fan("vs", <<Ref("v")>>) @@ [output |-> T(<<Lit(<<"o">>)>>)],
          [Fan("vs", <<Lit(<<"x">>)>>) EXCEPT !.as = W(<<"step">>)],
          Fan("vs", <<Ref("v")>>) @@ [extra |-> W(<<"o">>)]}

Key(k) ==
    O([resource_key |-> k, requested_units |-> N(<<"1">>), operator |-> W(<<"<=">>), target_units |-> N(<<"2">>)])
Params(p) == [parameters |-> O(p)]
Accessors == [parameter_accessors |-> O([p |-> W(<<"f">>)])]
Works(type) ==
    {[type |-> W(<<type>>)] @@ w : w \in
       {<<>>, Params([p |-> T(<<Lit(<<"x">>), Ref("v")>>)]),
        Params([p |-> T(<<Ref("runtime")>>), q |-> L(<<N(<<"1">>), T(<<At("v", "f")>>)>>)]),
        Params([publish |-> N(<<"1">>)]), Params([p |-> N(<<"1">>)]) @@ Accessors, Accessors,
        Params([target_environment_id |-> W(<<"e">>)]), Params([target_environment_id |-> N(<<"1">>)]),
        [resource_constraints |-> L(<<Key(T(<<Ref("v")>>)), Key(W(<<"k">>))>>)],
        [resource_constraints |-> L(<<Key(W(<<"k">>)), Key(W(<<"k">>))>>)],
        [output_prefix |-> W(<<"z">>)], [Type |-> W(<<"z">>)]}}

Bound(asset, y) == O([asset |-> W(<<asset>>), with |-> O(Y :> y)])
Free(asset) == O([asset |-> W(<<asset>>)])
Materialize(b) == [data |-> O([materialize |-> O([m |-> b])])]
Uses(b) == [data |-> O([inputs |-> O([m |-> b])])]
Commit(target, y) ==
    [data |-> O([outputs |-> O([m |-> O([from |-> O([step |-> W(<<"a">>), artifact |-> W(<<"t">>)]),
                                         target |-> W(<<target>>), with |-> O(Y :> y)])])])]

Bindings == {T(<<Ref("v")>>), W(<<"s">>), T(<<At("v", "f")>>), N(<<"1">>)}
Datas ==
    {<<>>, Materialize(Free("plain")), Materialize(Free("many"))}
    \cup {Materialize(Bound(a, y)) : a \in {"plain", "many", "unknown"}, y \in Bindings}
    \cup {Materialize(Bound("own", W(<<"s">>)))}
    \cup {Uses(Bound(a, y)) : a \in {"plain", "many", "unknown"}, y \in Bindings}
    \cup {Commit(t, y) : t \in {"out", "web", "unknown"}, y \in Bindings}
-----------------------------------------------------------------------------
(* Documents of one step, in every form.                                   *)
Singles ==
    {[id |-> W(<<"a">>), work |-> O(w)] @@ d @@ f :
        w \in Works("python_script") \cup Works("asset.materialize") \cup Works("commit_data"), d \in Datas,
        f \in {<<>>, [fan_out |-> O(Fan("vs", <<Ref("v")>>))], [fan_out |-> O(Fan("os", <<At("v", "f")>>))]}}
    \cup {[id |-> W(<<"a">>), work |-> O([type |-> W(<<t>>)]), fan_out |-> O(f)] :
             f \in Fans, t \in {"python_script", "cache_data"}}

(* Of two steps, whose items may get the same id.                          *)
Typed(type) == [work |-> O([type |-> W(<<type>>)])]
FanOut(f) == [fan_out |-> O(f)]
OverVs == FanOut(Fan("vs", <<Ref("v")>>))
Forms ==
    {Typed("python_script") @@ OverVs, Typed("python_script") @@ FanOut(Fan("os", <<At("v", "f")>>)),
     [work |-> O([type |-> W(<<"commit_data">>), resource_constraints |-> L(<<Key(W(<<"k">>))>>)])]
         @@ OverVs @@ Commit("out", T(<<Ref("v")>>))}
    \cup {Typed("asset.materialize") @@ OverVs @@ Materialize(Bound("plain", y)) : y \in {T(<<Ref("v")>>), W(<<"s">>)}}
    \cup {Typed("asset.materialize") @@ Materialize(b) : b \in {Free("many"), Bound("plain", W(<<"c">>))}}

Named(id, label, s) == [id |-> W(id)] @@ s @@ (IF label = <<>> THEN <<>> ELSE [parallel_with |-> W(label)])
Twos ==
    {<<Named(i, l, k), Named(j, m, n)>> :
        i, j \in {<<"a">>, <<"a", "-", "b">>}, l, m \in {<<>>, <<"p">>}, k, n \in Forms}

(* Of four steps, with every combination of labels.                        *)
Labels == {<<>>, <<"p">>, <<" ", "p">>, <<"q">>}
Step(id, label) == Named(<<id>>, label, Typed("python_script") @@ OverVs)
Fours == {<<Step("a", k), Step("b", l), Step("c", m), Step("d", n)>> : k, l, m, n \in Labels}

Doc(steps) ==
    [api_version |-> W(<<"goet/v1alpha1">>), kind |-> W(<<"Workflow">>), id |-> W(<<"w">>),
     steps |-> L([i \in DOMAIN steps |-> O(steps[i])])]
Odd ==
    {[workflow |-> N(<<"1">>)], Doc(<<>>), [kind |-> W(<<"Workflow">>)], Doc(<<>>) @@ [Steps |-> L(<<>>)],
     [Doc(<<>>) EXCEPT !.kind = W(<<"Project">>)]}

Documents ==
    {[doc |-> d, vars |-> Variables, inputs |-> Definitions, outputs |-> Targets] :
        d \in {Doc(<<s>>) : s \in Singles} \cup {Doc(p) : p \in Twos \cup Fours} \cup Odd}
=============================================================================
