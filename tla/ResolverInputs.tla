--------------------------- MODULE ResolverInputs ---------------------------
(* Variable sets for VariableResolver: a variable a of the workflow, a     *)
(* variable b it may refer to, and a variable c that is found in different *)
(* scopes, refers back to a, or comes from the environment.                *)
EXTENDS Integers, Sequences, TLC

Lit(c) == [lit |-> c]
At(k, accessor) == [ns |-> "", key |-> k, accessor |-> accessor]
In(ns, k) == [ns |-> ns, key |-> k, accessor |-> <<>>]
Tok(k) == At(k, <<>>)
Str(t, s) == [type |-> t, form |-> "text", text |-> s]
Num == [type |-> "int", form |-> "literal", value |-> 1]
Items(s) == [type |-> "list", form |-> "list", items |-> s]
Obj(e) == [type |-> "object", form |-> "object", fields |-> ("f" :> e)]
Call(f, t, args) == [type |-> t, form |-> "call", fn |-> f, result |-> t, args |-> args]
Field == <<[by |-> "field", name |-> "f"]>>
First == <<[by |-> "index", index |-> 0]>>

(* The ways an expression can use variable k.                              *)
Forms(k) ==
    {Str(t, <<Tok(k)>>) : t \in {"string", "int", "list"}}
    \cup {Str("string", <<Lit("x"), Tok(k)>>), Str("path", <<Tok(k), Tok(k)>>),
          Str("string", <<Lit("\\"), Tok(k), Tok(k)>>),
          Str("int", <<At(k, Field)>>), Str("int", <<At(k, First)>>),
          Obj(Str("int", <<Tok(k)>>)), Items(<<Num, Str("int", <<Tok(k)>>)>>)}
    \cup {Call("length", "int", <<Tok(k)>>), Call("flatten", "list", <<Tok(k)>>),
          Call("sort", "list", <<Tok(k)>>)}

Constants ==
    {Num, Str("string", <<>>), Str("string", <<Lit("x")>>), Items(<<Num, Num>>), Items(<<Items(<<Num>>)>>),
     Obj(Num), [type |-> "string", form |-> "protected"]}

AExprs ==
    Constants \cup Forms("b") \cup Forms("a")
    \cup {Call(f, "list", <<Tok("b"), Tok("c")>>) : f \in {"zip", "crossproduct"}}
    \cup {Str("string", <<In(ns, "c")>>) : ns \in {"controller_env", "workflow", "project_config"}}
BExprs == Constants \cup Forms("c")
CExprs == {Num, Str("string", <<Lit("x")>>), Items(<<Num>>), Str("string", <<Tok("a")>>)}

Var(ns, k, e) == [ns |-> ns, key |-> k, e |-> e]

(* Where c is: the project, the workflow too, the environment, or nowhere. *)
Scopes(a, b, c, where) ==
    <<IF where \in {"project", "both"} THEN {Var("project_config", "c", c)} ELSE {Var("project_config", "a", Num)},
      {Var("workflow", "a", a), Var("workflow", "b", b)}
          \cup (IF where = "both" THEN {Var("workflow", "c", Num)} ELSE {})>>

Environment(where) ==
    IF where = "env" THEN "c" :> <<Lit("e"), Tok("d")>> @@ "d" :> <<Lit("d")>> ELSE "d" :> <<>>

VariableSets ==
    {[ref |-> Tok("a"), set |-> [scopes |-> Scopes(a, b, c, where), env |-> Environment(where)]] :
        a \in AExprs, b \in BExprs, c \in CExprs, where \in {"project", "both", "env", "nowhere"}}
=============================================================================
