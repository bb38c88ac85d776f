-------------------------- MODULE VariableResolver --------------------------
(***************************************************************************)
(* How a reference to a configuration variable gets its value              *)
(* (internal/variable): scopes, references between variables, accessors,   *)
(* list functions, interpolation into text and its escapes.                *)
(*                                                                         *)
(* A text is a sequence of symbols, literal ones and ${...} tokens, so that*)
(* a token left in a text by an escape can be told from one to resolve.    *)
(* Types are string, path, int, list and object; bool and datetime values  *)
(* are handled as int values are.  Sensitivity labels are left out.        *)
(***************************************************************************)
EXTENDS Integers, Sequences, SequencesExt, FiniteSets, TLC

CONSTANTS MaxDepth,   \* ResolverConfig.MaxDepth, 10 unless configured
          None

Failed == [type |-> "error"]
Text(t, s) == [type |-> t, value |-> s]
ListOf(s) == [type |-> "list", value |-> s]

Lit(c) == [lit |-> c]
IsToken(x) == "key" \in DOMAIN x
Escapes(s, i) == s[i] = Lit("\\") /\ i < Len(s) /\ IsToken(s[i + 1])

(* A token counts unless a backslash stands before it.                     *)
parseInterpolationTokens(s) == {i \in DOMAIN s : IsToken(s[i]) /\ (i = 1 \/ ~Escapes(s, i - 1))}
wholeValueReference(s) == Len(s) = 1 /\ parseInterpolationTokens(s) = {1}
-----------------------------------------------------------------------------
(* Definitions.                                                            *)
RECURSIVE ValidateDefinition(_)
ValidateDefinition(e) ==
    CASE e.form = "call" -> e.result = e.type /\ e.args # <<>>
      [] e.form = "text" -> e.type \in {"string", "path"} \/ wholeValueReference(e.text)
      [] e.form = "literal" -> e.type = "int"
      [] e.form = "list" -> e.type = "list" /\ \A i \in DOMAIN e.items : ValidateDefinition(e.items[i])
      [] e.form = "object" -> e.type = "object" /\ \A f \in DOMAIN e.fields : ValidateDefinition(e.fields[f])
      [] OTHER -> e.form = "protected"

NewScope(variables) ==
    /\ \A v \in variables : ValidateDefinition(v.e)
    /\ \A v, w \in variables : v.key = w.key => v = w

(* Of the scopes that define something, Merge lets the one given last win. *)
Merge(found) ==
    LET having == {i \in DOMAIN found : found[i] # {}}
    IN  IF having = {} THEN None
        ELSE LET last == CHOOSE i \in having : \A j \in having : j <= i
             IN  CHOOSE v \in found[last] : TRUE

LookupReference(scopes, r) ==
    Merge([i \in DOMAIN scopes |-> {v \in scopes[i] : v.key = r.key /\ r.ns \in {"", v.ns}}])

lookupControllerEnvironment(env, key) ==
    IF key \notin DOMAIN env THEN None
    ELSE [ns |-> "controller_env", key |-> key,
          e |-> [type |-> "string", form |-> "text", text |-> env[key]]]

lookupVariable(set, r) ==
    LET found == IF r.ns = "controller_env" THEN None ELSE LookupReference(set.scopes, r)
    IN  IF found = None /\ r.ns \in {"", "controller_env"}
        THEN lookupControllerEnvironment(set.env, r.key) ELSE found
-----------------------------------------------------------------------------
(* Values.                                                                 *)
ApplyFieldAccessor(v, f) == IF v.type = "object" /\ f \in DOMAIN v.value THEN v.value[f] ELSE Failed

ApplyIndexAccessor(v, i) == IF v.type = "list" /\ i \in 0 .. Len(v.value) - 1 THEN v.value[i + 1] ELSE Failed

ApplyAccessor(v, accessor) ==
    FoldLeft(LAMBDA w, p : IF p.by = "field" THEN ApplyFieldAccessor(w, p.name)
                           ELSE ApplyIndexAccessor(w, p.index), v, accessor)

ApplyFanOutAccessor(v) == IF v.type = "list" THEN v ELSE Failed

interpolationText(v) ==
    CASE v.type \in {"string", "path"} /\ v.value # None -> Text("string", v.value)
      [] v.type = "int" -> Text("string", <<Lit(ToString(v.value))>>)
      [] OTHER -> Failed

AreLists(args, n) == Len(args) = n /\ \A i \in DOMAIN args : args[i].type = "list"
PairUp(x, y) == ListOf(<<x, y>>)

listCrossproductFunction(args) ==
    IF ~AreLists(args, 2) THEN Failed
    ELSE LET l == args[1].value  r == args[2].value
         IN  ListOf(FlattenSeq([i \in DOMAIN l |-> [j \in DOMAIN r |-> PairUp(l[i], r[j])]]))

listZipFunction(args) ==
    IF ~AreLists(args, 2) \/ Len(args[1].value) # Len(args[2].value) THEN Failed
    ELSE ListOf([i \in DOMAIN args[1].value |-> PairUp(args[1].value[i], args[2].value[i])])

listFlattenFunction(args) ==
    IF ~AreLists(args, 1) \/ \E i \in DOMAIN args[1].value : args[1].value[i].type # "list" THEN Failed
    ELSE ListOf(FlattenSeq([i \in DOMAIN args[1].value |-> args[1].value[i].value]))

listLengthFunction(args) ==
    IF AreLists(args, 1) THEN [type |-> "int", value |-> Len(args[1].value)] ELSE Failed

(* The functions of DefaultFunctionRegistry; no other name is known.       *)
Evaluate(fn, args) ==
    CASE fn = "crossproduct" -> listCrossproductFunction(args)
      [] fn = "zip" -> listZipFunction(args)
      [] fn = "flatten" -> listFlattenFunction(args)
      [] fn = "length" -> listLengthFunction(args)
      [] OTHER -> Failed

Typed(v, t) == IF v.type = t THEN v ELSE Failed

(* One failing part fails the whole.                                       *)
AllOrFail(parts, whole) == IF \E i \in DOMAIN parts : parts[i] = Failed THEN Failed ELSE whole
-----------------------------------------------------------------------------
RECURSIVE resolveExpression(_, _, _, _)
RECURSIVE resolveVariable(_, _, _, _)

(* Faulty: the depth limit is met one variable late.                       *)
TooDeepLate(depth) == depth > MaxDepth

TooDeep(depth) == depth >= MaxDepth

resolveVariable(set, v, depth, chain) ==
    IF <<v.ns, v.key>> \in chain \/ TooDeep(depth) THEN Failed
    ELSE resolveExpression(set, v.e, depth, chain \cup {<<v.ns, v.key>>})

resolveReference(set, r, depth, chain) ==
    LET v == lookupVariable(set, r)
    IN  IF v = None THEN Failed
        ELSE ApplyAccessor(resolveVariable(set, v, depth, chain), r.accessor)

interpolate(set, s, depth, chain) ==
    LET pieces == [i \in DOMAIN s |->
            IF i \in parseInterpolationTokens(s)
            THEN interpolationText(resolveReference(set, s[i], depth + 1, chain))
            ELSE Text("string", IF Escapes(s, i) THEN <<>> ELSE <<s[i]>>)]
    IN  AllOrFail(pieces, Text("string", FlattenSeq([i \in DOMAIN s |-> pieces[i].value])))

resolveFunctionCall(set, e, depth, chain) ==
    LET args == [i \in DOMAIN e.args |-> resolveReference(set, e.args[i], depth + 1, chain)]
    IN  AllOrFail(args, Typed(Evaluate(e.fn, args), e.type))

resolveExpression(set, e, depth, chain) ==
    CASE e.form = "protected" -> [type |-> e.type, value |-> None]
      [] e.form = "call" -> resolveFunctionCall(set, e, depth, chain)
      [] e.form = "text" ->
            IF wholeValueReference(e.text)
            THEN Typed(resolveReference(set, e.text[1], depth + 1, chain), e.type)
            ELSE LET t == interpolate(set, e.text, depth, chain)
                 IN  IF t = Failed THEN Failed ELSE Text(e.type, t.value)
      [] e.form = "list" ->
            LET items == [i \in DOMAIN e.items |-> resolveExpression(set, e.items[i], depth, chain)]
            IN  AllOrFail(items, ListOf(items))
      [] e.form = "object" ->
            LET fields == [f \in DOMAIN e.fields |-> resolveExpression(set, e.fields[f], depth, chain)]
            IN  AllOrFail(fields, [type |-> "object", value |-> fields])
      [] e.form = "literal" -> [type |-> e.type, value |-> e.value]

resolveRoot(set, r) ==
    LET v == lookupVariable(set, r)
    IN  IF v = None THEN Failed ELSE resolveVariable(set, v, 0, {})
-----------------------------------------------------------------------------
(* The typed getters.  An optional setting that is there but cannot be     *)
(* resolved is an error, not an absent setting.                            *)
Optional(set, r) == IF lookupVariable(set, r) = None THEN None ELSE resolveRoot(set, r)

requiredType(set, r, t) == Typed(resolveRoot(set, r), t)

optionalType(set, r, t) == LET v == Optional(set, r) IN IF v = None THEN None ELSE Typed(v, t)

NonEmpty(v) == IF v # Failed /\ v.value \notin {None, <<>>} THEN v ELSE Failed

String(set, r) == NonEmpty(requiredType(set, r, "string"))

PathOrString(set, r) ==
    LET v == resolveRoot(set, r) IN IF v.type \in {"path", "string"} THEN NonEmpty(v) ELSE Failed

OptionalString(set, r) ==
    LET v == optionalType(set, r, "string") IN IF v = None THEN None ELSE NonEmpty(v)

stringListValue(v) ==
    IF v # Failed /\ \A i \in DOMAIN v.value : NonEmpty(Typed(v.value[i], "string")) # Failed THEN v ELSE Failed

StringList(set, r) == stringListValue(requiredType(set, r, "list"))

ResolveFanOutExpression(set, r) == ApplyFanOutAccessor(resolveRoot(set, r))
-----------------------------------------------------------------------------
(* A variable set whose scopes are accepted.                               *)
Accepted(in) == \A n \in DOMAIN in.set.scopes : NewScope(in.set.scopes[n])

(* Everything the callers ask the resolver for, of one reference.          *)
Resolved(in) ==
    LET set == in.set  r == in.ref
    IN  [value |-> resolveRoot(set, r), optional |-> Optional(set, r),
         string |-> String(set, r), optionalString |-> OptionalString(set, r),
         path |-> PathOrString(set, r), list |-> StringList(set, r),
         fanOut |-> ResolveFanOutExpression(set, r)]
-----------------------------------------------------------------------------
(* The reference definition works bottom up.  In each round a variable     *)
(* gets its value from those its expression needs, if all of them had one  *)
(* the round before; MaxDepth rounds give what MaxDepth levels can give.   *)
Variables(set) ==
    UNION {set.scopes[i] : i \in DOMAIN set.scopes}
        \cup {lookupControllerEnvironment(set.env, k) : k \in DOMAIN set.env}

RECURSIVE Meaning(_, _, _)
Meaning(set, known, e) ==
    LET at(r) == LET v == lookupVariable(set, r)
                 IN  IF v = None THEN Failed ELSE ApplyAccessor(known[v], r.accessor)
        said(s, i) == CASE i \in parseInterpolationTokens(s) -> interpolationText(at(s[i]))
                        [] Escapes(s, i) -> Text("string", <<>>)
                        [] OTHER -> Text("string", <<s[i]>>)
        all(parts) == \A i \in DOMAIN parts : parts[i] # Failed
        parts == CASE e.form = "call" -> [i \in DOMAIN e.args |-> at(e.args[i])]
                   [] e.form = "text" /\ wholeValueReference(e.text) -> <<at(e.text[1])>>
                   [] e.form = "text" /\ ~wholeValueReference(e.text) -> [i \in DOMAIN e.text |-> said(e.text, i)]
                   [] e.form = "list" -> [i \in DOMAIN e.items |-> Meaning(set, known, e.items[i])]
                   [] e.form = "object" -> [f \in DOMAIN e.fields |-> Meaning(set, known, e.fields[f])]
                   [] OTHER -> <<>>
        whole == CASE e.form = "call" -> Evaluate(e.fn, parts)
                   [] e.form = "text" /\ wholeValueReference(e.text) -> parts[1]
                   [] e.form = "text" /\ ~wholeValueReference(e.text) ->
                        Text(e.type, FlattenSeq([i \in DOMAIN parts |-> parts[i].value]))
                   [] e.form \in {"list", "object"} -> [type |-> e.form, value |-> parts]
                   [] OTHER -> [type |-> e.type, value |-> IF e.form = "literal" THEN e.value ELSE None]
    IN  IF all(parts) /\ whole.type = e.type THEN whole ELSE Failed

Meanings(set) ==
    LET after[n \in 0 .. MaxDepth] ==
            [v \in Variables(set) |-> IF n = 0 THEN Failed ELSE Meaning(set, after[n - 1], v.e)]
    IN  after[MaxDepth]

(* What the reference means; None if nothing defines it.                   *)
Meant(in) == LET v == lookupVariable(in.set, in.ref) IN IF v = None THEN None ELSE Meanings(in.set)[v]

(* Resolving a reference gives the variable's meaning: it fails exactly    *)
(* when something needed is undefined, ill typed, defined through itself or*)
(* too deep, and a variable used twice is not taken for a cycle.  The typed*)
(* getters accept what has their type, and an optional setting counts as   *)
(* absent only when nothing defines it.                                    *)
ResolvesToMeaning(resolved, defined) ==
    LET meant == IF defined = None THEN Failed ELSE defined
        filled == meant.type \in {"string", "path"} /\ meant.value \notin {None, <<>>}
    IN  /\ resolved.value = meant
        /\ resolved.optional = defined
        /\ resolved.string = IF filled /\ meant.type = "string" THEN meant ELSE Failed
        /\ resolved.path = IF filled THEN meant ELSE Failed
        /\ resolved.optionalString = IF defined = None THEN None ELSE resolved.string
        /\ resolved.fanOut = IF meant.type = "list" THEN meant ELSE Failed
        /\ resolved.list # Failed => resolved.list = meant
=============================================================================
