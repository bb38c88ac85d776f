-------------------------- MODULE StageCompilation --------------------------
(***************************************************************************)
(* From a canonical workflow document to stages and work items             *)
(* (internal/workflow: stage.go, compile_stage.go, step.go, fanout.go,     *)
(* fanout_template.go, explicit_asset_materialize.go,                      *)
(* explicit_commit_data.go, explicit_data_inputs.go).                      *)
(*                                                                         *)
(* The input has the document, the variables as the resolver sees them and  *)
(* the document's data definitions.  A value is a scalar with its text, an *)
(* object or a list.  None is an error.                                    *)
(***************************************************************************)
EXTENDS DataAssets, WorkflowDocument

CONSTANT input

Scalars == {"string", "path", "int", "bool"}

TrimSpace(text) ==
    LET solid == {i \in DOMAIN text : text[i] # " "}
    IN  IF solid = {} THEN <<>>
        ELSE SubSeq(text, CHOOSE i \in solid : \A j \in solid : i <= j, CHOOSE i \in solid : \A j \in solid : j <= i)
-----------------------------------------------------------------------------
(* Stages: consecutive steps with the same label run together.             *)

Steps == [i \in DOMAIN input.doc["steps"].items |-> input.doc["steps"].items[i].fields]

StepID(step) == Plain(step["id"])

Label(step) == IF Has(step, "parallel_with") THEN TrimSpace(Plain(step["parallel_with"])) ELSE <<>>

(* Faulty: a label closed by another stage may be used again.              *)
LabelOpen(label, closed) == TRUE

LabelUsable(label, closed) == label = <<>> \/ label \notin closed

NormalizeStages(steps) ==
    LET add(plan, i) ==
            LET label == Label(steps[i])
                closed == plan.closed \cup IF plan.label \notin {<<>>, label} THEN {plan.label} ELSE {}
            IN  IF plan = None \/ ~LabelUsable(label, closed) THEN None
                ELSE IF label # <<>> /\ label = plan.label
                THEN [plan EXCEPT !.stages[Len(plan.stages)] = Append(@, i)]
                ELSE [stages |-> Append(plan.stages, <<i>>), label |-> label, closed |-> closed]
        plan == FoldLeft(add, [stages |-> <<>>, label |-> <<>>, closed |-> {}], [i \in DOMAIN steps |-> i])
    IN  IF steps = <<>> \/ plan = None \/ ~NoDuplicates([i \in DOMAIN steps |-> StepID(steps[i])])
        THEN None ELSE plan.stages
-----------------------------------------------------------------------------
(* Templates are rendered in the context of one fan-out value.             *)

ApplyAccessor(value, field) ==
    IF field = None THEN value
    ELSE IF value.type = "object" /\ field \in DOMAIN value.fields THEN value.fields[field]
    ELSE None

(* fanout, step and the alias are the item's value; the rest is resolved   *)
(* from the variables.                                                     *)
Resolve(context, part) ==
    IF "ref" \notin DOMAIN part THEN None
    ELSE IF part.ref \in {"fanout", "step"} \cup context.alias THEN ApplyAccessor(context.value, part.field)
    ELSE IF part.ref \in DOMAIN input.vars THEN ApplyAccessor(input.vars[part.ref], part.field)
    ELSE None

renderFanOutScalar(value) == IF value = None THEN None ELSE IF value.type \in Scalars THEN value.text ELSE None

renderFanOutTemplate(context, parts) ==
    LET texts == [i \in DOMAIN parts |->
                     IF "text" \in DOMAIN parts[i] THEN parts[i].text
                     ELSE renderFanOutScalar(Resolve(context, parts[i]))]
    IN  IF \E i \in DOMAIN texts : texts[i] = None THEN None ELSE FlattenSeq(texts)

IsWholeReference(v) == Len(v.parts) = 1 /\ "text" \notin DOMAIN v.parts[1]

HasReference(v) == \E i \in DOMAIN v.parts : "text" \notin DOMAIN v.parts[i]

(* References to data and runtime are left for the worker.                 *)
containsDeferredParameterReference(v) ==
    \E i \in DOMAIN v.parts : "ref" \in DOMAIN v.parts[i] /\ v.parts[i].ref \in {"data", "runtime"}

resolveFanOutWholeReference(context, v) == Resolve(context, v.parts[1])

RECURSIVE resolveParameterExpression(_, _)
resolveParameterExpression(context, v) ==
    CASE v.kind = "text" /\ containsDeferredParameterReference(v) -> [type |-> "string", deferred |-> v.parts]
      [] v.kind = "text" /\ ~containsDeferredParameterReference(v) /\ IsWholeReference(v) ->
             resolveFanOutWholeReference(context, v)
      [] v.kind = "text" /\ ~containsDeferredParameterReference(v) /\ ~IsWholeReference(v) ->
             LET text == renderFanOutTemplate(context, v.parts)
             IN  IF text = None THEN None ELSE [type |-> "string", text |-> text]
      [] v.kind = "number" -> [type |-> "int", text |-> v.text]
      [] v.kind = "list" ->
             LET items == [i \in DOMAIN v.items |-> resolveParameterExpression(context, v.items[i])]
             IN  IF \E i \in DOMAIN items : items[i] = None THEN None ELSE [type |-> "list", items |-> items]
      [] v.kind = "object" ->
             LET fields == [k \in DOMAIN v.fields |-> resolveParameterExpression(context, v.fields[k])]
             IN  IF \E k \in DOMAIN fields : fields[k] = None THEN None ELSE [type |-> "object", fields |-> fields]

bindParameterExpressions(context, step) ==
    [name \in DOMAIN Parameters(step) |-> resolveParameterExpression(context, Parameters(step)[name])]

Accessors(step) ==
    IF Has(step["work"].fields, "parameter_accessors") THEN step["work"].fields["parameter_accessors"].fields ELSE <<>>

(* An accessor replaces the value of a parameter that must exist, and      *)
(* leaves its type.                                                        *)
bindParameterAccessors(context, step, parameters) ==
    LET accessed(name) == ApplyAccessor(context.value, Word(Accessors(step)[name]))
    IN  [name \in DOMAIN parameters \cup DOMAIN Accessors(step) |->
            IF name \notin DOMAIN parameters THEN None
            ELSE IF name \notin DOMAIN Accessors(step) \/ parameters[name] = None THEN parameters[name]
            ELSE IF accessed(name) = None THEN None
            ELSE [accessed(name) EXCEPT !.type = parameters[name].type]]

(* A binding of an asset or an output target is a scalar or a whole        *)
(* reference to one; a placeholder inside a text stays as it is.           *)
Raw(parts) ==
    FlattenSeq([i \in DOMAIN parts |-> IF "text" \in DOMAIN parts[i] THEN parts[i].text ELSE <<"${", ToString(parts[i]), "}">>])

resolveAssetParameterValue(context, v) ==
    LET value == CASE v.kind = "text" /\ IsWholeReference(v) -> Resolve(context, v.parts[1])
                   [] v.kind = "text" /\ ~IsWholeReference(v) -> [type |-> "string", text |-> Raw(v.parts)]
                   [] v.kind = "number" -> [type |-> "int", text |-> v.text]
                   [] OTHER -> None
    IN  IF value = None THEN None ELSE IF value.type \in Scalars THEN value ELSE None

With(context, binding) ==
    IF ~Has(binding.fields, "with") THEN <<>>
    ELSE [k \in DOMAIN binding.fields["with"].fields |->
             resolveAssetParameterValue(context, binding.fields["with"].fields[k])]

Selection(binding) ==
    IF ~Has(binding.fields, "select") THEN <<>>
    ELSE [i \in DOMAIN binding.fields["select"].items |-> Word(binding.fields["select"].items[i])]

AllResolved(with) == \A k \in DOMAIN with : with[k] # None

(* The default target environment unless a string says otherwise.          *)
targetEnvironmentIDFromParameters(parameters) ==
    IF "target_environment_id" \notin DOMAIN parameters THEN <<"target-local">>
    ELSE LET v == parameters["target_environment_id"]
         IN  IF v.type # "string" \/ "text" \notin DOMAIN v THEN None
             ELSE IF v.text = <<>> \/ TrimSpace(v.text) # v.text THEN None ELSE v.text
-----------------------------------------------------------------------------
(* Resource constraints.                                                   *)

resolveConstraintString(context, v) ==
    IF v.kind # "text" THEN None
    ELSE IF HasReference(v) THEN renderFanOutTemplate(context, v.parts)
    ELSE IF Blank(v) THEN None ELSE Plain(v)

resolveConstraintInt(context, v) ==
    LET value == IF v.kind = "number" THEN [type |-> "int", text |-> v.text]
                 ELSE IF v.kind = "text" /\ IsWholeReference(v) THEN resolveFanOutWholeReference(context, v)
                 ELSE None
    IN  IF value = None THEN None ELSE IF value.type = "int" THEN value.text ELSE None

supportedResourceConstraintOperator(op) == op \in {<<"=">>, <<"!=">>, <<"<">>, <<">">>, <<"<=">>, <<">=">>}

validateCompiledResourceConstraint(c) ==
    /\ c.key # None /\ TrimSpace(c.key) # <<>>
    /\ c.units # None /\ c.units # <<"0">> /\ Head(c.units) # "-"
    /\ supportedResourceConstraintOperator(c.op)
    /\ c.target # None /\ Head(c.target) # "-"

resolveResourceConstraintDeclarations(context, step) ==
    LET declared == IF Has(step["work"].fields, "resource_constraints")
                    THEN step["work"].fields["resource_constraints"].items ELSE <<>>
        constraints == [i \in DOMAIN declared |->
            [index |-> i - 1,
             key |-> resolveConstraintString(context, declared[i].fields["resource_key"]),
             units |-> resolveConstraintInt(context, declared[i].fields["requested_units"]),
             op |-> resolveConstraintString(context, declared[i].fields["operator"]),
             target |-> resolveConstraintInt(context, declared[i].fields["target_units"])]]
    IN  IF /\ \A i \in DOMAIN constraints : validateCompiledResourceConstraint(constraints[i])
           /\ NoDuplicates([i \in DOMAIN constraints |-> constraints[i].key])
        THEN constraints ELSE None

appendExplicitResourceConstraints(explicit, declared) ==
    explicit \o [i \in DOMAIN declared |-> [declared[i] EXCEPT !.index = @ + Len(explicit)]]

AtMost(key, units) == [index |-> 0, key |-> key, units |-> <<"1">>, op |-> <<"<=">>, target |-> units]

(* The host, the remote or the location the asset comes from.              *)
AssetMaterializeProviderResourceKey(def) == <<"provider:">> \o def.source

AssetMaterializeResourceConstraints(def) ==
    <<AtMost(AssetMaterializeProviderResourceKey(def), IF def.transfers = <<"0">> THEN <<"1">> ELSE def.transfers)>>

CommitDataResourceConstraints(target, env) ==
    CASE target.location = "registered_location" -> <<AtMost(<<"target:">> \o env, <<"1">>)>>
      [] target.location = "gdrive_rclone" -> <<AtMost(<<"provider:gdrive-rclone">>, <<"1">>)>>
      [] OTHER -> None
-----------------------------------------------------------------------------
(* Work items.                                                             *)

validateFanOutRenderedToken(token) ==
    /\ token # None /\ token # <<>>
    /\ TrimSpace(token) = token
    /\ token \notin {<<".">>, <<".", ".">>}
    /\ ToSet(token) \cap {"/", "\\"} = {}

FanOut(step) == step["fan_out"].fields

fanOutIDToken(context, step) == renderFanOutTemplate(context, FanOut(step)["id"].parts)

fanOutOutputToken(context, step, idToken) ==
    IF Has(FanOut(step), "output") /\ FanOut(step)["output"].parts # <<>>
    THEN renderFanOutTemplate(context, FanOut(step)["output"].parts) ELSE idToken

OutputPrefix(step) ==
    LET work == step["work"].fields
    IN  IF Has(work, "output_prefix") /\ Plain(work["output_prefix"]) # <<>> THEN Plain(work["output_prefix"]) ELSE StepID(step)

(* A materialization or commit takes no other parameter; no work takes the *)
(* parameters of the planners.                                             *)
rejectComputeParameters(parameters, type) ==
    type \in {"asset.materialize", "commit_data"} => DOMAIN parameters \subseteq {"target_environment_id"}

rejectLegacyHiddenPlannerParameters(parameters) ==
    DOMAIN parameters \cap {"data_assets", "publish", "publish_targets"} = {}

ParametersAccepted(parameters, type) ==
    rejectLegacyHiddenPlannerParameters(parameters) /\ rejectComputeParameters(parameters, type)

compileExplicitDataInputs(context, step) ==
    LET section == Section(step, "inputs")
        binding(k) == section[1].fields[k]
        asset(k) == Word(binding(k).fields["asset"])
    IN  section # <<>> =>
            \A k \in DOMAIN section[1].fields :
                /\ asset(k) \in DOMAIN input.inputs
                /\ AllResolved(With(context, binding(k)))
                /\ instantiateDataAsset(input.inputs[asset(k)], Selection(binding(k)), With(context, binding(k))) # None

(* What a materialization or commit item adds to an item: the asset it     *)
(* makes and where, the key duplicates are found by, its own constraints,  *)
(* what it depends on.                                                     *)
Nothing == [makes |-> <<>>, dedupe |-> <<>>, constraints |-> <<>>, dependsOn |-> {}]

compileExplicitAssetMaterializeWorkItem(context, step, env) ==
    LET binding == Only(Section(step, "materialize")[1])
        asset == Word(binding.fields["asset"])
        with == With(context, binding)
        instance == instantiateDataAsset(input.inputs[asset], Selection(binding), with)
    IN  IF WorkType(step) # "asset.materialize" THEN Nothing
        ELSE IF asset \notin DOMAIN input.inputs \/ ~AllResolved(with) \/ env = None \/ instance = None THEN None
        ELSE [makes |-> <<env, instance.key>>, dedupe |-> <<env, instance.key>>,
              constraints |-> AssetMaterializeResourceConstraints(input.inputs[asset]), dependsOn |-> {}]

resolveOutputParameters(definition, with) ==
    /\ DOMAIN definition.parameters = DOMAIN with
    /\ \A k \in DOMAIN with : with[k] # None /\ validateAssetParameterType(definition.parameters[k], with[k])

SourceWorkItemID(from, idToken) == from \o <<"-">> \o idToken

compileExplicitCommitDataWorkItem(context, idToken, step, env) ==
    LET output == Only(Section(step, "outputs")[1])
        target == Word(output.fields["target"])
        with == With(context, output)
        constraints == CommitDataResourceConstraints(input.outputs[target], env)
    IN  IF WorkType(step) # "commit_data" THEN Nothing
        ELSE IF target \notin DOMAIN input.outputs \/ env = None THEN None
        ELSE IF ~resolveOutputParameters(input.outputs[target], with) \/ constraints = None THEN None
        ELSE [makes |-> <<>>, dedupe |-> <<>>, constraints |-> constraints,
              dependsOn |-> {SourceWorkItemID(Plain(output.fields["from"].fields["step"]), idToken)}]

ValidateForWorkflowCompile(item) ==
    /\ item.id # <<>> /\ item.output # <<>> /\ "/" \notin ToSet(item.output)
    /\ \A name \in DOMAIN item.parameters : item.parameters[name] # None /\ item.parameters[name].type # "none"

(* One fan-out value's item.                                               *)
FanOutItem(step, value) ==
    LET context == [alias |-> {Word(FanOut(step)["as"])}, value |-> value]
        idToken == fanOutIDToken(context, step)
        outputToken == fanOutOutputToken(context, step, idToken)
        parameters == bindParameterAccessors(context, step, bindParameterExpressions(context, step))
        env == targetEnvironmentIDFromParameters(parameters)
        materialize == compileExplicitAssetMaterializeWorkItem(context, step, env)
        commit == compileExplicitCommitDataWorkItem(context, idToken, step, env)
        declared == resolveResourceConstraintDeclarations(context, step)
        item == [id |-> StepID(step) \o <<"-">> \o idToken, output |-> OutputPrefix(step) \o <<"-">> \o outputToken,
                 type |-> WorkType(step), parameters |-> parameters, dependsOn |-> commit.dependsOn,
                 makes |-> materialize.makes, dedupe |-> materialize.dedupe, value |-> value,
                 constraints |-> appendExplicitResourceConstraints(materialize.constraints \o commit.constraints, declared)]
    IN  IF ~validateFanOutRenderedToken(idToken) \/ ~validateFanOutRenderedToken(outputToken) THEN None
        ELSE IF (\E n \in DOMAIN parameters : parameters[n] = None) \/ ~ParametersAccepted(parameters, WorkType(step)) THEN None
        ELSE IF ~compileExplicitDataInputs(context, step) \/ materialize = None \/ commit = None \/ declared = None THEN None
        ELSE IF ~ValidateForWorkflowCompile(item) THEN None ELSE item

ResolveFanOutExpression(v) ==
    LET value == IF IsWholeReference(v) THEN Resolve([alias |-> {}, value |-> [type |-> "none"]], v.parts[1]) ELSE None
    IN  IF value = None THEN None ELSE IF value.type = "list" THEN value.items ELSE None

(* An item per value, each with an id and an output of its own.            *)
Distinct(items) ==
    /\ \A i \in DOMAIN items : items[i] # None
    /\ NoDuplicates([i \in DOMAIN items |-> items[i].id]) /\ NoDuplicates([i \in DOMAIN items |-> items[i].output])

IfDistinct(items) == IF Distinct(items) THEN items ELSE None

rejectCollectionAssetMaterializeFanOut(step) ==
    WorkType(step) = "asset.materialize" =>
        LET asset == Word(Only(Section(step, "materialize")[1]).fields["asset"])
        IN  asset \in DOMAIN input.inputs => ~IsCollection(input.inputs[asset])

CompileFanOutWorkItemResults(step) ==
    LET values == ResolveFanOutExpression(FanOut(step)["over"])
    IN  IF ~rejectCollectionAssetMaterializeFanOut(step) \/ values = None THEN None
        ELSE IfDistinct([i \in DOMAIN values |-> FanOutItem(step, values[i])])

(* dim-value--dim-value, in the order of the dimensions.                   *)
collectionMemberIDToken(order, bindings) ==
    FoldLeft(LAMBDA token, name : token \o (IF token = <<>> THEN <<>> ELSE <<"-", "-">>)
                                        \o name \o <<"-">> \o TrimSpace(bindings[name].text), <<>>, order)

MemberItem(step, parameters, domain, def, order, member, declared) ==
    LET suffix == IF IsCollection(def) THEN <<"-", "-">> \o collectionMemberIDToken(order, member.bindings) ELSE <<>>
    IN  [id |-> StepID(step) \o suffix, output |-> OutputPrefix(step) \o suffix,
         type |-> WorkType(step), parameters |-> parameters, dependsOn |-> {},
         makes |-> <<domain, member.instance.key>>, dedupe |-> <<domain, member.key>>, value |-> member.bindings,
         constraints |-> appendExplicitResourceConstraints(AssetMaterializeResourceConstraints(def), declared)]

MemberItemsAccepted(def, plan, items) ==
    /\ \A i \in DOMAIN plan.members :
          IsCollection(def) => validateFanOutRenderedToken(collectionMemberIDToken(plan.order, plan.members[i].bindings))
    /\ \A i \in DOMAIN items : ValidateForWorkflowCompile(items[i])
    /\ Distinct(items)

PlannedItems(step, parameters, domain, def, plan, declared) ==
    IF plan = None \/ declared = None THEN None
    ELSE LET items == [i \in DOMAIN plan.members |->
                          MemberItem(step, parameters, domain, def, plan.order, plan.members[i], declared)]
         IN  IF MemberItemsAccepted(def, plan, items) THEN items ELSE None

(* Only what workers share has a domain, the target environment.           *)
ResolveMaterializationDomain(def, env) == IF def.scope = "shared" THEN env ELSE None

(* A step without fan-out: one item per member of the planned collection,  *)
(* or one item.                                                            *)
compileExplicitAssetMaterializeMemberWorkItems(context, step, parameters) ==
    LET env == targetEnvironmentIDFromParameters(parameters)
        binding == Only(Section(step, "materialize")[1])
        asset == Word(binding.fields["asset"])
        domain == ResolveMaterializationDomain(input.inputs[asset], env)
        with == With(context, binding)
    IN  IF ~ParametersAccepted(parameters, WorkType(step)) \/ asset \notin DOMAIN input.inputs THEN None
        ELSE IF domain = None \/ ~AllResolved(with) THEN None
        ELSE PlannedItems(step, parameters, domain, input.inputs[asset],
                          PlanDataAssetCollection(input.inputs[asset], Selection(binding), with, domain),
                          resolveResourceConstraintDeclarations(context, step))

compileStandaloneExplicitAssetMaterializeWorkItems(step) ==
    LET context == [alias |-> {}, value |-> [type |-> "none"]]
        parameters == bindParameterExpressions(context, step)
    IN  IF DOMAIN Accessors(step) # {} \/ \E n \in DOMAIN parameters : parameters[n] = None THEN None
        ELSE compileExplicitAssetMaterializeMemberWorkItems(context, step, parameters)

CompileStepItems(step) ==
    IF Has(step, "fan_out") THEN CompileFanOutWorkItemResults(step)
    ELSE compileStandaloneExplicitAssetMaterializeWorkItems(step)

(* No two materializations of a stage have the same key.                   *)
ValidateExplicitAssetMaterializeWorkItems(items) ==
    NoDuplicates(SelectSeq([i \in DOMAIN items |-> items[i].item.dedupe], LAMBDA key : key # <<>>))

seenWorkItems(items) == NoDuplicates([i \in DOMAIN items |-> items[i].item.id])

AcceptedItems(items) ==
    IF seenWorkItems(items) /\ ValidateExplicitAssetMaterializeWorkItems(items) THEN items ELSE None

StageItems(stage, compiled) ==
    IF \E k \in DOMAIN compiled : compiled[k] = None THEN None
    ELSE AcceptedItems(FlattenSeq([k \in DOMAIN stage |->
             [i \in DOMAIN compiled[k] |-> [step |-> stage[k], index |-> i - 1, item |-> compiled[k][i]]]]))

CompileWorkflowStage(steps, stage) == StageItems(stage, [k \in DOMAIN stage |-> CompileStepItems(steps[stage[k]])])
-----------------------------------------------------------------------------
Accepted ==
    /\ CanonicalWorkflowFromValue(input.doc)
    /\ WorkflowFromCanonicalDocument(input.doc)
    /\ NormalizeStages(Steps) # None

(* A stage that does not compile fails the run: no later one is compiled.  *)
CompiledStages(stages) ==
    LET upTo[s \in 0 .. Len(stages)] ==
            IF s = 0 THEN <<>>
            ELSE IF Len(upTo[s - 1]) < s - 1 THEN upTo[s - 1]
            ELSE LET stage == CompileWorkflowStage(Steps, stages[s])
                 IN  upTo[s - 1] \o (IF stage = None THEN <<>> ELSE <<stage>>)
    IN  [stages |-> stages, items |-> upTo[Len(stages)]]

(* The stages of a document and what each is compiled to.                  *)
Compiled == CompiledStages(IF Accepted THEN NormalizeStages(Steps) ELSE <<>>)
-----------------------------------------------------------------------------
(* NormalizeStages keeps the document's order, and a label names one stage *)
(* and only that: two steps are together exactly when they carry the same  *)
(* label, or are one step.                                                 *)
StagesAreGroups(stages) ==
    stages # <<>> =>
        LET stage(i) == CHOOSE s \in DOMAIN stages : i \in ToSet(stages[s])
        IN  /\ FlattenSeq(stages) = [i \in DOMAIN Steps |-> i]
            /\ \A i, j \in DOMAIN Steps :
                  stage(i) = stage(j) <=> i = j \/ (Label(Steps[i]) = Label(Steps[j]) /\ Label(Steps[i]) # <<>>)

(* In a stage CompileWorkflowStage has compiled, an id names one value of  *)
(* one step; the steps that fan out make no asset twice in one place, and  *)
(* neither do the others (one of each may: their keys are of two kinds);   *)
(* an item's constraints are numbered from zero; and a commit depends on   *)
(* the item that the step it takes from compiled for the same value, if    *)
(* that step fans out alike.                                               *)
ItemsUnambiguous(compiled) ==
    \A s \in DOMAIN compiled :
        LET items == compiled[s]
            alike(a, b) == /\ Has(Steps[a], "fan_out") /\ Has(Steps[b], "fan_out")
                           /\ FanOut(Steps[a])["id"] = FanOut(Steps[b])["id"]
                           /\ FanOut(Steps[a])["as"] = FanOut(Steps[b])["as"]
                           /\ FanOut(Steps[a])["over"] = FanOut(Steps[b])["over"]
            made(i) == <<items[i].item.makes, Has(Steps[items[i].step], "fan_out")>>
            from(i) == Plain(Only(Section(Steps[items[i].step], "outputs")[1]).fields["from"].fields["step"])
        IN  /\ \A i, j \in DOMAIN items :
                  /\ items[i].item.id = items[j].item.id => i = j
                  /\ made(i) = made(j) /\ items[i].item.makes # <<>> => i = j
            /\ \A i \in DOMAIN items :
                  \A c \in DOMAIN items[i].item.constraints : items[i].item.constraints[c].index = c - 1
            /\ \A i \in DOMAIN items : items[i].item.type = "commit_data" =>
                  \A r \in 1..s : \A k \in DOMAIN compiled[r] :
                      LET source == compiled[r][k]
                      IN  StepID(Steps[source.step]) = from(i) /\ alike(source.step, items[i].step) =>
                             (source.item.id \in items[i].item.dependsOn <=> source.item.value = items[i].item.value)
============================================================================
