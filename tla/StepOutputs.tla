---------------------------- MODULE StepOutputs ----------------------------
(***************************************************************************)
(* What a step leaves behind and the next one finds: the logical output    *)
(* made from the outputs of a step's items (cmd/controller/                *)
(* workflow_outputs.go), and the materialized assets a dependent item is   *)
(* given when it is claimed (cmd/controller/asset_materialize_hydration.go).*)
(*                                                                         *)
(* A collection's path template is recovered by replacing texts.  A        *)
(* materialized asset manifest is an object with an asset.                 *)
(***************************************************************************)
EXTENDS DataAssets

CONSTANTS MaxWorkOutput,   \* maxCompletedWorkOutputJSONBytes
          MaxStepOutput    \* maxLogicalStepOutputJSONBytes

-----------------------------------------------------------------------------
(* compileExplicitAssetMaterializeMemberWorkItems, and the evidence the    *)
(* worker reports for the item: where it put the member.                   *)
MemberOutput(def, plan, member, binding, env, root) ==
    [kind |-> "object", of |-> <<>>, asset_key |-> member.instance.key, target_environment_id |-> env,
     asset |-> [binding |-> binding, local_path |-> root \o member.destination,
                materialization_key |-> member.key, domain |-> env, destination |-> member.destination,
                parameters |-> member.bindings,
                member |-> IF ~IsCollection(def) THEN None
                           ELSE [fingerprint |-> plan.fingerprint, index |-> member.index,
                                 count |-> Len(plan.members), order |-> plan.order,
                                 bindings |-> [n \in ToSet(plan.order) |-> member.bindings[n]],
                                 destination |-> member.destination]]]

(* A fan-out's payload names no domain, destination or materialization.    *)
FanOutOutput(output) ==
    [output EXCEPT !.asset = [@ EXCEPT !.domain = "", !.destination = <<>>, !.materialization_key = None]]
-----------------------------------------------------------------------------
(* The logical output of a collection step, from its members' evidence.    *)

(* The template is recovered from a destination: every occurrence of a     *)
(* dimension's value becomes its placeholder, one dimension after another. *)
collectionPathTemplate(asset) ==
    LET step(text, name) ==
            LET value == asset.member.bindings[name].text
            IN  IF text = None \/ Occurrences(text, value) = {} THEN None
                ELSE Replaced(text, value, Placeholder(name))
        template == FoldLeft(step, asset.destination, asset.member.order)
    IN  IF template = None \/ \E i \in DOMAIN asset.member.order :
                                Occurrences(template, Placeholder(asset.member.order[i])) = {}
        THEN None
        ELSE [root |-> SubSeq(asset.local_path, 1, Len(asset.local_path) - Len(asset.destination)),
              template |-> template]

renderCollectionRelativeTemplate(template, order, bindings) ==
    LET rendered == FoldLeft(LAMBDA text, name : Replaced(text, Placeholder(name), bindings[name].text), template, order)
    IN  IF Occurrences(rendered, <<"${">>) = {} THEN rendered ELSE None

(* The names between ${ and the next }, each once; a text that is not well *)
(* formed has none.                                                        *)
RECURSIVE collectionManifestPathBindings(_)
collectionManifestPathBindings(path) ==
    IF path = <<>> THEN <<>>
    ELSE IF Head(path) = "}" THEN None
    ELSE IF Head(path) # "${" THEN collectionManifestPathBindings(Tail(path))
    ELSE LET closing == {i \in DOMAIN path : path[i] = "}"}
             end == CHOOSE i \in closing : \A j \in closing : i <= j
             name == SubSeq(path, 2, end - 1)
             rest == collectionManifestPathBindings(SubSeq(path, end + 1, Len(path)))
         IN  IF closing = {} \/ "${" \in ToSet(name) \/ name = <<>> \/ rest = None THEN None
             ELSE <<name>> \o SelectSeq(rest, LAMBDA n : n # name)

FirstSeen(values) == FoldLeft(LAMBDA seen, v : IF v \in ToSet(seen) THEN seen ELSE Append(seen, v), <<>>, values)

validateDimensionOrderAndBindings(manifest) ==
    /\ manifest.order # <<>>
    /\ NoDuplicates(manifest.order)
    /\ DOMAIN manifest.dimensions = ToSet(manifest.order)

(* Every dimension has values, they multiply to the member count, and the  *)
(* path names the dimensions in their order.                               *)
ManifestValid(manifest) ==
    /\ validateDimensionOrderAndBindings(manifest)
    /\ manifest.count = FoldLeft(LAMBDA n, name : n * Len(manifest.dimensions[name]), 1, manifest.order)
    /\ collectionManifestPathBindings(manifest.path) = manifest.order

(* Faulty: a member is not rendered again to see that the template is its. *)
TrustsTemplate(assets, first) == TRUE

MembersConform(assets, first) ==
    \A i \in DOMAIN assets :
        /\ collectionPathTemplate(assets[i]) = collectionPathTemplate(first)
        /\ renderCollectionRelativeTemplate(collectionPathTemplate(first).template, assets[i].member.order,
                                            assets[i].member.bindings) = assets[i].destination

(* All members, each once, of one planned collection in one domain.        *)
MembersAgree(assets, first) ==
    /\ Len(assets) = first.member.count
    /\ \A i \in DOMAIN assets :
          /\ assets[i].binding = first.binding
          /\ assets[i].domain = first.domain
          /\ assets[i].member.fingerprint = first.member.fingerprint
          /\ assets[i].member.order = first.member.order
          /\ assets[i].member.count = first.member.count
          /\ assets[i].destination = assets[i].member.destination
    /\ {assets[i].member.index : i \in DOMAIN assets} = 0..(first.member.count - 1)
    /\ NoDuplicates([i \in DOMAIN assets |-> assets[i].materialization_key])
    /\ NoDuplicates([i \in DOMAIN assets |-> assets[i].destination])

MemberValid(member) ==
    member.count > 0 /\ member.index \in 0..(member.count - 1) /\ ToSet(member.order) \subseteq DOMAIN member.bindings

(* A materialized asset manifest is of one asset, which may be a member.   *)
IsMember(output) == "asset" \in DOMAIN output /\ output.asset.member # None

materializedCollectionMemberOutputFromJSON(output) == IsMember(output) => MemberValid(output.asset.member)

(* Its manifest is taken to be within the bound on a step's output.        *)
aggregateMaterializedCollectionOutput(outputs) ==
    LET assets == SortSeq([i \in DOMAIN outputs |-> outputs[i].asset], LAMBDA a, b : a.member.index < b.member.index)
        first == Head(assets)
        found == collectionPathTemplate(first)
        manifest == [asset |-> first.binding, domain |-> first.domain, order |-> first.member.order,
                     dimensions |-> [name \in ToSet(first.member.order) |->
                                        FirstSeen([i \in DOMAIN assets |-> assets[i].member.bindings[name]])],
                     path |-> found.root \o found.template, count |-> first.member.count,
                     fingerprint |-> first.member.fingerprint]
    IN  IF found # None /\ MembersAgree(assets, first) /\ MembersConform(assets, first) /\ ManifestValid(manifest)
        THEN manifest ELSE None
-----------------------------------------------------------------------------
(* The logical output of any step: of no item the empty list, of one its   *)
(* object, of several the list in the order of the items' indexes.         *)

(* Null and numbers that are not integers have no resolved value.          *)
resolvedOutputFromJSON(json) ==
    CASE json.kind \in {"null", "float"} -> None
      [] json.kind \in {"object", "list"} ->
             IF \E i \in DOMAIN json.of : json.of[i].kind \in {"null", "float"} THEN None ELSE json
      [] OTHER -> json

Settled == {"completed", "skipped"}

(* Brackets and commas are a byte each.                                    *)
ListSize(items) ==
    2 + FoldLeft(LAMBDA n, item : n + item.size, 0, items) + (IF items = <<>> THEN 0 ELSE Len(items) - 1)

ByWorkItemIndex(items) == SortSeq(items, LAMBDA a, b : a.index < b.index)

ItemsSettled(items) ==
    /\ NoDuplicates([i \in DOMAIN items |-> items[i].index])
    /\ \A i \in DOMAIN items :
          LET resolved == resolvedOutputFromJSON(items[i].output)
          IN  /\ items[i].state \in Settled
              /\ items[i].size \in 1..MaxWorkOutput
              /\ materializedCollectionMemberOutputFromJSON(items[i].output)
              /\ IF resolved = None THEN FALSE ELSE resolved.kind = "object"

(* Members of a collection are not mixed with other outputs.               *)
aggregateStepOutput(items) ==
    LET ordered == ByWorkItemIndex(items)
        outputs == [i \in DOMAIN ordered |-> ordered[i].output]
        isMember == {i \in DOMAIN ordered : IsMember(outputs[i])}
    IN  IF ~ItemsSettled(ordered) THEN None
        ELSE IF isMember # {}
        THEN IF isMember = DOMAIN ordered THEN aggregateMaterializedCollectionOutput(outputs) ELSE None
        ELSE IF Len(items) = 1 THEN IF ordered[1].size <= MaxStepOutput THEN outputs[1] ELSE None
        ELSE IF ListSize(ordered) <= MaxStepOutput THEN [kind |-> "list", of |-> outputs] ELSE None

(* An output's text becomes an expression, in which "${" is escaped.       *)
outputTypedExpressionFromResolved(text) == Replaced(text, <<"${">>, <<"\\", "${">>)

(* What workflow.step[i] reads as: internal/variable unescapes it again.   *)
unescapeExpression(text) == Replaced(text, <<"\\", "${">>, <<"${">>)
-----------------------------------------------------------------------------
(* Claiming a dependent item: hydration.                                   *)

materializationAssetKeyCandidates(asset, env) ==
    {CanonicalDataAssetInstanceKey(<<>>, asset), AssetMaterializeAssetKey(asset, env)}

materializationKeyCandidates(keys, domain, destination) ==
    IF destination = <<>> THEN {} ELSE {MaterializationIdentityKey(k, domain, destination) : k \in keys}

sharedMaterializationRequirement(alias, asset, env) ==
    LET keys == materializationAssetKeyCandidates(asset, env)
    IN  [binding |-> alias, keys |-> keys, domain |-> env, destination |-> asset.path_template,
         materializations |-> materializationKeyCandidates(keys, env, asset.path_template)]

materializedCandidateSatisfiesIdentity(requirement, asset) ==
    /\ asset.domain \in {"", requirement.domain}
    /\ requirement.destination # <<>> => asset.destination = requirement.destination
    /\ requirement.materializations # {} => asset.materialization_key \in requirement.materializations

(* Completed outputs of dependencies and of earlier stages.                *)
completedPriorMaterializationCandidates(terminals, stage, dependsOn) ==
    {t \in terminals : t.state = "completed" /\ (t.item \in dependsOn \/ t.stage < stage)}

(* Faulty: does not look at the asset's key.                               *)
MatchesIdentity(requirement, candidates) ==
    {t \in candidates : materializedCandidateSatisfiesIdentity(requirement, t.output.asset)}

Matches(requirement, candidates) ==
    {t \in candidates : /\ t.output.asset_key \in requirement.keys
                        /\ t.output.target_environment_id = requirement.domain
                        /\ materializedCandidateSatisfiesIdentity(requirement, t.output.asset)}

(* Exactly one candidate may match a requirement.                          *)
projectSharedMaterializationRequirements(requirements, candidates) ==
    LET matched(i) == Matches(requirements[i], candidates)
    IN  IF (\E i \in DOMAIN requirements : Cardinality(matched(i)) # 1)
           \/ ~NoDuplicates([i \in DOMAIN requirements |-> requirements[i].binding])
        THEN None
        ELSE [i \in DOMAIN requirements |->
                 [(CHOOSE t \in matched(i) : TRUE).output.asset EXCEPT !.binding = requirements[i].binding]]

(* Without shared requirements the dependencies' manifests are combined.   *)
CombineDependencies(terminals, dependsOn) ==
    LET done == SetToSeq({t \in terminals : t.state = "completed" /\ t.item \in dependsOn})
        assets == [i \in DOMAIN done |-> done[i].output.asset]
    IN  IF \/ ~NoDuplicates([i \in DOMAIN assets |-> assets[i].binding])
           \/ Cardinality({done[i].output.target_environment_id : i \in DOMAIN done}) > 1
        THEN None ELSE assets

(* An item that materializes, commits or was given assets stays as it is.  *)
hydrateAssetMaterializeDependentWorkItem(item, terminals) ==
    LET shared == SelectSeq(item.assets, LAMBDA a : a.asset.scope = "shared")
        requirements == [i \in DOMAIN shared |-> sharedMaterializationRequirement(shared[i].alias, shared[i].asset, item.env)]
    IN  IF item.type \in {"asset.materialize", "commit_data"} \/ item.given # <<>> THEN item.given
        ELSE IF \E i \in DOMAIN item.assets : item.assets[i].asset.scope = "worker" THEN None
        ELSE IF shared # <<>>
        THEN projectSharedMaterializationRequirements(
                 requirements, completedPriorMaterializationCandidates(terminals, item.stage, item.dependsOn))
        ELSE CombineDependencies(terminals, item.dependsOn)
-----------------------------------------------------------------------------
Plan(in) == PlanDataAssetCollection(in.def, in.selection, in.with, in.env)

Outputs(in, plan) ==
    LET output(i) == MemberOutput(in.def, plan, plan.members[i], in.alias, in.env, in.roots[i])
    IN  [i \in DOMAIN plan.members |-> IF in.fanOut THEN FanOutOutput(output(i)) ELSE output(i)]

(* The members are planned, materialized by workers that place them under  *)
(* their roots, and reported; the last report aggregates the step.         *)
AggregatedCollection(in, plan) ==
    LET outputs == Outputs(in, plan)
        items == [i \in DOMAIN outputs |-> [index |-> i - 1, state |-> "completed", output |-> outputs[i], size |-> 1]]
    IN  [plan |-> plan, output |-> IF plan = None THEN None ELSE aggregateStepOutput(items)]

(* A value the next step reads from an output is a typed expression again. *)
ReadOutput(text) == unescapeExpression(outputTypedExpressionFromResolved(text))

(* Assets were materialized by earlier items; one that needs some of them  *)
(* is claimed.                                                             *)
MemberTerminals(m, outputs) ==
    {[item |-> <<m.item, i>>, stage |-> m.stage, state |-> m.state, output |-> outputs[i]] : i \in DOMAIN outputs}

Terminals(in) == UNION {MemberTerminals(m, Outputs(m, Plan(m))) : m \in in.materialized}

Needs(in) ==
    [i \in DOMAIN in.needs |->
        [alias |-> in.needs[i].alias,
         asset |-> instantiateDataAsset(in.needs[i].def, in.needs[i].selection, in.needs[i].with).asset]]

Hydrated(in, needs, terminals) ==
    [needs |-> needs, terminals |-> terminals,
     output |-> hydrateAssetMaterializeDependentWorkItem(
                    [type |-> in.type, given |-> in.given, assets |-> needs, stage |-> 1, env |-> in.env,
                     dependsOn |-> in.dependsOn], terminals)]

Answer(in) ==
    CASE in.kind = "collection" -> AggregatedCollection(in, Plan(in))
      [] in.kind = "step" -> [output |-> aggregateStepOutput(in.items)]
      [] in.kind = "text" -> [output |-> ReadOutput(in.text)]
      [] in.kind = "hydrate" -> Hydrated(in, Needs(in), Terminals(in))
-----------------------------------------------------------------------------
(* When can the template be recovered?  When the placeholders stand in the *)
(* order of the dimensions, and in every destination a value occurs only   *)
(* where its placeholder stood and shares no character with a name.        *)
Starts(template, bindings, name) ==
    {1 + Len(Rendered(SubSeq(template, 1, i - 1), bindings)) :
        i \in {j \in DOMAIN template : "param" \in DOMAIN template[j] /\ template[j].param = name}}

Recoverable(in, plan) ==
    LET names == ToSet(plan.order)
    IN  /\ RequiredBindings(in.def.template, in.with) = plan.order
        /\ \A i \in DOMAIN plan.members, n \in names :
              LET m == plan.members[i]
              IN  /\ Occurrences(m.destination, m.bindings[n].text) = Starts(in.def.template, m.bindings, n)
                  /\ \A k \in names : ToSet(k) \cap ToSet(m.bindings[n].text) = {}
        /\ \A i \in DOMAIN plan.members : in.roots[i] = in.roots[1]

Describes(manifest, in, plan) ==
    /\ manifest.order = plan.order
    /\ manifest.dimensions = collectionDimensionValues(in.def)
    /\ manifest.count = Len(plan.members)
    /\ \A i \in DOMAIN plan.members :
          renderCollectionRelativeTemplate(manifest.path, manifest.order, plan.members[i].bindings)
              = in.roots[i] \o plan.members[i].destination

(* The logical output of a collection step (aggregateMaterialized-         *)
(* CollectionOutput) is true of every member: its domain is the planned    *)
(* one, and its path, rendered with a member's bindings, is where that     *)
(* member lies.  It exists whenever the template can be recovered.         *)
CollectionDescribed(in, result) ==
    in.kind = "collection" /\ IsCollection(in.def) =>
        /\ result.output # None => Describes(result.output, in, result.plan)
        /\ result.plan # None /\ Recoverable(in, result.plan) => result.output # None

(* What aggregateStepOutputJSON and workflowStepScope hand to the next     *)
(* stage is what the items reported: in the order the items were compiled  *)
(* in, however their reports arrived, and with every text as it was.       *)
OutputsInOrder(in, result) ==
    /\ in.kind = "text" => result.output = in.text
    /\ in.kind = "step" /\ result.output # None /\ Len(in.items) # 1 =>
          /\ Len(result.output.of) = Len(in.items)
          /\ \A i, j \in DOMAIN in.items :
                in.items[i].index < in.items[j].index =>
                    \E k, l \in DOMAIN result.output.of :
                        /\ k < l
                        /\ result.output.of[k] = in.items[i].output
                        /\ result.output.of[l] = in.items[j].output

(* The completed item whose asset a need names, by what it asked for.      *)
Provides(t, need, env) ==
    /\ t.state = "completed" /\ t.output.target_environment_id = env
    /\ t.output.asset_key.asset_definition = need.asset.definition
    /\ t.output.asset_key.resolved_parameters = need.asset.parameters
    /\ t.output.asset.destination = need.asset.path_template

(* hydrateAssetMaterializeDependentWorkItem gives an item, for every       *)
(* shared asset it needs, the one materialized with the same definition,   *)
(* parameters, environment and destination, or nothing at all; and it does *)
(* give it an asset that has neither file roles nor a destination.         *)
HydratesItsOwn(in, result) ==
    in.kind = "hydrate" /\ in.type = "python_script" /\ in.given = <<>> =>
        LET needs == result.needs
            shared == {i \in DOMAIN needs : needs[i].asset.scope = "shared"}
            earlier == {t \in result.terminals : t.stage < 1 \/ t.item \in in.dependsOn}
        IN  /\ result.output # None /\ shared = DOMAIN needs =>
                  \A i \in DOMAIN needs : \E t \in earlier :
                      /\ Provides(t, needs[i], in.env)
                      /\ result.output[i] = [t.output.asset EXCEPT !.binding = needs[i].alias]
            /\ (/\ shared = DOMAIN needs /\ needs # <<>>
                /\ \A i \in DOMAIN needs :
                      /\ needs[i].asset.path_template = <<>> /\ needs[i].asset.archive = <<>>
                      /\ Cardinality({t \in earlier : Provides(t, needs[i], in.env)}) = 1)
               => result.output # None
============================================================================
