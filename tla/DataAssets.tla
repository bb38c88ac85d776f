----------------------------- MODULE DataAssets -----------------------------
(***************************************************************************)
(* Definitions of data assets, their instances, and the members a          *)
(* collection is planned into (internal/model/data_definition.go,          *)
(* internal/model/data_asset_collection.go, internal/workflow/             *)
(* data_instance.go and data_collection.go).                               *)
(*                                                                         *)
(* Texts are sequences of characters.  A parameter's value is its type and *)
(* its text.  A hash is what was hashed.  None is an error.                *)
(***************************************************************************)
EXTENDS Integers, Sequences, SequencesExt, FiniteSets

CONSTANT None

NoDuplicates(s) == \A i, j \in DOMAIN s : s[i] = s[j] => i = j

IsAt(s, t, i) == i + Len(t) - 1 <= Len(s) /\ SubSeq(s, i, i + Len(t) - 1) = t

Occurrences(s, t) == {i \in 1..Len(s) : IsAt(s, t, i)}

(* strings.ReplaceAll, from left to right.                                 *)
RECURSIVE Replaced(_, _, _)
Replaced(s, old, new) ==
    IF s = <<>> THEN <<>>
    ELSE IF IsAt(s, old, 1) THEN new \o Replaced(SubSeq(s, Len(old) + 1, Len(s)), old, new)
    ELSE <<Head(s)>> \o Replaced(Tail(s), old, new)

RECURSIVE Digits(_)
Digits(n) == IF n < 10 THEN <<ToString(n)>> ELSE Digits(n \div 10) \o Digits(n % 10)

Placeholder(name) == <<"${">> \o name \o <<"}">>
-----------------------------------------------------------------------------
(* Definitions of assets.  A path template is a sequence of texts and      *)
(* parameter references; <<>> is a definition without one.                 *)

EffectiveSelection(def, selection) ==
    LET chosen == IF selection # <<>> THEN selection ELSE def.select
    IN  IF chosen = <<>> THEN def.files
        ELSE IF NoDuplicates(chosen) /\ ToSet(chosen) \subseteq ToSet(def.files) THEN chosen ELSE None

Placeholders(template) ==
    LET params == SelectSeq(template, LAMBDA part : "param" \in DOMAIN part)
    IN  [i \in DOMAIN params |-> params[i].param]

validateExplicitValues(values, type) ==
    /\ values # <<>>
    /\ NoDuplicates(values)
    /\ \A i \in DOMAIN values : type \in {"", values[i].type}

RangeCardinality(range, type) == IF type # "int" \/ range.from > range.through THEN None ELSE range.through - range.from + 1

(* Exactly one of values and range is given.                               *)
DimensionCardinality(dimension, type) ==
    CASE dimension.values # None /\ dimension.range = None ->
             IF validateExplicitValues(dimension.values, type) THEN Len(dimension.values) ELSE None
      [] dimension.values = None /\ dimension.range # None -> RangeCardinality(dimension.range, type)
      [] OTHER -> None

DomainValues(dimension) ==
    IF dimension.range # None
    THEN [i \in 1..(dimension.range.through - dimension.range.from + 1) |->
             [type |-> "int", text |-> Digits(dimension.range.from + i - 1)]]
    ELSE dimension.values

CollectionValid(def) ==
    /\ NoDuplicates([i \in DOMAIN def.dimensions |-> def.dimensions[i].parameter])
    /\ \A i \in DOMAIN def.dimensions :
          /\ def.dimensions[i].parameter \in DOMAIN def.parameters
          /\ DimensionCardinality(def.dimensions[i], def.parameters[def.dimensions[i].parameter]) # None

collectionDimensionNames(def) == [i \in DOMAIN def.dimensions |-> def.dimensions[i].parameter]

IsCollection(def) == def.dimensions # <<>>

ValidateMaterializationPathTemplate(def) ==
    /\ ToSet(Placeholders(def.template)) \subseteq DOMAIN def.parameters
    /\ ToSet(collectionDimensionNames(def)) \subseteq ToSet(Placeholders(def.template))

(* A collection has a path template and materializes one file role.        *)
validateMaterializationPathTemplate(def, selection) ==
    /\ IsCollection(def) => def.template # <<>> /\ Len(selection) = 1
    /\ def.template # <<>> => ValidateMaterializationPathTemplate(def)

ProviderTemplate(def, selection) ==
    /\ CollectionValid(def)
    /\ EffectiveSelection(def, selection) # None
    /\ validateMaterializationPathTemplate(def, EffectiveSelection(def, selection))

(* The parameters given are rendered; the others stay placeholders, and    *)
(* are reported in the order of their first appearance.                    *)
Rendered(template, given) ==
    FlattenSeq([i \in DOMAIN template |->
        IF "text" \in DOMAIN template[i] THEN template[i].text
        ELSE IF template[i].param \in DOMAIN given THEN given[template[i].param].text
        ELSE Placeholder(template[i].param)])

RequiredBindings(template, given) ==
    FoldLeft(LAMBDA names, name : IF name \in DOMAIN given \/ name \in ToSet(names) THEN names ELSE Append(names, name),
             <<>>, Placeholders(template))

NormalizeMaterializationOutputPathTemplate(template, given) ==
    [path |-> Rendered(template, given), required |-> RequiredBindings(template, given)]

(* What is not bound after the fixed parameters are dimensions.            *)
CollectionOutputPathTemplate(def, fixed) ==
    LET normalized == NormalizeMaterializationOutputPathTemplate(def.template, fixed)
    IN  IF IsCollection(def) /\ ~(ToSet(normalized.required) \subseteq ToSet(collectionDimensionNames(def)))
        THEN None ELSE normalized.path

concreteDestinationRelativePath(def, parameters) ==
    LET normalized == NormalizeMaterializationOutputPathTemplate(def.template, parameters)
    IN  IF normalized.required = <<>> THEN normalized.path ELSE None
-----------------------------------------------------------------------------
(* Instances of assets.                                                    *)

(* A path will do for a string.                                            *)
validateAssetParameterType(type, value) == type \in {"", value.type} \/ (type = "string" /\ value.type = "path")

resolveAssetParameters(def, with) ==
    /\ DOMAIN with = DOMAIN def.parameters
    /\ \A name \in DOMAIN with : validateAssetParameterType(def.parameters[name], with[name])

(* The provider binds without the path template; the destination is put    *)
(* into the bound asset after its key has been computed.                   *)
Bind(def, selection, parameters) ==
    [definition |-> def.name, parameters |-> parameters, archive |-> selection,
     scope |-> def.scope, path_template |-> <<>>]

dataAssetBindingFingerprint(asset) == <<asset.archive, asset.scope, asset.path_template>>

CanonicalDataAssetInstanceKey(selection, asset) ==
    [asset_definition |-> asset.definition, resolved_parameters |-> asset.parameters,
     selection |-> selection, binding_fingerprint |-> dataAssetBindingFingerprint(asset)]

AssetMaterializeAssetKey(asset, env) ==
    [resolved_parameters |-> asset.parameters, archive_selection |-> asset.archive, target_environment_id |-> env]

instantiateDataAsset(def, selection, with) ==
    LET effective == EffectiveSelection(def, selection)
        asset == Bind(def, effective, with)
        destination == concreteDestinationRelativePath(def, with)
    IN  IF resolveAssetParameters(def, with) /\ ProviderTemplate(def, selection) /\ destination # None
        THEN [asset |-> [asset EXCEPT !.path_template = destination],
              key |-> CanonicalDataAssetInstanceKey(effective, asset)]
        ELSE None

MaterializationIdentityKey(key, domain, destination) ==
    [source_asset_key |-> key, materialization_domain_id |-> domain, destination_relative_path |-> destination]
-----------------------------------------------------------------------------
(* Planning a collection.                                                  *)

resolveFixedAssetParameters(def, with) ==
    LET dims == ToSet(collectionDimensionNames(def))
    IN  /\ DOMAIN with = DOMAIN def.parameters \ dims
        /\ \A name \in DOMAIN with : validateAssetParameterType(def.parameters[name], with[name])

collectionDimensionValues(def) ==
    [name \in ToSet(collectionDimensionNames(def)) |->
        DomainValues(def.dimensions[CHOOSE i \in DOMAIN def.dimensions : def.dimensions[i].parameter = name])]

(* The first dimension varies slowest.                                     *)
RECURSIVE expandedMemberBindings(_, _, _)
expandedMemberBindings(order, dimensions, bound) ==
    IF order = <<>> THEN <<bound>>
    ELSE FlattenSeq([i \in DOMAIN dimensions[Head(order)] |->
            expandedMemberBindings(Tail(order), dimensions, bound @@ (Head(order) :> dimensions[Head(order)][i]))])

CollectionFingerprint(def, fixed, selection, domain) ==
    [asset |-> def.name, order |-> collectionDimensionNames(def), dimensions |-> collectionDimensionValues(def),
     fixed |-> fixed, selection |-> selection,
     path_template |-> CollectionOutputPathTemplate(def, fixed), domain |-> domain]

(* seenDestinations: a destination is one member's, unless there is none.  *)
DestinationsDistinct(members) ==
    \A i, j \in DOMAIN members :
        members[i].destination = members[j].destination /\ members[i].destination # <<>> => i = j

PlanDataAssetCollection(def, selection, with, domain) ==
    LET effective == EffectiveSelection(def, selection)
        bindings == expandedMemberBindings(collectionDimensionNames(def), collectionDimensionValues(def), with)
        instances == [i \in DOMAIN bindings |-> instantiateDataAsset(def, selection, bindings[i])]
        members == [i \in DOMAIN bindings |->
                       [index |-> i - 1, bindings |-> bindings[i], instance |-> instances[i],
                        destination |-> instances[i].asset.path_template,
                        key |-> MaterializationIdentityKey(instances[i].key, domain, instances[i].asset.path_template)]]
    IN  IF /\ ProviderTemplate(def, selection)
           /\ resolveFixedAssetParameters(def, with)
           /\ CollectionOutputPathTemplate(def, with) # None
           /\ NoDuplicates(bindings)
           /\ \A i \in DOMAIN instances : instances[i] # None
           /\ DestinationsDistinct(members)
        THEN [order |-> collectionDimensionNames(def), members |-> members,
              fingerprint |-> CollectionFingerprint(def, with, effective, domain)]
        ELSE None
=============================================================================
