-------------------------- MODULE WorkflowDocument --------------------------
(***************************************************************************)
(* Canonical workflow documents: which are accepted                        *)
(* (internal/document/workflow.go) and the steps they are adapted to       *)
(* (internal/workflow/document_adapter.go).                                *)
(*                                                                         *)
(* A document value is a text, an object, a list or a scalar.  A text is a *)
(* sequence of parts: literal text, a placeholder [ref, field], or a       *)
(* placeholder that does not parse [malformed].  A literal text is a       *)
(* sequence of characters, or of words whose characters do not matter.     *)
(***************************************************************************)
EXTENDS Sequences, SequencesExt, FiniteSets

(* The fields of the Go structures, which a canonical document never has.  *)
GoCased == {"ID", "Variables", "Steps", "FanOut", "WorkItem", "FanOutExpression", "TokenAccessor",
            "IDTokenAccessor", "OutputAccessor", "Type", "Parameters", "ParameterAccessors"}

Has(fields, name) == name \in DOMAIN fields

Blank(v) == \A i \in DOMAIN v.parts : "text" \in DOMAIN v.parts[i] /\ ToSet(v.parts[i].text) \subseteq {" "}

Plain(v) == FlattenSeq([i \in DOMAIN v.parts |-> v.parts[i].text])

Word(v) == IF \E i \in DOMAIN v.parts : "text" \notin DOMAIN v.parts[i] THEN "" ELSE Plain(v)[1]

requiredString(fields, name) == Has(fields, name) /\ fields[name].kind = "text" /\ ~Blank(fields[name])
requiredRawString(fields, name) == Has(fields, name) /\ fields[name].kind = "text"
optionalString(fields, name) == Has(fields, name) => fields[name].kind = "text"
requiredObject(fields, name) == Has(fields, name) /\ fields[name].kind = "object"
optionalObject(fields, name) == Has(fields, name) => fields[name].kind = "object"
optionalList(fields, name) == Has(fields, name) => fields[name].kind = "list"

optionalStringMap(fields, name) ==
    Has(fields, name) =>
        fields[name].kind = "object" /\ \A k \in DOMAIN fields[name].fields : fields[name].fields[k].kind = "text"

rejectGoCasedFields(fields) == DOMAIN fields \cap GoCased = {}
rejectUnknownFields(fields, allowed) == DOMAIN fields \subseteq allowed

Reserved == {"workflow", "override", "step", "fanout", "asset", "data", "work_item", "runtime"}

(* The identifiers of the instances begin with a letter.                   *)
validFanOutAlias(alias) == alias # <<>> /\ \A i \in DOMAIN alias : alias[i] \notin Reserved \cup {" ", "-"}

canonicalFanOut(fields) ==
    /\ rejectGoCasedFields(fields)
    /\ rejectUnknownFields(fields, {"over", "as", "id", "output"})
    /\ requiredString(fields, "over")
    /\ requiredRawString(fields, "as")
    /\ validFanOutAlias(Plain(fields["as"]))
    /\ requiredString(fields, "id")
    /\ optionalString(fields, "output")

canonicalWork(fields) ==
    /\ rejectGoCasedFields(fields)
    /\ requiredString(fields, "type")
    /\ \A name \in {"output_prefix", "output_extension"} : optionalString(fields, name)
    /\ optionalObject(fields, "parameters")
    /\ optionalStringMap(fields, "parameter_accessors")
    /\ optionalList(fields, "resource_constraints")

WorkType(step) == Word(step["work"].fields["type"])

canonicalWorkflowStep(step) ==
    /\ rejectGoCasedFields(step)
    /\ requiredString(step, "id")
    /\ optionalString(step, "parallel_with")
    /\ requiredObject(step, "work") /\ canonicalWork(step["work"].fields)
    /\ IF Has(step, "fan_out") THEN step["fan_out"].kind = "object" /\ canonicalFanOut(step["fan_out"].fields)
       ELSE WorkType(step) = "asset.materialize"
    /\ optionalObject(step, "data")

requiredWorkflowSteps(root) ==
    /\ Has(root, "steps") /\ root["steps"].kind = "list"
    /\ \A i \in DOMAIN root["steps"].items :
          root["steps"].items[i].kind = "object" /\ canonicalWorkflowStep(root["steps"].items[i].fields)

(* A document that wraps a legacy workflow, or is neither, is not one.     *)
CanonicalWorkflowFromValue(root) ==
    /\ ~Has(root, "workflow")
    /\ Has(root, "api_version") \/ Has(root, "kind")
    /\ rejectGoCasedFields(root)
    /\ \A name \in {"api_version", "kind", "id"} : requiredString(root, name)
    /\ Word(root["api_version"]) = "goet/v1alpha1" /\ Word(root["kind"]) = "Workflow"
    /\ optionalObject(root, "variables")
    /\ requiredWorkflowSteps(root)
    /\ optionalObject(root, "data") /\ optionalObject(root, "source_manifest")
-----------------------------------------------------------------------------
(* What a step's data section asks for must go with its work type.         *)
Section(step, name) ==
    IF Has(step, "data") /\ Has(step["data"].fields, name) THEN <<step["data"].fields[name]>> ELSE <<>>

validateCanonicalWorkType(step) == WorkType(step) \notin {"cache_data", "asset.materialization"}

canonicalStringListField(fields, name) ==
    Has(fields, name) =>
        /\ fields[name].kind = "list"
        /\ \A i \in DOMAIN fields[name].items : fields[name].items[i].kind = "text" /\ ~Blank(fields[name].items[i])

(* One alias of materialize or inputs: an asset, its bindings, file roles. *)
BindingAccepted(binding) ==
    /\ binding.kind = "object"
    /\ requiredString(binding.fields, "asset")
    /\ optionalObject(binding.fields, "with")
    /\ canonicalStringListField(binding.fields, "select")

Only(object) == object.fields[CHOOSE k \in DOMAIN object.fields : TRUE]

explicitAssetMaterializeFromCanonical(step) ==
    LET section == Section(step, "materialize")
    IN  /\ WorkType(step) = "asset.materialize" <=> section # <<>>
        /\ section # <<>> =>
              /\ section[1].kind = "object" /\ Cardinality(DOMAIN section[1].fields) = 1
              /\ BindingAccepted(Only(section[1]))

explicitCommitDataFromCanonical(step) ==
    LET section == Section(step, "outputs")
    IN  /\ WorkType(step) = "commit_data" <=> section # <<>>
        /\ section # <<>> =>
              /\ section[1].kind = "object" /\ Cardinality(DOMAIN section[1].fields) = 1
              /\ LET output == Only(section[1])
                 IN  /\ output.kind = "object"
                     /\ requiredObject(output.fields, "from")
                     /\ requiredString(output.fields["from"].fields, "step")
                     /\ requiredString(output.fields["from"].fields, "artifact")
                     /\ requiredString(output.fields, "target")
                     /\ optionalObject(output.fields, "with")

explicitDataInputsFromCanonical(step) ==
    LET section == Section(step, "inputs")
    IN  section # <<>> =>
            /\ WorkType(step) \notin {"asset.materialize", "commit_data"}
            /\ section[1].kind = "object"
            /\ \A k \in DOMAIN section[1].fields : BindingAccepted(section[1].fields[k])

Parameters(step) ==
    IF Has(step["work"].fields, "parameters") THEN step["work"].fields["parameters"].fields ELSE <<>>

rejectCanonicalHiddenPlannerParameters(step) ==
    WorkType(step) = "commit_data" \/ DOMAIN Parameters(step) \cap {"data_assets", "publish", "publish_targets"} = {}

workItemTemplateFromCanonical(step) ==
    /\ validateCanonicalWorkType(step)
    /\ explicitAssetMaterializeFromCanonical(step)
    /\ explicitCommitDataFromCanonical(step)
    /\ explicitDataInputsFromCanonical(step)
    /\ rejectCanonicalHiddenPlannerParameters(step)

WorkflowFromCanonicalDocument(root) ==
    \A i \in DOMAIN root["steps"].items : workItemTemplateFromCanonical(root["steps"].items[i].fields)
============================================================================
