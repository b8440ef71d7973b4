----------------------------- MODULE Validator ------------------------------
(***************************************************************************)
(* Validate of internal/validator/otel.go: the check of a collector        *)
(* configuration "before it hits Git or the cluster".                      *)
(*                                                                         *)
(* The code walks the document with four nested loops, two of them over Go *)
(* maps, whose order is not defined: a section or a pipeline is picked in  *)
(* any order.  It goes on after an error, except after one that leaves     *)
(* nothing to look at.                                                     *)
(*                                                                         *)
(* A document is what the type assertions of the code can tell of it: a    *)
(* value that is not what it should be is NotOne, and a section without a  *)
(* map in it has no components and no pipelines.  Errors and warnings are  *)
(* sets: every error has a path of its own.                                *)
(***************************************************************************)
EXTENDS Naturals, Sequences

CONSTANTS
    Types,          \* component types: a name up to the first "/"
    Known,          \* knownComponents
    Pipelines,      \* names of pipelines
    Documents,      \* the documents that come (bounds the model)
    NotOne,         \* a value of another type than the code asks for
    MaxItems        \* components in a stage (bounds the model)

ASSUME KnownAssumption == Known \subseteq Types
ASSUME MaxItemsAssumption == MaxItems \in Nat

(* A component name: "otlp" or a named variant as "otlp/2". *)
Name == [type : Types, variant : BOOLEAN]

(* Where the code is in a pipeline: the number of the stage, and of the item in it
   that is next, or 0 before the stage is looked at. *)
Place == [pipeline : Pipelines, stage : 1..3, item : 0..MaxItems]

ASSUME NotOneAssumption ==
    NotOne \notin Name \cup Documents \cup Place /\ NotOne \notin Seq(Name \cup {NotOne})

Section == {"receivers", "exporters", "service", "processors", "extensions"}

Required == {"receivers", "exporters", "service"}

Stages == <<"receivers", "processors", "exporters">>

Stage == {"receivers", "processors", "exporters"}

Items == {s \in Seq(Name \cup {NotOne}) : Len(s) <= MaxItems}

Pipeline == [Stage -> Items \cup {NotOne}] \cup {NotOne}

(* What yaml.Unmarshal makes of a text.  Only the sections that are there have
   components, and only a service has pipelines. *)
IsDocument(d) ==
    /\ DOMAIN d = {"parses", "sections", "components", "pipelines"}
    /\ d.parses \in BOOLEAN
    /\ d.sections \subseteq Section
    /\ d.components \in [Section \ {"service"} -> SUBSET Name]
    /\ DOMAIN d.pipelines \subseteq Pipelines
    /\ \A p \in DOMAIN d.pipelines : d.pipelines[p] \in Pipeline
    /\ \A s \in Section \ {"service"} : d.components[s] # {} => s \in d.sections
    /\ DOMAIN d.pipelines # {} => "service" \in d.sections

ASSUME DocumentsAssumption == \A d \in Documents : IsDocument(d)

Error(path, code) == [path |-> path, code |-> code]
-----------------------------------------------------------------------------
VARIABLES
    doc,        \* the document being validated, or NotOne
    phase,      \* the loop the code is in
    todo,       \* what that loop has not come to yet
    at,         \* where it is in a pipeline: its name, stage and item; or NotOne
    valid,      \* result.Valid
    errors,     \* result.Errors
    warnings    \* result.Warnings

result == <<valid, errors, warnings>>
validatorVars == <<doc, phase, todo, at, result>>

(* The types of the variables; the loop is in a pipeline of the document only
   while it goes through the pipelines. *)
ValidatorTypeOK ==
    /\ doc # NotOne => IsDocument(doc)
    /\ doc = NotOne <=> phase = "idle"
    /\ phase \in {"idle", "parse", "sections", "pipelines", "components", "done"}
    /\ todo \subseteq Section \cup Pipelines
    /\ at # NotOne =>
          /\ phase = "pipelines"
          /\ at \in Place
          /\ at.pipeline \in todo
    /\ valid \in BOOLEAN

ValidatorInit ==
    /\ doc = NotOne
    /\ phase = "idle"
    /\ todo = {}
    /\ at = NotOne
    /\ valid = TRUE
    /\ errors = {}
    /\ warnings = {}
-----------------------------------------------------------------------------
Fail(path, code) ==
    /\ valid' = FALSE
    /\ errors' = errors \cup {Error(path, code)}
    /\ UNCHANGED warnings

Warn(section, type) ==
    /\ warnings' = warnings \cup {<<section, type>>}
    /\ UNCHANGED <<valid, errors>>

Validate(d) ==
    /\ phase = "idle"
    /\ doc' = d
    /\ phase' = "parse"
    /\ UNCHANGED <<todo, at, result>>

(* A text that is not YAML, or not a map, ends the validation. *)
Parse ==
    /\ phase = "parse"
    /\ \/ /\ doc.parses
          /\ phase' = "sections"
          /\ todo' = Section
          /\ UNCHANGED result
       \/ /\ ~doc.parses
          /\ Fail(<<>>, "YAML_PARSE_ERROR")
          /\ phase' = "done"
          /\ UNCHANGED todo
    /\ UNCHANGED <<doc, at>>

CheckSection(s) ==
    /\ phase = "sections"
    /\ s \in todo
    /\ todo' = todo \ {s}
    /\ IF s \in Required /\ s \notin doc.sections
       THEN Fail(<<s>>, "MISSING_SECTION")
       ELSE UNCHANGED result
    /\ UNCHANGED <<doc, phase, at>>

EnterPipelines ==
    /\ phase = "sections"
    /\ todo = {}
    /\ phase' = "pipelines"
    /\ todo' = DOMAIN doc.pipelines
    /\ UNCHANGED <<doc, at, result>>

(* validatePipeline begins; a pipeline that is not a map is not looked into. *)
EnterPipeline(p) ==
    /\ phase = "pipelines"
    /\ at = NotOne
    /\ p \in todo
    /\ \/ /\ doc.pipelines[p] = NotOne
          /\ Fail(<<p>>, "INVALID_PIPELINE_TYPE")
          /\ todo' = todo \ {p}
          /\ UNCHANGED at
       \/ /\ doc.pipelines[p] # NotOne
          /\ at' = [pipeline |-> p, stage |-> 1, item |-> 0]
          /\ UNCHANGED <<todo, result>>
    /\ UNCHANGED <<doc, phase>>

(* Mutant of NextStage: an error returns from validatePipeline. *)
LeavePipeline ==
    /\ at' = NotOne
    /\ todo' = todo \ {at.pipeline}

(* Mutant of NextStage: the loop runs one stage too far. *)
StageTooFar ==
    /\ at' = [at EXCEPT !.stage = @ + 1, !.item = 0]
    /\ UNCHANGED todo

(* The code goes on to the next stage, or returns after the last one. *)
NextStage ==
    \/ /\ at.stage < Len(Stages)
       /\ at' = [at EXCEPT !.stage = @ + 1, !.item = 0]
       /\ UNCHANGED todo
    \/ /\ at.stage = Len(Stages)
       /\ at' = NotOne
       /\ todo' = todo \ {at.pipeline}

(* The stage is a list, or it is an error for receivers and exporters; a list of
   processors that is missing or something else is passed over. *)
CheckStage ==
    /\ phase = "pipelines"
    /\ at # NotOne
    /\ at.item = 0
    /\ LET stage == Stages[at.stage]
           items == doc.pipelines[at.pipeline][stage]
       IN  \/ /\ items = NotOne
              /\ stage # "processors"
              /\ Fail(<<at.pipeline, stage>>, "INVALID_STAGE_TYPE")
              /\ NextStage
           \/ /\ items \in {NotOne, <<>>}
              /\ items = NotOne => stage = "processors"
              /\ NextStage
              /\ UNCHANGED result
           \/ /\ items \notin {NotOne, <<>>}
              /\ at' = [at EXCEPT !.item = 1]
              /\ UNCHANGED <<todo, result>>
    /\ UNCHANGED <<doc, phase>>

(* An item of a stage is the name of a known component, or there is an error or
   a warning. *)
CheckItem ==
    /\ phase = "pipelines"
    /\ at # NotOne
    /\ at.item > 0
    /\ LET stage == Stages[at.stage]
           items == doc.pipelines[at.pipeline][stage]
           item == items[at.item]
       IN  /\ \/ /\ item = NotOne
                 /\ Fail(<<at.pipeline, stage, at.item - 1>>, "INVALID_COMPONENT_NAME")
              \/ /\ item # NotOne
                 /\ item.type \notin Known
                 /\ Warn("pipeline", item.type)
              \/ /\ item # NotOne
                 /\ item.type \in Known
                 /\ UNCHANGED result
           /\ IF at.item < Len(items)
              THEN at' = [at EXCEPT !.item = @ + 1] /\ UNCHANGED todo
              ELSE NextStage
    /\ UNCHANGED <<doc, phase>>

EnterComponents ==
    /\ phase = "pipelines"
    /\ todo = {}
    /\ phase' = "components"
    /\ UNCHANGED <<doc, todo, at, result>>

Unknown(d, s) == {<<s, n.type>> : n \in {x \in d.components[s] : x.type \notin Known}}

(* The components of the four sections: unknown types are only warned about. *)
CheckComponents ==
    /\ phase = "components"
    /\ phase' = "done"
    /\ warnings' = warnings \cup UNION {Unknown(doc, s) : s \in Section \ {"service"}}
    /\ UNCHANGED <<doc, todo, at, valid, errors>>

(* The result has been read. *)
Forget ==
    /\ phase = "done"
    /\ doc' = NotOne
    /\ phase' = "idle"
    /\ todo' = {}
    /\ valid' = TRUE
    /\ errors' = {}
    /\ warnings' = {}
    /\ UNCHANGED at

ValidatorStep ==
    \/ Parse \/ EnterPipelines \/ CheckStage \/ CheckItem \/ EnterComponents \/ CheckComponents
    \/ \E s \in Section : CheckSection(s)
    \/ \E p \in Pipelines : EnterPipeline(p)

ValidatorNext == (\E d \in Documents : Validate(d)) \/ ValidatorStep \/ Forget

ValidatorSpec == ValidatorInit /\ [][ValidatorNext]_validatorVars
-----------------------------------------------------------------------------
(* What is wrong with a document, without loops. *)

StageErrors(p, stage, items) ==
    IF items = NotOne
    THEN {Error(<<p, stage>>, "INVALID_STAGE_TYPE") : x \in {stage} \ {"processors"}}
    ELSE {Error(<<p, stage, i - 1>>, "INVALID_COMPONENT_NAME") :
             i \in {j \in DOMAIN items : items[j] = NotOne}}

PipelineErrors(p, pipeline) ==
    IF pipeline = NotOne
    THEN {Error(<<p>>, "INVALID_PIPELINE_TYPE")}
    ELSE UNION {StageErrors(p, stage, pipeline[stage]) : stage \in Stage}

ErrorsOf(d) ==
    IF ~d.parses
    THEN {Error(<<>>, "YAML_PARSE_ERROR")}
    ELSE {Error(<<s>>, "MISSING_SECTION") : s \in Required \ d.sections}
         \cup UNION {PipelineErrors(p, d.pipelines[p]) : p \in DOMAIN d.pipelines}

(* What is unknown in a document: the types that its pipelines refer to and those
   in its sections.  An item that is no name is an error and nothing more. *)

NotKnown(item) == item # NotOne /\ item.type \notin Known

ItemWarnings(items) ==
    IF items = NotOne THEN {}
    ELSE {<<"pipeline", items[i].type>> : i \in {j \in DOMAIN items : NotKnown(items[j])}}

PipelineWarnings(pipeline) ==
    IF pipeline = NotOne THEN {}
    ELSE UNION {ItemWarnings(pipeline[stage]) : stage \in Stage}

WarningsOf(d) ==
    IF ~d.parses THEN {}
    ELSE (UNION {PipelineWarnings(d.pipelines[p]) : p \in DOMAIN d.pipelines})
         \cup UNION {Unknown(d, s) : s \in Section \ {"service"}}

(* The result names everything that is wrong with the document and nothing else,
   says valid exactly if nothing is, and warns of every unknown component, also
   next to an error, in whatever order the two Go maps are walked: no error path
   swallows another or a warning, none forgets result.Valid. *)
ResultIsExact ==
    phase = "done" =>
        /\ errors = ErrorsOf(doc)
        /\ valid <=> errors = {}
        /\ warnings = WarningsOf(doc)
=============================================================================
