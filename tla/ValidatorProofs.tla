-------------------------- MODULE ValidatorProofs ---------------------------
(***************************************************************************)
(* Proofs about module Validator: its result is exact, for any documents   *)
(* and any registry of components.                                         *)
(*                                                                         *)
(* The loops keep an exact account: at every moment the errors are those   *)
(* of the part of the document that they have come past.                   *)
(***************************************************************************)
EXTENDS Validator, TLAPS

Missing(S) == {Error(<<s>>, "MISSING_SECTION") : s \in S}

(* The errors of the first pipelines, and of a pipeline's first stages and items. *)
OfPipelines(d, P) == UNION {PipelineErrors(p, d.pipelines[p]) : p \in P}

OfStages(p, pipeline, n) == UNION {StageErrors(p, Stages[k], pipeline[Stages[k]]) : k \in 1..n}

OfItems(p, stage, items, n) ==
    {Error(<<p, stage, i - 1>>, "INVALID_COMPONENT_NAME") : i \in {j \in 1..n : items[j] = NotOne}}

ItemsAt == doc.pipelines[at.pipeline][Stages[at.stage]]

(* What is wrong with the part of the current pipeline that is behind. *)
Passed ==
    IF at = NotOne
    THEN {}
    ELSE OfStages(at.pipeline, doc.pipelines[at.pipeline], at.stage - 1)
         \cup (IF at.item = 0 THEN {}
               ELSE OfItems(at.pipeline, Stages[at.stage], ItemsAt, at.item - 1))

(* The account that each loop keeps. *)
Account ==
    /\ phase \in {"idle", "parse"} => errors = {}
    /\ phase \in {"sections", "pipelines", "components"} => doc.parses
    /\ phase = "sections" => errors = Missing((Required \ doc.sections) \ todo)
    /\ phase = "pipelines" =>
          /\ todo \subseteq DOMAIN doc.pipelines
          /\ errors = Missing(Required \ doc.sections)
                      \cup OfPipelines(doc, DOMAIN doc.pipelines \ todo) \cup Passed
    /\ phase \in {"components", "done"} => errors = ErrorsOf(doc)

(* Inside a pipeline there is a map, and inside a stage there is a list. *)
InsideIsThere ==
    at # NotOne =>
        /\ doc.pipelines[at.pipeline] # NotOne
        /\ at.item > 0 => ItemsAt # NotOne /\ at.item <= Len(ItemsAt)

(* The inductive invariant. *)
ValidatorIInv ==
    /\ ValidatorTypeOK
    /\ valid <=> errors = {}
    /\ InsideIsThere
    /\ Account
-----------------------------------------------------------------------------
LEMMA StagesAre ==
    /\ Len(Stages) = 3
    /\ Stages[1] = "receivers" /\ Stages[2] = "processors" /\ Stages[3] = "exporters"
    /\ \A k \in 1..3 : Stages[k] \in Stage
BY DEF Stages, Stage

(* The stages of the code are all stages there are. *)
LEMMA AllStages ==
    ASSUME NEW p, NEW pipeline, pipeline # NotOne
    PROVE  OfStages(p, pipeline, 3) = PipelineErrors(p, pipeline)
<1>1. Stage = {Stages[k] : k \in 1..3}
  BY StagesAre DEF Stage
<1> QED
  BY <1>1 DEF OfStages, PipelineErrors

LEMMA OneMoreStage ==
    ASSUME NEW p, NEW pipeline, NEW n \in 1..3
    PROVE  OfStages(p, pipeline, n)
             = OfStages(p, pipeline, n - 1) \cup StageErrors(p, Stages[n], pipeline[Stages[n]])
<1>1. 1..n = 1..(n - 1) \cup {n}
  OBVIOUS
<1> QED
  BY <1>1 DEF OfStages

LEMMA OneMoreItem ==
    ASSUME NEW p, NEW stage, NEW items, NEW n \in Nat \ {0}
    PROVE  OfItems(p, stage, items, n)
             = OfItems(p, stage, items, n - 1)
               \cup {Error(<<p, stage, n - 1>>, "INVALID_COMPONENT_NAME") : x \in {y \in {n} : items[y] = NotOne}}
<1>1. 1..n = 1..(n - 1) \cup {n}
  OBVIOUS
<1> QED
  BY <1>1 DEF OfItems

LEMMA AllItems ==
    ASSUME NEW p, NEW stage, NEW items \in Items
    PROVE  OfItems(p, stage, items, Len(items)) = StageErrors(p, stage, items)
<1>1. items # NotOne /\ DOMAIN items = 1..Len(items)
  BY NotOneAssumption DEF Items
<1> QED
  BY <1>1 DEF OfItems, StageErrors

LEMMA OneMorePipeline ==
    ASSUME NEW d, NEW P, NEW p
    PROVE  OfPipelines(d, P \cup {p}) = OfPipelines(d, P) \cup PipelineErrors(p, d.pipelines[p])
BY DEF OfPipelines

LEMMA ErrorsOfParsed ==
    ASSUME NEW d, d.parses
    PROVE  ErrorsOf(d) = Missing(Required \ d.sections) \cup OfPipelines(d, DOMAIN d.pipelines)
BY DEF ErrorsOf, Missing, OfPipelines
-----------------------------------------------------------------------------
LEMMA ValidatorInitIInv == ValidatorInit => ValidatorIInv
BY DEF ValidatorInit, ValidatorIInv, ValidatorTypeOK, InsideIsThere, Account

LEMMA ValidateIInv ==
    ASSUME ValidatorIInv, NEW d \in Documents, Validate(d)
    PROVE  ValidatorIInv'
BY DocumentsAssumption, NotOneAssumption
   DEF Validate, ValidatorIInv, ValidatorTypeOK, InsideIsThere, Account, result

LEMMA ParseIInv ==
    ASSUME ValidatorIInv, Parse
    PROVE  ValidatorIInv'
<1>1. /\ phase = "parse" /\ at = NotOne /\ errors = {} /\ valid /\ doc # NotOne /\ UNCHANGED <<doc, at>>
  BY DEF Parse, ValidatorIInv, ValidatorTypeOK, Account
<1>2. CASE doc.parses
  <2>1. phase' = "sections" /\ todo' = Section /\ UNCHANGED <<valid, errors, warnings>>
    BY <1>2 DEF Parse, result
  <2>2. (Required \ doc.sections) \ Section = {}
    BY DEF Required, Section
  <2>3. Missing({}) = {}
    BY DEF Missing
  <2> QED
    BY <1>1, <1>2, <2>1, <2>2, <2>3 DEF ValidatorIInv, ValidatorTypeOK, InsideIsThere, Account
<1>3. CASE ~doc.parses
  <2>1. phase' = "done" /\ UNCHANGED todo /\ valid' = FALSE /\ errors' = {Error(<<>>, "YAML_PARSE_ERROR")}
    BY <1>1, <1>3 DEF Parse, Fail
  <2>2. errors' = ErrorsOf(doc) /\ errors' # {}
    BY <1>3, <2>1 DEF ErrorsOf
  <2> QED
    BY <1>1, <1>3, <2>1, <2>2 DEF ValidatorIInv, ValidatorTypeOK, InsideIsThere, Account
<1> QED
  BY <1>2, <1>3

LEMMA CheckSectionIInv ==
    ASSUME ValidatorIInv, NEW s \in Section, CheckSection(s)
    PROVE  ValidatorIInv'
<1>1. /\ phase = "sections" /\ at = NotOne /\ s \in todo /\ todo' = todo \ {s} /\ doc # NotOne
      /\ UNCHANGED <<doc, phase, at>>
  BY DEF CheckSection, ValidatorIInv, ValidatorTypeOK
<1>2. errors = Missing((Required \ doc.sections) \ todo)
  BY <1>1 DEF ValidatorIInv, Account
<1>3. errors' = Missing((Required \ doc.sections) \ todo')
  <2>1. CASE s \in Required /\ s \notin doc.sections
    <3>1. errors' = errors \cup {Error(<<s>>, "MISSING_SECTION")}
      BY <2>1 DEF CheckSection, Fail
    <3>2. (Required \ doc.sections) \ todo' = ((Required \ doc.sections) \ todo) \cup {s}
      BY <1>1, <2>1
    <3> QED
      BY <1>2, <3>1, <3>2 DEF Missing
  <2>2. CASE ~(s \in Required /\ s \notin doc.sections)
    <3>1. errors' = errors
      BY <2>2 DEF CheckSection, result
    <3>2. (Required \ doc.sections) \ todo' = (Required \ doc.sections) \ todo
      BY <1>1, <2>2
    <3> QED
      BY <1>2, <3>1, <3>2
  <2> QED
    BY <2>1, <2>2
<1>4. valid' \in BOOLEAN /\ (valid' <=> errors' = {})
  BY DEF CheckSection, Fail, result, ValidatorIInv, ValidatorTypeOK
<1> QED
  BY <1>1, <1>3, <1>4 DEF ValidatorIInv, ValidatorTypeOK, InsideIsThere, Account

LEMMA EnterPipelinesIInv ==
    ASSUME ValidatorIInv, EnterPipelines
    PROVE  ValidatorIInv'
<1>1. /\ phase = "sections" /\ todo = {} /\ at = NotOne /\ doc # NotOne
      /\ phase' = "pipelines" /\ todo' = DOMAIN doc.pipelines
      /\ UNCHANGED <<doc, at, valid, errors, warnings>>
  BY DEF EnterPipelines, ValidatorIInv, ValidatorTypeOK, result
<1>2. errors' = Missing(Required \ doc.sections)
  BY <1>1 DEF ValidatorIInv, Account
<1>3. OfPipelines(doc, DOMAIN doc.pipelines \ DOMAIN doc.pipelines) = {}
  BY DEF OfPipelines
<1>4. Passed' = {}
  BY <1>1 DEF Passed
<1>5. DOMAIN doc.pipelines \subseteq Pipelines
  BY <1>1 DEF ValidatorIInv, ValidatorTypeOK, IsDocument
<1> QED
  BY <1>1, <1>2, <1>3, <1>4, <1>5 DEF ValidatorIInv, ValidatorTypeOK, InsideIsThere, Account

(* The account of everything before the current pipeline. *)
Before == Missing(Required \ doc.sections) \cup OfPipelines(doc, DOMAIN doc.pipelines \ todo)

(* What the code knows when it is in a pipeline. *)
LEMMA Inside ==
    ASSUME ValidatorIInv, phase = "pipelines", at # NotOne
    PROVE  /\ doc # NotOne /\ IsDocument(doc) /\ doc.parses
           /\ at \in Place /\ at.pipeline \in todo /\ at.pipeline \in DOMAIN doc.pipelines
           /\ doc.pipelines[at.pipeline] # NotOne
           /\ doc.pipelines[at.pipeline] \in [Stage -> Items \cup {NotOne}]
           /\ ItemsAt \in Items \cup {NotOne}
           /\ errors = Before \cup Passed
<1>1. /\ doc # NotOne /\ IsDocument(doc) /\ doc.parses
      /\ at \in Place /\ at.pipeline \in todo /\ at.pipeline \in DOMAIN doc.pipelines
      /\ doc.pipelines[at.pipeline] # NotOne
      /\ errors = Before \cup Passed
  BY DEF ValidatorIInv, ValidatorTypeOK, Account, InsideIsThere, Before
<1>2. doc.pipelines[at.pipeline] \in [Stage -> Items \cup {NotOne}]
  BY <1>1 DEF IsDocument, Pipeline
<1>3. Stages[at.stage] \in Stage
  BY <1>1, StagesAre DEF Place
<1> QED
  BY <1>1, <1>2, <1>3 DEF ItemsAt

(* Going on to the next stage keeps the account if it is that of the whole stage. *)
LEMMA NextStageIInv ==
    ASSUME ValidatorIInv, phase = "pipelines", at # NotOne,
           NextStage, UNCHANGED <<doc, phase>>,
           valid' \in BOOLEAN, valid' <=> errors' = {},
           errors' = Before \cup OfStages(at.pipeline, doc.pipelines[at.pipeline], at.stage)
    PROVE  ValidatorIInv'
<1> DEFINE p == at.pipeline
           P == doc.pipelines[p]
<1>1. /\ doc # NotOne /\ IsDocument(doc) /\ doc.parses
      /\ at \in Place /\ p \in todo /\ p \in DOMAIN doc.pipelines /\ P # NotOne
      /\ at.stage \in 1..3
  BY Inside DEF Place
<1>2. todo \subseteq DOMAIN doc.pipelines /\ todo \subseteq Section \cup Pipelines
  BY DEF ValidatorIInv, ValidatorTypeOK, Account
<1>3. CASE at.stage < 3
  <2>1. at' = [at EXCEPT !.stage = @ + 1, !.item = 0] /\ UNCHANGED todo
    BY <1>1, <1>3, StagesAre DEF NextStage
  <2>2. at' = [pipeline |-> p, stage |-> at.stage + 1, item |-> 0]
    BY <1>1, <2>1 DEF Place
  <2>3. /\ at' \in Place /\ at' # NotOne
        /\ at'.pipeline = p /\ at'.stage = at.stage + 1 /\ at'.item = 0
    BY <1>1, <1>3, <2>2, MaxItemsAssumption, NotOneAssumption DEF Place
  <2>4. at'.stage - 1 = at.stage
    BY <1>1, <2>3
  <2>5. OfStages(at.pipeline, doc.pipelines[at.pipeline], at.stage - 1)' = OfStages(p, P, at.stage)
    BY <2>3, <2>4
  <2>6. Passed' = OfStages(p, P, at.stage)
    BY <2>3, <2>5 DEF Passed
  <2>7. ValidatorTypeOK'
    BY <1>1, <2>1, <2>3 DEF ValidatorIInv, ValidatorTypeOK
  <2>8. InsideIsThere'
    BY <1>1, <2>3 DEF InsideIsThere
  <2>9. Account'
    BY <1>1, <1>2, <2>1, <2>6 DEF Account, Before
  <2> QED
    BY <2>7, <2>8, <2>9 DEF ValidatorIInv
<1>4. CASE at.stage = 3
  <2>1. at' = NotOne /\ todo' = todo \ {p}
    BY <1>4, StagesAre DEF NextStage
  <2>2. Passed' = {}
    BY <2>1 DEF Passed
  <2>3. DOMAIN doc.pipelines \ todo' = (DOMAIN doc.pipelines \ todo) \cup {p}
    BY <1>1, <2>1
  <2>4. OfPipelines(doc, DOMAIN doc.pipelines \ todo')
          = OfPipelines(doc, DOMAIN doc.pipelines \ todo) \cup OfStages(p, P, 3)
    <3>1. OfStages(p, P, 3) = PipelineErrors(p, P)
      BY <1>1, AllStages
    <3>2. OfPipelines(doc, (DOMAIN doc.pipelines \ todo) \cup {p})
            = OfPipelines(doc, DOMAIN doc.pipelines \ todo) \cup PipelineErrors(p, P)
      BY OneMorePipeline
    <3> QED
      BY <2>3, <3>1, <3>2
  <2>5. errors' = Missing(Required \ doc.sections) \cup OfPipelines(doc, DOMAIN doc.pipelines \ todo')
    BY <1>4, <2>4 DEF Before
  <2>6. ValidatorTypeOK' /\ InsideIsThere'
    BY <1>1, <1>2, <2>1 DEF ValidatorIInv, ValidatorTypeOK, InsideIsThere
  <2>7. Account'
    BY <1>1, <1>2, <2>1, <2>2, <2>5 DEF Account
  <2> QED
    BY <2>6, <2>7 DEF ValidatorIInv
<1> QED
  BY <1>1, <1>3, <1>4

LEMMA EnterPipelineIInv ==
    ASSUME ValidatorIInv, NEW p \in Pipelines, EnterPipeline(p)
    PROVE  ValidatorIInv'
<1>1. /\ phase = "pipelines" /\ at = NotOne /\ p \in todo /\ doc # NotOne
      /\ IsDocument(doc) /\ doc.parses /\ UNCHANGED <<doc, phase>>
      /\ todo \subseteq DOMAIN doc.pipelines /\ todo \subseteq Section \cup Pipelines
  BY DEF EnterPipeline, ValidatorIInv, ValidatorTypeOK, Account
<1>2. errors = Before
  BY <1>1 DEF ValidatorIInv, Account, Passed, Before
<1>3. CASE doc.pipelines[p] = NotOne
  <2>1. /\ errors' = errors \cup {Error(<<p>>, "INVALID_PIPELINE_TYPE")} /\ valid' = FALSE
        /\ todo' = todo \ {p} /\ UNCHANGED at
    BY <1>3 DEF EnterPipeline, Fail
  <2>2. DOMAIN doc.pipelines \ todo' = (DOMAIN doc.pipelines \ todo) \cup {p}
    BY <1>1, <2>1
  <2>3. PipelineErrors(p, doc.pipelines[p]) = {Error(<<p>>, "INVALID_PIPELINE_TYPE")}
    BY <1>3 DEF PipelineErrors
  <2>4. errors' = Missing(Required \ doc.sections) \cup OfPipelines(doc, DOMAIN doc.pipelines \ todo')
    <3>1. OfPipelines(doc, (DOMAIN doc.pipelines \ todo) \cup {p})
            = OfPipelines(doc, DOMAIN doc.pipelines \ todo) \cup PipelineErrors(p, doc.pipelines[p])
      BY OneMorePipeline
    <3> QED
      BY <1>2, <2>1, <2>2, <2>3, <3>1 DEF Before
  <2>5. Passed' = {}
    BY <1>1, <2>1 DEF Passed
  <2>6. errors' # {}
    BY <2>1
  <2>7. ValidatorTypeOK' /\ InsideIsThere'
    BY <1>1, <2>1 DEF ValidatorIInv, ValidatorTypeOK, InsideIsThere
  <2>8. Account'
    BY <1>1, <2>1, <2>4, <2>5 DEF Account
  <2> QED
    BY <2>1, <2>6, <2>7, <2>8 DEF ValidatorIInv
<1>4. CASE doc.pipelines[p] # NotOne
  <2>1. /\ at' = [pipeline |-> p, stage |-> 1, item |-> 0]
        /\ UNCHANGED <<todo, valid, errors, warnings>>
    BY <1>4 DEF EnterPipeline, result
  <2>2. at' \in Place /\ at' # NotOne /\ at'.pipeline = p /\ at'.stage = 1 /\ at'.item = 0
    BY <2>1, MaxItemsAssumption, NotOneAssumption DEF Place
  <2>3. Passed' = {}
    BY <2>2 DEF Passed, OfStages
  <2>4. ValidatorTypeOK'
    BY <1>1, <2>1, <2>2 DEF ValidatorIInv, ValidatorTypeOK
  <2>5. InsideIsThere'
    BY <1>1, <1>4, <2>2 DEF InsideIsThere
  <2>6. Account'
    <3>1. errors' = Before \cup Passed'
      BY <1>2, <2>1, <2>3
    <3> QED
      BY <1>1, <2>1, <3>1 DEF Account, Before
  <2> QED
    BY <2>1, <2>4, <2>5, <2>6 DEF ValidatorIInv
<1> QED
  BY <1>3, <1>4

LEMMA CheckStageIInv ==
    ASSUME ValidatorIInv, CheckStage
    PROVE  ValidatorIInv'
<1> DEFINE p == at.pipeline
           P == doc.pipelines[p]
           stage == Stages[at.stage]
           here == StageErrors(p, stage, ItemsAt)
<1>1. phase = "pipelines" /\ at # NotOne /\ at.item = 0 /\ UNCHANGED <<doc, phase>>
  BY DEF CheckStage
<1>2. /\ doc # NotOne /\ IsDocument(doc) /\ doc.parses /\ at \in Place /\ p \in todo
      /\ P # NotOne /\ ItemsAt \in Items \cup {NotOne} /\ at.stage \in 1..3
      /\ errors = Before \cup Passed
  BY <1>1, Inside DEF Place
<1>3. Passed = OfStages(p, P, at.stage - 1)
  BY <1>1 DEF Passed
<1>4. OfStages(p, P, at.stage) = OfStages(p, P, at.stage - 1) \cup here
  BY <1>2, OneMoreStage DEF ItemsAt
<1>5. ItemsAt = P[stage]
  BY DEF ItemsAt
<1>6. CASE ItemsAt = NotOne /\ stage # "processors"
  <2>1. Fail(<<p, stage>>, "INVALID_STAGE_TYPE") /\ NextStage
    BY <1>5, <1>6, NotOneAssumption DEF CheckStage
  <2>2. here = {Error(<<p, stage>>, "INVALID_STAGE_TYPE")}
    BY <1>6 DEF StageErrors
  <2>3. errors' = Before \cup OfStages(p, P, at.stage) /\ valid' = FALSE /\ errors' # {}
    BY <1>2, <1>3, <1>4, <2>1, <2>2 DEF Fail
  <2> QED
    BY <1>1, <2>1, <2>3, NextStageIInv
<1>7. CASE ItemsAt = <<>> \/ (ItemsAt = NotOne /\ stage = "processors")
  <2>1. NextStage /\ UNCHANGED <<valid, errors, warnings>>
    <3>1. CASE ItemsAt = <<>>
      <4>1. <<>> # NotOne
        <5>1. <<>> \in Seq(Name \cup {NotOne})
          OBVIOUS
        <5> QED
          BY <5>1, NotOneAssumption
      <4> QED
        BY <1>5, <3>1, <4>1 DEF CheckStage, result
    <3>2. CASE ItemsAt = NotOne /\ stage = "processors"
      BY <1>5, <3>2 DEF CheckStage, result
    <3> QED
      BY <1>7, <3>1, <3>2
  <2>2. here = {}
    <3>1. CASE ItemsAt = <<>>
      <4>1. <<>> \in Seq(Name \cup {NotOne}) /\ DOMAIN <<>> = {}
        OBVIOUS
      <4>2. DOMAIN ItemsAt = {} /\ ItemsAt # NotOne
        BY <3>1, <4>1, NotOneAssumption
      <4> QED
        BY <4>2 DEF StageErrors
    <3>2. CASE ItemsAt = NotOne /\ stage = "processors"
      BY <3>2 DEF StageErrors
    <3> QED
      BY <1>7, <3>1, <3>2
  <2>3. errors' = Before \cup OfStages(p, P, at.stage)
    BY <1>2, <1>3, <1>4, <2>1, <2>2
  <2>4. valid' \in BOOLEAN /\ (valid' <=> errors' = {})
    BY <2>1 DEF ValidatorIInv, ValidatorTypeOK
  <2> QED
    BY <1>1, <2>1, <2>3, <2>4, NextStageIInv
<1>8. CASE ItemsAt \notin {NotOne, <<>>}
  <2>1. at' = [at EXCEPT !.item = 1] /\ UNCHANGED <<todo, valid, errors, warnings>>
    BY <1>5, <1>8 DEF CheckStage, result
  <2>2. Len(ItemsAt) \in 1..MaxItems
    BY <1>2, <1>8, MaxItemsAssumption DEF Items
  <2>3. /\ at' \in Place /\ at' # NotOne
        /\ at'.pipeline = p /\ at'.stage = at.stage /\ at'.item = 1
    BY <1>2, <2>1, <2>2, MaxItemsAssumption, NotOneAssumption DEF Place
  <2>4. ItemsAt' = ItemsAt
    BY <1>1, <2>3 DEF ItemsAt
  <2>5. OfItems(p, stage, ItemsAt, 0) = {}
    BY DEF OfItems
  <2>6. Passed' = Passed
    BY <1>1, <1>3, <2>3, <2>4, <2>5 DEF Passed
  <2>7. InsideIsThere'
    BY <1>1, <1>2, <1>8, <2>2, <2>3, <2>4 DEF InsideIsThere
  <2>8. ValidatorTypeOK'
    BY <1>1, <1>2, <2>1, <2>3 DEF ValidatorIInv, ValidatorTypeOK
  <2>9. Account'
    BY <1>1, <1>2, <2>1, <2>6 DEF ValidatorIInv, Account
  <2> QED
    BY <2>1, <2>7, <2>8, <2>9 DEF ValidatorIInv
<1> QED
  BY <1>6, <1>7, <1>8

(* An account grows at its end. *)
LEMMA GrowsAtItsEnd ==
    ASSUME NEW A, NEW B, NEW C, NEW D
    PROVE  (A \cup (B \cup C)) \cup D = A \cup B \cup (C \cup D)
OBVIOUS

LEMMA CheckItemIInv ==
    ASSUME ValidatorIInv, CheckItem
    PROVE  ValidatorIInv'
<1> DEFINE p == at.pipeline
           P == doc.pipelines[p]
           stage == Stages[at.stage]
           item == ItemsAt[at.item]
           here == {Error(<<p, stage, at.item - 1>>, "INVALID_COMPONENT_NAME") :
                       x \in {y \in {at.item} : ItemsAt[y] = NotOne}}
           behind == Before \cup OfStages(p, P, at.stage - 1)
                            \cup OfItems(p, stage, ItemsAt, at.item)
<1>1. phase = "pipelines" /\ at # NotOne /\ at.item > 0 /\ UNCHANGED <<doc, phase>>
  BY DEF CheckItem
<1>2. /\ doc # NotOne /\ IsDocument(doc) /\ doc.parses /\ at \in Place /\ p \in todo
      /\ P # NotOne /\ at.stage \in 1..3 /\ at.item \in Nat \ {0}
      /\ errors = Before \cup Passed
  BY <1>1, Inside DEF Place
<1>3. ItemsAt \in Items /\ at.item <= Len(ItemsAt) /\ Len(ItemsAt) \in 0..MaxItems
  <2>1. ItemsAt \in Items /\ at.item <= Len(ItemsAt)
    BY <1>1, Inside DEF ValidatorIInv, InsideIsThere
  <2> QED
    BY <2>1, MaxItemsAssumption DEF Items
<1>4. Passed = OfStages(p, P, at.stage - 1) \cup OfItems(p, stage, ItemsAt, at.item - 1)
  BY <1>1, <1>2 DEF Passed
<1>5. OfItems(p, stage, ItemsAt, at.item) = OfItems(p, stage, ItemsAt, at.item - 1) \cup here
  BY <1>2, OneMoreItem
<1>6. behind = errors \cup here
  <2> HIDE DEF here
  <2>1. behind = Before \cup OfStages(p, P, at.stage - 1)
                        \cup (OfItems(p, stage, ItemsAt, at.item - 1) \cup here)
    BY <1>5
  <2>2. errors \cup here
          = (Before \cup (OfStages(p, P, at.stage - 1) \cup OfItems(p, stage, ItemsAt, at.item - 1)))
            \cup here
    BY <1>2, <1>4
  <2> QED
    BY <2>1, <2>2, GrowsAtItsEnd
<1>7. errors' = behind /\ valid' \in BOOLEAN /\ (valid' <=> errors' = {})
  <2>1. CASE item = NotOne
    <3>1. Fail(<<p, stage, at.item - 1>>, "INVALID_COMPONENT_NAME")
      BY <2>1 DEF CheckItem, ItemsAt
    <3>2. here = {Error(<<p, stage, at.item - 1>>, "INVALID_COMPONENT_NAME")}
      BY <2>1
    <3> QED
      BY <1>6, <3>1, <3>2 DEF Fail
  <2>2. CASE item # NotOne
    <3>1. UNCHANGED <<valid, errors>>
      BY <2>2, Zenon DEF CheckItem, ItemsAt, Warn, result
    <3>2. here = {}
      BY <2>2
    <3>3. valid \in BOOLEAN /\ (valid <=> errors = {})
      BY DEF ValidatorIInv, ValidatorTypeOK
    <3> HIDE DEF here, behind
    <3> QED
      BY <1>6, <3>1, <3>2, <3>3
  <2> QED
    BY <2>1, <2>2
<1>8. valid' \in BOOLEAN /\ (valid' <=> errors' = {})
  BY <1>7, Zenon
<1>9. CASE at.item < Len(ItemsAt)
  <2>1. at' = [at EXCEPT !.item = @ + 1] /\ UNCHANGED todo
    BY <1>9 DEF CheckItem, ItemsAt
  <2>2. at' = [pipeline |-> p, stage |-> at.stage, item |-> at.item + 1]
    BY <1>2, <2>1 DEF Place
  <2>3. at.item + 1 \in 1..MaxItems /\ at.item + 1 <= Len(ItemsAt)
    BY <1>2, <1>3, <1>9, MaxItemsAssumption
  <2>4. /\ at' \in Place /\ at' # NotOne
        /\ at'.pipeline = p /\ at'.stage = at.stage /\ at'.item = at.item + 1
    BY <1>2, <2>2, <2>3, MaxItemsAssumption, NotOneAssumption DEF Place
  <2>5. ItemsAt' = ItemsAt
    BY <1>1, <2>4 DEF ItemsAt
  <2>6. at'.item # 0 /\ at'.item - 1 = at.item
    BY <1>2, <2>4
  <2>7. Passed' = OfStages(p, P, at.stage - 1) \cup OfItems(p, stage, ItemsAt, at.item)
    BY <1>1, <2>4, <2>5, <2>6 DEF Passed
  <2>8. InsideIsThere'
    <3>1. ItemsAt # NotOne
      BY <1>3, NotOneAssumption DEF Items
    <3> QED
      BY <1>1, <1>2, <2>3, <2>4, <2>5, <3>1 DEF InsideIsThere
  <2>9. ValidatorTypeOK'
    BY <1>1, <1>2, <1>8, <2>1, <2>4 DEF ValidatorIInv, ValidatorTypeOK
  <2>10. Account'
    <3>1. errors' = Before \cup Passed'
      BY <1>7, <2>7
    <3>2. todo \subseteq DOMAIN doc.pipelines
      BY <1>1 DEF ValidatorIInv, Account
    <3> QED
      BY <1>1, <1>2, <2>1, <3>1, <3>2 DEF Account, Before
  <2> QED
    BY ONLY <1>8, <2>8, <2>9, <2>10, SMTT(30) DEF ValidatorIInv
<1>10. CASE ~(at.item < Len(ItemsAt))
  <2>1. NextStage
    BY <1>10 DEF CheckItem, ItemsAt
  <2>2. at.item = Len(ItemsAt)
    BY <1>2, <1>3, <1>10
  <2>3. OfItems(p, stage, ItemsAt, at.item) = StageErrors(p, stage, ItemsAt)
    BY <1>3, <2>2, AllItems
  <2>4. OfStages(p, P, at.stage)
          = OfStages(p, P, at.stage - 1) \cup StageErrors(p, stage, ItemsAt)
    BY <1>2, OneMoreStage DEF ItemsAt
  <2>5. errors' = Before \cup OfStages(p, P, at.stage)
    BY <1>7, <2>3, <2>4
  <2>6. phase = "pipelines" /\ at # NotOne /\ UNCHANGED <<doc, phase>>
    BY <1>1
  <2> QED
    BY <1>8, <2>1, <2>5, <2>6, NextStageIInv, SMTT(30)
<1> QED
  BY <1>9, <1>10

LEMMA EnterComponentsIInv ==
    ASSUME ValidatorIInv, EnterComponents
    PROVE  ValidatorIInv'
<1>1. /\ phase = "pipelines" /\ todo = {} /\ doc # NotOne /\ doc.parses
      /\ phase' = "components" /\ UNCHANGED <<doc, todo, at, valid, errors, warnings>>
  BY DEF EnterComponents, ValidatorIInv, ValidatorTypeOK, Account, result
<1>2. at = NotOne
  BY <1>1 DEF ValidatorIInv, ValidatorTypeOK
<1>3. Passed = {} /\ DOMAIN doc.pipelines \ todo = DOMAIN doc.pipelines
  BY <1>1, <1>2 DEF Passed
<1>4. errors = ErrorsOf(doc)
  BY <1>1, <1>3, ErrorsOfParsed DEF ValidatorIInv, Account
<1> QED
  BY <1>1, <1>2, <1>4 DEF ValidatorIInv, ValidatorTypeOK, InsideIsThere, Account

LEMMA LastStepsIInv ==
    ASSUME ValidatorIInv, CheckComponents \/ Forget
    PROVE  ValidatorIInv'
<1>1. at = NotOne /\ UNCHANGED at
  BY DEF CheckComponents, Forget, ValidatorIInv, ValidatorTypeOK
<1>2. InsideIsThere'
  BY <1>1 DEF InsideIsThere
<1>3. CASE CheckComponents
  BY <1>1, <1>2, <1>3 DEF CheckComponents, ValidatorIInv, ValidatorTypeOK, Account
<1>4. CASE Forget
  BY <1>1, <1>2, <1>4 DEF Forget, ValidatorIInv, ValidatorTypeOK, Account
<1> QED
  BY <1>3, <1>4

LEMMA ValidatorNextIInv == ValidatorIInv /\ [ValidatorNext]_validatorVars => ValidatorIInv'
<1> SUFFICES ASSUME ValidatorIInv, [ValidatorNext]_validatorVars PROVE ValidatorIInv'
  OBVIOUS
<1>1. CASE \E d \in Documents : Validate(d)
  BY <1>1, ValidateIInv
<1>2. CASE ValidatorStep
  BY <1>2, ParseIInv, EnterPipelinesIInv, CheckStageIInv, CheckItemIInv, EnterComponentsIInv,
     LastStepsIInv, CheckSectionIInv, EnterPipelineIInv DEF ValidatorStep
<1>3. CASE Forget
  BY <1>3, LastStepsIInv
<1>4. CASE UNCHANGED validatorVars
  <2>1. UNCHANGED <<doc, phase, todo, at, valid, errors, warnings>>
    BY <1>4 DEF validatorVars, result
  <2>2. UNCHANGED <<ItemsAt, Passed>>
    BY <2>1 DEF ItemsAt, Passed
  <2> QED
    BY <2>1, <2>2 DEF ValidatorIInv, ValidatorTypeOK, InsideIsThere, Account
<1> QED
  BY <1>1, <1>2, <1>3, <1>4 DEF ValidatorNext
-----------------------------------------------------------------------------
(* The strengthened invariant holds in every reachable state. *)
THEOREM ValidatorInvariant == ValidatorSpec => []ValidatorIInv
  BY ValidatorInitIInv, ValidatorNextIInv, PTL DEF ValidatorSpec
-----------------------------------------------------------------------------
(* The warnings are kept by an account of their own.  It follows the one of the
   errors: the warnings are those of the part of the document that is behind. *)

WarnedPipelines(d, P) == UNION {PipelineWarnings(d.pipelines[p]) : p \in P}

WarnedStages(pipeline, n) == UNION {ItemWarnings(pipeline[Stages[k]]) : k \in 1..n}

WarnedItems(items, n) == {<<"pipeline", items[i].type>> : i \in {j \in 1..n : NotKnown(items[j])}}

WarnedHere ==
    IF at = NotOne
    THEN {}
    ELSE WarnedStages(doc.pipelines[at.pipeline], at.stage - 1)
         \cup (IF at.item = 0 THEN {} ELSE WarnedItems(ItemsAt, at.item - 1))

WarnedBefore == WarnedPipelines(doc, DOMAIN doc.pipelines \ todo)

WarnAccount ==
    /\ phase \in {"idle", "parse", "sections"} => warnings = {}
    /\ phase = "pipelines" => warnings = WarnedBefore \cup WarnedHere
    /\ phase = "components" => warnings = WarnedPipelines(doc, DOMAIN doc.pipelines)
    /\ phase = "done" => warnings = WarningsOf(doc)

LEMMA AllStagesWarned ==
    ASSUME NEW pipeline, pipeline # NotOne
    PROVE  WarnedStages(pipeline, 3) = PipelineWarnings(pipeline)
<1>1. Stage = {Stages[k] : k \in 1..3}
  BY StagesAre DEF Stage
<1> QED
  BY <1>1 DEF WarnedStages, PipelineWarnings

LEMMA OneMoreStageWarned ==
    ASSUME NEW pipeline, NEW n \in 1..3
    PROVE  WarnedStages(pipeline, n)
             = WarnedStages(pipeline, n - 1) \cup ItemWarnings(pipeline[Stages[n]])
<1>1. 1..n = 1..(n - 1) \cup {n}
  OBVIOUS
<1> QED
  BY <1>1 DEF WarnedStages

LEMMA OneMoreItemWarned ==
    ASSUME NEW items, NEW n \in Nat \ {0}
    PROVE  WarnedItems(items, n)
             = WarnedItems(items, n - 1)
               \cup {<<"pipeline", items[y].type>> : y \in {x \in {n} : NotKnown(items[x])}}
<1>1. 1..n = 1..(n - 1) \cup {n}
  OBVIOUS
<1> QED
  BY <1>1 DEF WarnedItems

LEMMA AllItemsWarned ==
    ASSUME NEW items \in Items
    PROVE  WarnedItems(items, Len(items)) = ItemWarnings(items)
<1>1. items # NotOne /\ DOMAIN items = 1..Len(items)
  BY NotOneAssumption DEF Items
<1> QED
  BY <1>1 DEF WarnedItems, ItemWarnings

LEMMA OneMorePipelineWarned ==
    ASSUME NEW d, NEW P, NEW p
    PROVE  WarnedPipelines(d, P \cup {p}) = WarnedPipelines(d, P) \cup PipelineWarnings(d.pipelines[p])
BY DEF WarnedPipelines

LEMMA WarningsOfParsed ==
    ASSUME NEW d, d.parses
    PROVE  WarningsOf(d) = WarnedPipelines(d, DOMAIN d.pipelines)
                           \cup UNION {Unknown(d, s) : s \in Section \ {"service"}}
BY DEF WarningsOf, WarnedPipelines

LEMMA FirstStepsWarn ==
    ASSUME ValidatorIInv, WarnAccount,
           \/ \E d \in Documents : Validate(d)
           \/ Parse \/ EnterPipelines \/ Forget
           \/ \E s \in Section : CheckSection(s)
    PROVE  WarnAccount'
<1> USE DEF WarnAccount, result
<1>1. CASE (\E d \in Documents : Validate(d)) \/ Forget
  BY <1>1 DEF Validate, Forget
<1>2. CASE Parse
  <2>1. warnings' = {} /\ doc' = doc /\ (phase' = "sections" \/ (phase' = "done" /\ ~doc.parses))
    BY <1>2 DEF Parse, Fail
  <2> QED
    BY <2>1 DEF WarningsOf
<1>3. CASE \E s \in Section : CheckSection(s)
  BY <1>3 DEF CheckSection, Fail
<1>4. CASE EnterPipelines
  <2>1. phase' = "pipelines" /\ warnings' = {} /\ at' = NotOne /\ todo' = DOMAIN doc.pipelines
        /\ doc' = doc
    BY <1>4 DEF EnterPipelines, ValidatorIInv, ValidatorTypeOK
  <2>2. WarnedHere' = {} /\ WarnedBefore' = {}
    BY <2>1 DEF WarnedHere, WarnedBefore, WarnedPipelines
  <2> QED
    BY <2>1, <2>2
<1> QED
  BY <1>1, <1>2, <1>3, <1>4

(* Going on to the next stage keeps the account if it is that of the whole stage. *)
LEMMA NextStageWarn ==
    ASSUME ValidatorIInv, phase = "pipelines", at # NotOne,
           NextStage, UNCHANGED <<doc, phase>>,
           warnings' = WarnedBefore \cup WarnedStages(doc.pipelines[at.pipeline], at.stage)
    PROVE  WarnAccount'
<1> DEFINE p == at.pipeline
           P == doc.pipelines[p]
<1>1. at \in Place /\ p \in todo /\ p \in DOMAIN doc.pipelines /\ P # NotOne /\ at.stage \in 1..3
  BY Inside DEF Place
<1>2. CASE at.stage < 3
  <2>1. at' = [at EXCEPT !.stage = @ + 1, !.item = 0] /\ UNCHANGED todo
    BY <1>1, <1>2, StagesAre DEF NextStage
  <2>2. at' = [pipeline |-> p, stage |-> at.stage + 1, item |-> 0]
    BY <1>1, <2>1 DEF Place
  <2>3. at' # NotOne /\ at'.pipeline = p /\ at'.stage = at.stage + 1 /\ at'.item = 0
    BY <1>1, <1>2, <2>2, MaxItemsAssumption, NotOneAssumption DEF Place
  <2>4. at'.stage - 1 = at.stage
    BY <1>1, <2>3
  <2>5. WarnedStages(doc.pipelines[at.pipeline], at.stage - 1)' = WarnedStages(P, at.stage)
    BY <2>3, <2>4
  <2>6. WarnedHere' = WarnedStages(P, at.stage)
    BY <2>3, <2>5 DEF WarnedHere
  <2> QED
    BY <2>1, <2>6 DEF WarnAccount, WarnedBefore
<1>3. CASE at.stage = 3
  <2>1. at' = NotOne /\ todo' = todo \ {p}
    BY <1>3, StagesAre DEF NextStage
  <2>2. WarnedHere' = {}
    BY <2>1 DEF WarnedHere
  <2>3. DOMAIN doc.pipelines \ todo' = (DOMAIN doc.pipelines \ todo) \cup {p}
    BY <1>1, <2>1
  <2>4. WarnedBefore' = WarnedBefore \cup WarnedStages(P, 3)
    <3>1. WarnedStages(P, 3) = PipelineWarnings(P)
      BY <1>1, AllStagesWarned
    <3>2. WarnedPipelines(doc, (DOMAIN doc.pipelines \ todo) \cup {p})
            = WarnedPipelines(doc, DOMAIN doc.pipelines \ todo) \cup PipelineWarnings(P)
      BY OneMorePipelineWarned
    <3> QED
      BY <2>3, <3>1, <3>2 DEF WarnedBefore
  <2> QED
    BY <1>3, <2>2, <2>4 DEF WarnAccount
<1> QED
  BY <1>1, <1>2, <1>3

LEMMA EnterPipelineWarn ==
    ASSUME ValidatorIInv, WarnAccount, NEW p \in Pipelines, EnterPipeline(p)
    PROVE  WarnAccount'
<1>1. /\ phase = "pipelines" /\ at = NotOne /\ p \in todo /\ todo \subseteq DOMAIN doc.pipelines
      /\ UNCHANGED <<doc, phase, warnings>>
  BY DEF EnterPipeline, Fail, result, ValidatorIInv, Account
<1>2. warnings = WarnedBefore
  BY <1>1 DEF WarnAccount, WarnedHere
<1>3. WarnedHere' = {}
  <2>1. CASE at' = NotOne
    BY <2>1 DEF WarnedHere
  <2>2. CASE at' = [pipeline |-> p, stage |-> 1, item |-> 0]
    <3>1. at'.stage = 1 /\ at'.item = 0
      BY <2>2
    <3> QED
      BY <3>1 DEF WarnedHere, WarnedStages
  <2> QED
    BY <1>1, <2>1, <2>2 DEF EnterPipeline
<1>4. WarnedBefore' = WarnedBefore
  <2>1. CASE doc.pipelines[p] = NotOne
    <3>1. DOMAIN doc.pipelines \ todo' = (DOMAIN doc.pipelines \ todo) \cup {p}
      BY <1>1, <2>1 DEF EnterPipeline
    <3>2. PipelineWarnings(doc.pipelines[p]) = {}
      BY <2>1 DEF PipelineWarnings
    <3>3. WarnedPipelines(doc, (DOMAIN doc.pipelines \ todo) \cup {p})
            = WarnedPipelines(doc, DOMAIN doc.pipelines \ todo) \cup PipelineWarnings(doc.pipelines[p])
      BY OneMorePipelineWarned
    <3>4. WarnedPipelines(doc, DOMAIN doc.pipelines \ todo') = WarnedPipelines(doc, DOMAIN doc.pipelines \ todo)
      BY <3>1, <3>2, <3>3
    <3> QED
      BY <1>1, <3>4 DEF WarnedBefore
  <2>2. CASE doc.pipelines[p] # NotOne
    BY <1>1, <2>2 DEF EnterPipeline, WarnedBefore
  <2> QED
    BY <2>1, <2>2
<1> QED
  BY <1>1, <1>2, <1>3, <1>4 DEF WarnAccount

LEMMA CheckStageWarn ==
    ASSUME ValidatorIInv, WarnAccount, CheckStage
    PROVE  WarnAccount'
<1> DEFINE P == doc.pipelines[at.pipeline]
<1>1. /\ phase = "pipelines" /\ at # NotOne /\ at.item = 0 /\ UNCHANGED <<doc, phase, warnings>>
  BY DEF CheckStage, Fail, result
<1>2. at \in Place /\ ItemsAt \in Items \cup {NotOne} /\ at.stage \in 1..3
  BY <1>1, Inside DEF Place
<1>3. ItemsAt = P[Stages[at.stage]]
  BY DEF ItemsAt
<1>4. warnings = WarnedBefore \cup WarnedStages(P, at.stage - 1)
  BY <1>1 DEF WarnAccount, WarnedHere
<1>5. CASE ItemsAt \in {NotOne, <<>>}
  <2>1. NextStage
    BY <1>3, <1>5 DEF CheckStage
  <2>2. ItemWarnings(ItemsAt) = {}
    <3>1. CASE ItemsAt = <<>>
      <4>1. DOMAIN <<>> = {}
        OBVIOUS
      <4> QED
        BY <3>1, <4>1 DEF ItemWarnings
    <3>2. CASE ItemsAt = NotOne
      BY <3>2 DEF ItemWarnings
    <3> QED
      BY <1>5, <3>1, <3>2
  <2>3. WarnedStages(P, at.stage) = WarnedStages(P, at.stage - 1)
    <3>1. WarnedStages(P, at.stage) = WarnedStages(P, at.stage - 1) \cup ItemWarnings(P[Stages[at.stage]])
      BY <1>2, OneMoreStageWarned
    <3> QED
      BY <1>3, <2>2, <3>1
  <2> QED
    BY <1>1, <1>4, <2>1, <2>3, NextStageWarn
<1>6. CASE ItemsAt \notin {NotOne, <<>>}
  <2>1. at' = [at EXCEPT !.item = 1] /\ UNCHANGED todo
    BY <1>3, <1>6 DEF CheckStage
  <2>2. Len(ItemsAt) \in 1..MaxItems
    BY <1>2, <1>6, MaxItemsAssumption DEF Items
  <2>3. at' # NotOne /\ at'.pipeline = at.pipeline /\ at'.stage = at.stage /\ at'.item = 1
    BY <1>2, <2>1, <2>2, MaxItemsAssumption, NotOneAssumption DEF Place
  <2>4. WarnedItems(ItemsAt', 0) = {}
    BY DEF WarnedItems
  <2>5. WarnedHere' = WarnedStages(P, at.stage - 1)
    BY <1>1, <2>3, <2>4 DEF WarnedHere
  <2> QED
    BY <1>1, <1>4, <2>1, <2>5 DEF WarnAccount, WarnedBefore
<1> QED
  BY <1>5, <1>6

LEMMA CheckItemWarn ==
    ASSUME ValidatorIInv, WarnAccount, CheckItem
    PROVE  WarnAccount'
<1> DEFINE P == doc.pipelines[at.pipeline]
           item == ItemsAt[at.item]
           here == {<<"pipeline", ItemsAt[y].type>> : y \in {x \in {at.item} : NotKnown(ItemsAt[x])}}
<1>1. phase = "pipelines" /\ at # NotOne /\ at.item > 0 /\ UNCHANGED <<doc, phase>>
  BY DEF CheckItem
<1>2. at \in Place /\ at.stage \in 1..3 /\ at.item \in Nat \ {0}
  BY <1>1, Inside DEF Place
<1>3. ItemsAt \in Items /\ at.item <= Len(ItemsAt) /\ Len(ItemsAt) \in 0..MaxItems
  <2>1. ItemsAt \in Items /\ at.item <= Len(ItemsAt)
    BY <1>1, Inside DEF ValidatorIInv, InsideIsThere
  <2> QED
    BY <2>1, MaxItemsAssumption DEF Items
<1>4. warnings = WarnedBefore \cup (WarnedStages(P, at.stage - 1) \cup WarnedItems(ItemsAt, at.item - 1))
  BY <1>1, <1>2 DEF WarnAccount, WarnedHere
<1>5. warnings' = warnings \cup here
  <2>1. CASE NotKnown(item)
    <3>1. here = {<<"pipeline", item.type>>}
      BY <2>1
    <3>2. Warn("pipeline", item.type)
      BY <2>1 DEF CheckItem, ItemsAt, NotKnown
    <3> QED
      BY <3>1, <3>2 DEF Warn
  <2>2. CASE ~NotKnown(item)
    <3>1. here = {}
      BY <2>2
    <3>2. UNCHANGED warnings
      BY <2>2, Zenon DEF CheckItem, ItemsAt, NotKnown, Fail, result
    <3> QED
      BY <3>1, <3>2
  <2> QED
    BY <2>1, <2>2
<1>6. warnings' = WarnedBefore \cup (WarnedStages(P, at.stage - 1) \cup WarnedItems(ItemsAt, at.item))
  <2>1. WarnedItems(ItemsAt, at.item) = WarnedItems(ItemsAt, at.item - 1) \cup here
    BY <1>2, OneMoreItemWarned
  <2> HIDE DEF here
  <2> QED
    BY <1>4, <1>5, <2>1
<1>7. CASE at.item < Len(ItemsAt)
  <2>1. at' = [at EXCEPT !.item = @ + 1] /\ UNCHANGED todo
    BY <1>7 DEF CheckItem, ItemsAt
  <2>2. at' = [pipeline |-> at.pipeline, stage |-> at.stage, item |-> at.item + 1]
    BY <1>2, <2>1 DEF Place
  <2>3. at.item + 1 \in 1..MaxItems
    BY <1>2, <1>3, <1>7, MaxItemsAssumption
  <2>4. at' \in Place
    BY <1>2, <2>2, <2>3, MaxItemsAssumption DEF Place
  <2>5. /\ at' # NotOne /\ at'.pipeline = at.pipeline /\ at'.stage = at.stage
        /\ at'.item # 0 /\ at'.item - 1 = at.item
    BY <1>2, <2>2, <2>4, NotOneAssumption
  <2>6. ItemsAt' = ItemsAt
    BY <1>1, <2>5 DEF ItemsAt
  <2>7. WarnedHere' = WarnedStages(P, at.stage - 1) \cup WarnedItems(ItemsAt, at.item)
    BY <1>1, <2>5, <2>6 DEF WarnedHere
  <2> QED
    BY <1>1, <1>6, <2>1, <2>7 DEF WarnAccount, WarnedBefore
<1>8. CASE ~(at.item < Len(ItemsAt))
  <2>1. NextStage
    BY <1>8 DEF CheckItem, ItemsAt
  <2>2. at.item = Len(ItemsAt)
    BY <1>2, <1>3, <1>8
  <2>3. WarnedItems(ItemsAt, at.item) = ItemWarnings(ItemsAt)
    BY <1>3, <2>2, AllItemsWarned
  <2>4. WarnedStages(P, at.stage) = WarnedStages(P, at.stage - 1) \cup ItemWarnings(ItemsAt)
    BY <1>2, OneMoreStageWarned DEF ItemsAt
  <2>5. warnings' = WarnedBefore \cup WarnedStages(P, at.stage)
    BY <1>6, <2>3, <2>4
  <2> QED
    BY <1>1, <2>1, <2>5, NextStageWarn
<1> QED
  BY <1>7, <1>8

LEMMA LastStepsWarn ==
    ASSUME ValidatorIInv, WarnAccount, EnterComponents \/ CheckComponents
    PROVE  WarnAccount'
<1>1. CASE EnterComponents
  <2>1. /\ phase = "pipelines" /\ todo = {} /\ phase' = "components"
        /\ UNCHANGED <<doc, warnings>>
    BY <1>1 DEF EnterComponents, result
  <2>2. at = NotOne
    BY <2>1 DEF ValidatorIInv, ValidatorTypeOK
  <2>3. WarnedHere = {} /\ DOMAIN doc.pipelines \ todo = DOMAIN doc.pipelines
    BY <2>1, <2>2 DEF WarnedHere
  <2> QED
    BY <2>1, <2>3 DEF WarnAccount, WarnedBefore
<1>2. CASE CheckComponents
  <2>1. phase = "components" /\ phase' = "done" /\ doc' = doc /\ doc.parses
    BY <1>2 DEF CheckComponents, ValidatorIInv, Account
  <2>2. warnings' = WarnedPipelines(doc, DOMAIN doc.pipelines)
                    \cup UNION {Unknown(doc, s) : s \in Section \ {"service"}}
    BY <1>2, <2>1 DEF CheckComponents, WarnAccount
  <2>3. warnings' = WarningsOf(doc)
    BY <2>1, <2>2, WarningsOfParsed
  <2> QED
    BY <2>1, <2>3 DEF WarnAccount
<1> QED
  BY <1>1, <1>2

LEMMA NextWarn == ValidatorIInv /\ WarnAccount /\ [ValidatorNext]_validatorVars => WarnAccount'
<1> SUFFICES ASSUME ValidatorIInv, WarnAccount, [ValidatorNext]_validatorVars PROVE WarnAccount'
  OBVIOUS
<1>1. CASE UNCHANGED validatorVars
  <2>1. UNCHANGED <<doc, phase, todo, at, valid, errors, warnings>>
    BY <1>1 DEF validatorVars, result
  <2>2. UNCHANGED <<WarnedHere, WarnedBefore>>
    BY <2>1 DEF ItemsAt, WarnedHere, WarnedBefore
  <2> QED
    BY <2>1, <2>2 DEF WarnAccount
<1> QED
  BY <1>1, FirstStepsWarn, EnterPipelineWarn, CheckStageWarn, CheckItemWarn, LastStepsWarn
     DEF ValidatorNext, ValidatorStep

LEMMA WarnInvariant == ValidatorSpec => []WarnAccount
<1>1. ValidatorInit => WarnAccount
  BY DEF ValidatorInit, WarnAccount
<1> QED
  BY <1>1, NextWarn, ValidatorInvariant, PTL DEF ValidatorSpec

(* The result is exact: for any document, whatever the order of its sections and
   pipelines, Validate lists what is wrong with it and nothing else, says valid if
   and only if the list is empty, and warns of every component it does not know. *)
THEOREM ValidatorIsExact == ValidatorSpec => []ResultIsExact
<1>1. ValidatorIInv /\ WarnAccount => ResultIsExact
  BY DEF ValidatorIInv, Account, WarnAccount, ResultIsExact
<1> QED
  BY <1>1, ValidatorInvariant, WarnInvariant, PTL
=============================================================================
