--------------------------- MODULE MCConfigChange ---------------------------
(* Instances of ConfigChange for TLC. *)
EXTENDS ConfigChange, TLC

CONSTANTS p1, p2, c1, c2, c3

Good == [type |-> "otlp", variant |-> FALSE]

Unheard == [type |-> "foo", variant |-> TRUE]

NoPipelines == [p \in {} |-> NotOne]

Document(sections, components, pipelines) ==
    [parses |-> TRUE, sections |-> sections,
     components |-> [s \in Section \ {"service"} |-> IF s \in sections THEN components ELSE {}],
     pipelines |-> pipelines]

(* Every choice of required sections, without pipelines. *)
BySection ==
    {Document(s \cup {"extensions"}, {Good, Unheard}, NoPipelines) : s \in SUBSET Required}

Stage3(r, p, e) == [receivers |-> r, processors |-> p, exporters |-> e]

(* Every pipeline with these stages. *)
ByStage ==
    {Document(Section, {Good}, p1 :> Stage3(r, p, e)) :
        r \in {NotOne, <<>>, <<Unheard>>, <<NotOne, Good>>},
        p \in {NotOne, <<Good, NotOne>>},
        e \in {NotOne, <<Good>>}}

OnePipeline == Stage3(<<Good, NotOne>>, NotOne, <<Good>>)

(* Two pipelines, in either order, one of which may not be a map. *)
ByOrder ==
    {Document(Section, {}, p1 :> a @@ p2 :> b) :
        a \in {NotOne, OnePipeline}, b \in {NotOne, OnePipeline}}

Broken == [Document({}, {}, NoPipelines) EXCEPT !.parses = FALSE]

Plain == Document(Section, {Good}, p1 :> Stage3(<<Good>>, <<>>, <<Good>>))

AllDocuments == BySection \cup ByStage \cup ByOrder \cup {Broken, Plain}

(* The first change brings any document, the other two a good one. *)
SomeDrafts == c1 :> AllDocuments @@ c2 :> {Plain} @@ c3 :> {Plain}

(* The text of the emergency may have a second document. *)
SomeTexts == c3 :> {<<Plain>>, <<Plain, Broken>>}
=============================================================================
