SPECIFICATION Spec
CONSTANTS
    p1 = p1
    p2 = p2
    c1 = c1
    c2 = c2
    c3 = c3
    Types = {"otlp", "foo"}
    Known = {"otlp"}
    Pipelines = {p1, p2}
    MaxItems = 2
    Documents <- AllDocuments
    NotOne = NotOne
    Changes = {c1, c2, c3}
    Emergencies = {c3}
    Original = Original
    NoContent = NoContent
    Base = Base
    MaxSeconds = 1
    MaxErrors = 2
    Drafts <- SomeDrafts
    Texts <- SomeTexts
    Reason = Reason
INVARIANTS
    TypeOK
    ResultIsExact
    ReceivedIsSent
    ProposalShowsItsChange
    BaseIsReviewed
    OrphansAreReported
CHECK_DEADLOCK FALSE
