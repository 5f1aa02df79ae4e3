SPECIFICATION PipelineFairSpec
CONSTANTS
    Event <- Calls
    Worker = {w1, w2}
    BatchSize = 2
    MaxStamp = 1
    MaxFaults = 1
    Rejecting = FALSE
    Unmarshalable = {"infinite match"}
    Id = {1, 2}
    Text = {"text", "other"}
    Most = 2
    Now = 2
    Upper <- TwoLetters
    Words <- TwoWords
    Acronyms <- OneAcronym
    MostWords = 2
INVARIANTS PipelineTypeOK EventsFollowRows MissingNeedsFault DocumentsDescribeRows DocumentsTellRowsApart ConceptsApart LabelsReadLikeNames
PROPERTIES EveryEventDelivered EveryRowDelivered
