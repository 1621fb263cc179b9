SPECIFICATION Spec
CONSTANTS
    Dataset = {d1, d2, d3}
    File = {f1, f2}
    None = None
SYMMETRY Symmetry
VIEW View
CONSTRAINT OneVersionSetWithFiles
INVARIANTS
    TypeOK
    LinkedDraftsHaveTheirOriginal
    OrderFollowsCreation
    UnpublishedVersionIsNewest
    VersionNumbersFollowCreation
PROPERTIES
    CumulationNeverReopens
    ImplementsPublishedDatasets
CHECK_DEADLOCK FALSE
