SPECIFICATION Spec

CONSTANTS
    Total = 2
    MaxRequests = 2

PROPERTY FinishedTrainingIsSaved
