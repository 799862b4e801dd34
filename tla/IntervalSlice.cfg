CONSTANTS
    OpenInterval = 7
    Spans <- MCSpans
SPECIFICATION SliceSpec
INVARIANTS SortedWithGaps MeasuresCoverage AgreesWithIntervals
PROPERTY ImplementsInstantSet
