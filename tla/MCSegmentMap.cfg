SPECIFICATION Spec
CONSTANTS
    SegmentImages <- MCImages
    PageSize <- MCPageSize
INVARIANTS
    SegmentsInPlace
    ProtectsAsAsked
