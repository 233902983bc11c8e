SPECIFICATION Spec
CONSTANTS
    SegmentImages <- DivergentImages
    PageSize <- MCPageSize
INVARIANT MapsAsDescribed
