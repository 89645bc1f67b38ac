CONSTANT RingSizes = {1, 2, 3, 4, 5, 6, 7}
SPECIFICATION TupleSpec
INVARIANTS TupleOK SweepsArc FreeIsRest OffsetsAgree
PROPERTY SegmentsAreTheChange
