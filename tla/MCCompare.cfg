SPECIFICATION Spec
CONSTANT Half = 4
INVARIANTS SignedOrder UnsignedOrder RangesInclusive
