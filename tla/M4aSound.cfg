SPECIFICATION SafeSpec
CONSTANT Periods = {2, 3, 4, 5, 6, 7, 9, 12, 16}
INVARIANTS DmaFollowsIdent DmaInBuffer PartAhead
