CONSTANT RESENDS = 2
SPECIFICATION Spec
INVARIANT TypeOK
INVARIANT WalkFollowsList
INVARIANT DataCoversRequest
INVARIANT BuffersClearOfList
INVARIANT TogglesAlternate
