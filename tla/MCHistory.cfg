\* The history behind both loops, through two wraparounds; two words fill a
\* history slot, and expansions can overflow the slot and the buffer.
CONSTANTS
    Words = {"a"}
    Size = 2
    EntryMax = 2
    LineMax = 2
    VecMax = 3
    Alphabet <- FewKinds
    MaxCount = 4
SPECIFICATION Spec
INVARIANTS
    RepeatsOnlyWhenCut
PROPERTIES
    ImplementsRecentLines
    NewestIsWhatRan
