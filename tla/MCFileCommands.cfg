\* Three files, a buffer of two units, operands that exist, do not, are
\* directories or too long, any number of commands.
CONSTANTS
    Files = {f1, f2, f3}
    Contents <- SomeContents
    BufSize = 2
    Absent = absent
    Folder = folder
    TooLong = toolong
    MaxOperands = 2
SPECIFICATION Spec
INVARIANTS
    CopyInOrder
    NoDescriptorLeft
PROPERTIES
    NothingLost
