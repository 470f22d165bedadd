SPECIFICATION Spec
CONSTANTS
    a = a  b = b  c = c
    Label = Label
    StampedLabel = StampedLabel
    NoName = NoName
    Blank = Blank
    Names <- MCNames
    ByteSum <- MCByteSum
    DirEntryCount = 6
    EntriesPerSector = 2
    ScanLimit = 5
    SectorSize = 3
    MaxResults = 4
    MediaEntry = 4080
    Texts <- MCTexts
    ImageFiles <- MCImageFiles
CONSTRAINT
    ToTheAnswer
INVARIANTS
    NoSharedClusters
    DataIsReachable
    DirectoryFits
    ListShowsFiles
    AnswersAreDurable
    ReadShowsAll
PROPERTIES
    ImplementsStore
