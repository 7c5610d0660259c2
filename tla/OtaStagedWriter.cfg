SPECIFICATION Spec
CONSTANTS
    PageSize = 2
    Capacity = 4
    FixedLength = 1
    HeaderLength = 2
    Packages <- MCPackages
    Erased = Erased
    Garbage = Garbage
    MaxDisturbances = 1
INVARIANTS
    TypeOK
    VerifiedIsComplete
    SoundPackageAccepted
    StreamAccounted
PROPERTIES
    ImplementsUpload
    UploadEnds
