\* Two scans one after the other, one turn of the display.
SPECIFICATION FairSpec
CONSTANTS
    h1 = h1
    s1 = s1
    s2 = s2
    k1 = k1
    k2 = k2
    Bad = Bad
    Hosts = {h1}
    SessionIds = {s1, s2}
    PairingCodes = {k1, k2}
    Names = {"Desktop", "Mac"}
    Infos <- InfosTried
    Links <- LinksTried
    Scans = {1, 2}
    Peers <- PeersAtAddress
    ImageSize <- TwelveByEight
    MaxLength = 6
    NoScan = NoScan
    Codes <- CodesInView
    Orientation = 90
    Layouts <- PortraitAndLandscape
    PreviewEvery = 2
    MaxTurns = 1
    MaxPosted = 1
INVARIANTS
    CameraUnderGate
    WindowFollowsScan
    SessionIsPaired
    CropIsTheBox
    UriReads
PROPERTIES
    ReadsOnlyWhatIsShown
    ScanEnds
\* The user may do nothing, and the bounds end.
CHECK_DEADLOCK FALSE
