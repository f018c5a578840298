SPECIFICATION FairMCSpec
CONSTANTS
    s1 = s1
    s2 = s2
    r1 = r1
    r2 = r2
    p1 = p1
    pic1 = pic1
    pic2 = pic2
    empty = empty
    b1 = b1
    Survey = {s1}
    Request = {r1, r2}
    Picture = {pic1}
    Part = {p1}
    Optional = {}
    Look <- Looks1
    Body = {empty, b1}
    EmptyBody = empty
    Lang = {}
    MaxSurveyImages = 1
    MaxWorkspaceImages = 1
    Follow = Follow
    NoOne = NoOne
    Job = Job
    MaxVersions = 1
    MaxStamp = 2
    Turns = {"nightly", "requests"}
INVARIANTS
    PublishesWhatIsStored
PROPERTIES
    UnusedPicturesGo
    RequestsEnd
