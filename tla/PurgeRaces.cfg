SPECIFICATION MCSpec
CONSTANTS
    s1 = s1
    s2 = s2
    r1 = r1
    r2 = r2
    p1 = p1
    pic1 = pic1
    pic2 = pic2
    empty = empty
    b1 = b1
    Survey = {s1}
    Request = {r1}
    Picture = {pic1, pic2}
    Part = {p1}
    Optional = {}
    Look <- Looks2
    Body = {empty, b1}
    EmptyBody = empty
    Lang = {}
    MaxSurveyImages = 2
    MaxWorkspaceImages = 1
    Follow = Follow
    NoOne = NoOne
    Job = Job
    MaxVersions = 2
    MaxStamp = 0
    Turns = {"nightly"}
INVARIANTS
    VersionPicturesStored
