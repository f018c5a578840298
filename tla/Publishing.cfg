SPECIFICATION MCSpec
CONSTANTS
    s1 = s1
    s2 = s2
    r1 = r1
    r2 = r2
    p1 = p1
    l1 = l1
    pic1 = pic1
    pic2 = pic2
    empty = empty
    b1 = b1
    Survey = {s1}
    Request = {r1, r2}
    Picture = {pic1, pic2}
    Part = {p1}
    Optional = {p1}
    Look <- Looks2
    Body = {empty, b1}
    EmptyBody = empty
    Lang = {l1}
    MaxSurveyImages = 1
    MaxWorkspaceImages = 1
    Follow = Follow
    NoOne = NoOne
    Job = Job
    MaxVersions = 2
    MaxStamp = 4
    Turns = {"pictures", "account", "refreshes", "languages"}
SYMMETRY Requests
INVARIANTS
    VersionPicturesStored
    PicturesWithinLimit
    PlansStaySound
    AccountPicturesStored
PROPERTIES
    ImplementsPublishedHistory
    RefreshChangesOnlyFollowedParts
    RefreshAppliesWhatWasAsked
    FrozenAsItStands
