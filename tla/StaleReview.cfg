SPECIFICATION MCSpec
CONSTANTS
    q1 = q1
    q2 = q2
    r1 = r1
    r2 = r2
    yes = yes
    no = no
    later = later
    Unit = {q1, q2}
    Text = {"asked", "reworded"}
    Meaning = {yes, no, later}
    OptionSets <- Choices
    Lang = {"nl"}
    Written = Written
    Request = {r1, r2}
    None = None
    MaxLanguages = 1
    MaxSaves = 4
    MaxVersions = 2
    MaxAnswers = 1
    Turns = {"rewording"}
INVARIANTS
    ReadAgainstItsWording
