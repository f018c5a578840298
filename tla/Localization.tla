---------------------------- MODULE Localization ----------------------------
(***************************************************************************)
(* The questions of one survey in other languages: a draft edited from     *)
(* several windows at once, translations that a model drafts and a person  *)
(* reads, the versions that freeze both, and the answers given on a        *)
(* translated form (internal/http/localizations.go, surveys.go,            *)
(* internal/domain/localization.go, survey.go, internal/store/surveys.go,  *)
(* localizations.go).                                                      *)
(*                                                                         *)
(* A request loads the whole draft and later saves the whole draft: what   *)
(* was saved between the two is overwritten, whatever it was about.  Only  *)
(* a publication reads and writes in one transaction.  The thank you page  *)
(* and the words of a style are translated, read and frozen the way a      *)
(* question without options is; they are not told apart here.              *)
(***************************************************************************)
EXTENDS Naturals, Sequences, FiniteSets

CONSTANTS
    Unit,         \* Question Identities
    Text,         \* wordings of a question
    Meaning,      \* what an option stands for
    OptionSets,   \* the option lists questions have, as what their options mean in order
    Lang,         \* languages beside the one the survey is written in
    Written,      \* the language the survey is written in
    Request,      \* the creator's requests and open pages
    None,         \* stands for a missing question, translation, page, form or request
    MaxLanguages, \* maxLanguagesPerSurvey
    MaxSaves,     \* bound: saves of the draft
    MaxVersions,  \* bound: versions
    MaxAnswers    \* bound: answers

ASSUME BoundsAssumption == {MaxLanguages, MaxSaves, MaxVersions, MaxAnswers} \subseteq Nat
ASSUME LanguagesAssumption == Written \notin Lang
ASSUME OptionsAssumption ==  \* Question.Validate refuses an option given twice
    /\ OptionSets \subseteq Seq(Meaning)
    /\ \A o \in OptionSets : \A i, j \in DOMAIN o : o[i] = o[j] => i = j

VARIABLES
    draft,      \* the working copy: questions, languages, translations
    revisions,  \* how many Draft Revisions its saves appended
    taken,      \* the identities given out so far: a new question starts a new one
    page,       \* a languages page open in a window, as its reader filled it in
    loaded,     \* the draft a request loaded and works on
    versions,   \* the published versions, in order
    read,       \* what a person has posted: words, of which question, in which language, under which wording
    form,       \* the respondent's form
    answers     \* the answers so far: what was chosen and what was recorded

vars == <<draft, revisions, taken, page, loaded, versions, read, form, answers>>
creator == <<draft, revisions, taken, page, loaded, read>>
respondent == <<form, answers>>

-----------------------------------------------------------------------------

Refused == None

\* An option as somebody reads it.
Label == [means : Meaning, lang : Lang \cup {Written}]
Worded(options, lang) == [i \in DOMAIN options |-> [means |-> options[i], lang |-> lang]]
LabelLists == {Worded(o, l) : o \in OptionSets, l \in Lang \cup {Written}} \cup {<<>>}

\* The words of a translation: of which wording, and whose.
Words == [of : Text, by : {"model", "creator"}]

Question == [text : Text, options : OptionSets]
Translation == [words : Words, options : LabelLists, source : Text, reviewed : BOOLEAN]
Row == [words : Words, options : LabelLists]
Entry == [words : Words, options : LabelLists, against : Text]

ASSUME NoneAssumption == None \notin Row

Draft == [asked : [Unit -> Question \cup {None}], langs : SUBSET Lang,
          in : [Lang -> [Unit -> Translation \cup {None}]]]
Version == [asked : [Unit -> Question \cup {None}], in : [Lang -> [Unit -> Row \cup {None}]]]

Asked(d) == {u \in Unit : d.asked[u] # None}
Untranslated == [u \in Unit |-> None]

\* Faults: a translation counts once it is there; a question that was
\* never translated is passed over.
PendingUntranslated(d, l) ==
    {u \in Asked(d) : d.in[l][u] = None \/ d.in[l][u].source # d.asked[u].text}
PendingOfTranslated(d, l) ==
    {u \in Asked(d) : d.in[l][u] # None /\ (~d.in[l][u].reviewed \/ d.in[l][u].source # d.asked[u].text)}

\* The questions a language still has to be translated or read in: never
\* translated, not yet read, or translated from a wording since changed.
Pending(d, l) ==
    {u \in Asked(d) : \/ d.in[l][u] = None
                      \/ ~d.in[l][u].reviewed
                      \/ d.in[l][u].source # d.asked[u].text}

ReadyToPublish(d) == \A l \in d.langs : Pending(d, l) = {}

-----------------------------------------------------------------------------
(* Editing the draft.                                                      *)

LoadDraft(r) ==
    /\ loaded[r] = None
    /\ page[r] = None
    /\ loaded' = [loaded EXCEPT ![r] = draft]
    /\ UNCHANGED <<draft, revisions, taken, page, versions, read, respondent>>

\* saveDraft: the working copy becomes what the request holds, and a
\* revision is appended, in one transaction.
SaveDraft(r, d) ==
    /\ revisions < MaxSaves
    /\ draft' = d
    /\ revisions' = revisions + 1
    /\ loaded' = [loaded EXCEPT ![r] = None]
    /\ page' = [page EXCEPT ![r] = None]
    /\ UNCHANGED <<versions, respondent>>

QuestionAdd(r, u, q) ==
    /\ loaded[r] # None /\ page[r] = None
    /\ u \notin taken
    /\ taken' = taken \cup {u}
    /\ SaveDraft(r, [loaded[r] EXCEPT !.asked[u] = q])
    /\ UNCHANGED read

QuestionUpdate(r, u, q) ==
    /\ loaded[r] # None /\ page[r] = None
    /\ u \in Asked(loaded[r])
    /\ SaveDraft(r, [loaded[r] EXCEPT !.asked[u] = q])
    /\ UNCHANGED <<taken, read>>

\* Its translations stay in the draft, attached to an identity no question has.
QuestionDelete(r, u) ==
    /\ loaded[r] # None /\ page[r] = None
    /\ u \in Asked(loaded[r])
    /\ SaveDraft(r, [loaded[r] EXCEPT !.asked[u] = None])
    /\ UNCHANGED <<taken, read>>

AddLanguage(r, l) ==
    /\ loaded[r] # None /\ page[r] = None
    /\ l \notin loaded[r].langs
    /\ Cardinality(loaded[r].langs) < MaxLanguages
    /\ SaveDraft(r, [loaded[r] EXCEPT !.langs = @ \cup {l}, !.in[l] = Untranslated])
    /\ UNCHANGED <<taken, read>>

RemoveLanguage(r, l) ==
    /\ loaded[r] # None /\ page[r] = None
    /\ l \in loaded[r].langs
    /\ SaveDraft(r, [loaded[r] EXCEPT !.langs = @ \ {l}, !.in[l] = Untranslated])
    /\ UNCHANGED <<taken, read>>

\* What the model drafts: a question's words; its options stay as written.
Drafted(q) ==
    [words |-> [of |-> q.text, by |-> "model"], options |-> Worded(q.options, Written),
     source |-> q.text, reviewed |-> FALSE]

\* A call of the model for each pending question, all on the draft loaded
\* before the first: those done when the allowance or the model gives out
\* are kept.
LocalizationDraft(r, l, done) ==
    /\ loaded[r] # None /\ page[r] = None
    /\ l \in loaded[r].langs
    /\ done # {} /\ done \subseteq Pending(loaded[r], l)
    /\ SaveDraft(r, [loaded[r] EXCEPT !.in[l] =
           [u \in Unit |-> IF u \in done THEN Drafted(loaded[r].asked[u]) ELSE @[u]]])
    /\ UNCHANGED <<taken, read>>

\* What a reader may leave in the fields of a question: nothing, the words
\* displayed or words of their own; and, line by line, the options
\* displayed as translated so far, or those of the question, translated.
Fillings(d, l, u) ==
    LET was == d.in[l][u]
        text == d.asked[u].text
        shownWords == IF was = None THEN {} ELSE {was.words}
        shownOptions == IF was = None THEN {<<>>} ELSE {was.options}
    IN {None} \cup [words : shownWords \cup {[of |-> text, by |-> "creator"]},
                    options : shownOptions \cup {Worded(d.asked[u].options, l)},
                    against : {text}]

\* The languages page, rendered from the draft as it was and filled in.
FillIn(r, l, entries) ==
    /\ loaded[r] = None /\ page[r] = None
    /\ l \in draft.langs
    /\ \A u \in Unit : entries[u] \in IF u \in Asked(draft) THEN Fillings(draft, l, u) ELSE {None}
    /\ entries # Untranslated
    /\ page' = [page EXCEPT ![r] = [lang |-> l, entries |-> entries]]
    /\ UNCHANGED <<draft, revisions, taken, loaded, versions, read, respondent>>

\* The page is sent: the draft is loaded anew.  A language that it no
\* longer has is not found.
LoadForSave(r) ==
    /\ page[r] # None /\ loaded[r] = None
    /\ page[r].lang \in draft.langs
    /\ loaded' = [loaded EXCEPT ![r] = draft]
    /\ UNCHANGED <<draft, revisions, taken, page, versions, read, respondent>>

\* What was posted for the questions the loaded draft asks.
Posted(r) == {u \in Asked(loaded[r]) : page[r].entries[u] # None}

\* An entry as the loaded draft takes it: read, and of the wording that
\* draft has.
Accepted(entry, q) ==
    [words |-> entry.words,
     options |-> IF entry.options = <<>> THEN Worded(q.options, Written) ELSE entry.options,
     source |-> q.text, reviewed |-> TRUE]

LocalizationSave(r) ==
    /\ page[r] # None /\ loaded[r] # None
    /\ LET l == page[r].lang
           entries == page[r].entries
       IN /\ SaveDraft(r, [loaded[r] EXCEPT !.in[l] =
                 [u \in Unit |-> IF u \in Posted(r) THEN Accepted(entries[u], loaded[r].asked[u])
                                                   ELSE @[u]]])
          /\ read' = read \cup {[lang |-> l, unit |-> u, words |-> entries[u].words,
                                 against |-> entries[u].against] : u \in Posted(r)}
    /\ UNCHANGED taken

\* A request that is refused or fails, and a page that is closed or not found.
Leave(r) ==
    /\ <<page[r], loaded[r]>> # <<None, None>>
    /\ page' = [page EXCEPT ![r] = None]
    /\ loaded' = [loaded EXCEPT ![r] = None]
    /\ UNCHANGED <<draft, revisions, taken, versions, read, respondent>>

-----------------------------------------------------------------------------
(* Publishing.                                                             *)

\* Only the questions are compared, never a translation.
Changed == IF versions = <<>> THEN TRUE ELSE versions[Len(versions)].asked # draft.asked

\* A question's translation is frozen with it, in every language of the draft.
Frozen(d) ==
    [asked |-> d.asked,
     in |-> [l \in Lang |-> [u \in Unit |->
         IF l \in d.langs /\ u \in Asked(d) /\ d.in[l][u] # None
         THEN [words |-> d.in[l][u].words, options |-> d.in[l][u].options]
         ELSE None]]]

Publish ==
    /\ Len(versions) < MaxVersions
    /\ Asked(draft) # {}
    /\ ReadyToPublish(draft)
    /\ Changed
    /\ versions' = Append(versions, Frozen(draft))
    /\ UNCHANGED <<creator, respondent>>

-----------------------------------------------------------------------------
(* Answering in a language.                                                *)

VersionLanguages(v) == {l \in Lang : \E u \in Unit : v.in[l][u] # None}

\* Fault: translated options are shown however many they are.
OptionsTranslated(v, l, u) ==
    IF l = Written \/ v.in[l][u] = None THEN Worded(v.asked[u].options, Written)
                                       ELSE v.in[l][u].options

\* LocalizedQuestions: a translated option list is shown only when it is
\* as long as the question's.
OptionsShown(v, l, u) ==
    LET written == Worded(v.asked[u].options, Written)
    IN IF l = Written \/ v.in[l][u] = None THEN written
       ELSE IF Len(v.in[l][u].options) = Len(written) THEN v.in[l][u].options
       ELSE written

\* No two options of a list are the same, translated line by line or not.
PositionOf(choice, shown) == CHOOSE i \in DOMAIN shown : shown[i] = choice

\* canonicalAnswers: the choice as the creator wrote it, by its position.
Canonical(choice, shown, written) ==
    IF Len(written) = Len(shown) /\ \E i \in DOMAIN shown : shown[i] = choice
    THEN written[PositionOf(choice, shown)]
    ELSE choice

\* A choice validated against the options as written: recorded, or refused.
Outcome(choice, shown, written) ==
    LET canonical == Canonical(choice, shown, written)
    IN IF \E i \in DOMAIN written : written[i] = canonical THEN canonical.means ELSE Refused

\* The form names the version it shows, and its address the language.
Respond(l, u) ==
    /\ form = None
    /\ Cardinality(answers) < MaxAnswers
    /\ versions # <<>>
    /\ LET v == versions[Len(versions)]
       IN /\ l \in VersionLanguages(v) \cup {Written}
          /\ u \in Asked(v)
          /\ v.asked[u].options # <<>>
          /\ form' = [version |-> Len(versions), lang |-> l, unit |-> u]
    /\ UNCHANGED <<creator, versions, answers>>

\* Fault: a submission is read against the latest version.
LatestVersion == versions[Len(versions)]

\* The version a submission is read back and validated against.
ServedVersion == versions[form.version]

\* What is chosen is an option of the page in front of the respondent; the
\* submission is read back in the language of its address.
RespondSubmit(i) ==
    /\ form # None
    /\ LET v == ServedVersion
           inFront == OptionsShown(versions[form.version], form.lang, form.unit)
           shown == OptionsShown(v, form.lang, form.unit)
       IN /\ i \in DOMAIN inFront
          /\ answers' = answers \cup
                 {[version |-> form.version, lang |-> form.lang, unit |-> form.unit,
                   chosen |-> inFront[i].means,
                   recorded |-> Outcome(inFront[i], shown, Worded(v.asked[form.unit].options, Written))]}
    /\ form' = None
    /\ UNCHANGED <<creator, versions>>

-----------------------------------------------------------------------------

Init ==
    /\ draft = [asked |-> Untranslated, langs |-> {}, in |-> [l \in Lang |-> Untranslated]]
    /\ revisions = 0
    /\ taken = {}
    /\ page = [r \in Request |-> None]
    /\ loaded = [r \in Request |-> None]
    /\ versions = <<>>
    /\ read = {}
    /\ form = None
    /\ answers = {}

Edit(r) ==
    \/ LoadDraft(r)
    \/ \E u \in Unit, q \in Question : QuestionAdd(r, u, q) \/ QuestionUpdate(r, u, q)
    \/ \E u \in Unit : QuestionDelete(r, u)
    \/ \E l \in Lang : AddLanguage(r, l) \/ RemoveLanguage(r, l)

Translate(r) ==
    \/ \E l \in Lang, done \in SUBSET Unit : LocalizationDraft(r, l, done)
    \/ \E l \in draft.langs :
          \E entries \in [Unit -> UNION {Fillings(draft, l, u) : u \in Asked(draft)} \cup {None}] :
              FillIn(r, l, entries)
    \/ LoadForSave(r)
    \/ LocalizationSave(r)

Next ==
    \/ \E r \in Request : Edit(r) \/ Translate(r) \/ Leave(r)
    \/ Publish
    \/ \E l \in Lang \cup {Written}, u \in Unit : Respond(l, u)
    \/ \E i \in UNION {DOMAIN o : o \in OptionSets} : RespondSubmit(i)

Spec == Init /\ [][Next]_vars

-----------------------------------------------------------------------------
(* What must hold.                                                         *)

TypeOK ==
    /\ draft \in Draft
    /\ revisions \in 0..MaxSaves
    /\ taken \subseteq Unit
    /\ page \in [Request -> [lang : Lang, entries : [Unit -> Entry \cup {None}]] \cup {None}]
    /\ loaded \in [Request -> Draft \cup {None}]
    /\ versions \in Seq(Version)
    /\ read \subseteq [lang : Lang, unit : Unit, words : Words, against : Text]
    /\ form \in [version : DOMAIN versions, lang : Lang \cup {Written}, unit : Unit] \cup {None}
    /\ answers \subseteq [version : DOMAIN versions, lang : Lang \cup {Written}, unit : Unit,
                          chosen : Meaning, recorded : Meaning \cup {Refused}]

Published(l, u) == {v \in {versions[i] : i \in DOMAIN versions} : v.in[l][u] # None}

\* Words go out in a language only after a person posted those words for
\* that question in that language, whatever windows and drafted
\* translations came between (story 23; Publish, ReadyToPublish, Pending).
NothingUnreadGoesOut ==
    \A l \in Lang, u \in Unit : \A v \in Published(l, u) :
        \E p \in read : p.lang = l /\ p.unit = u /\ p.words = v.in[l][u].words

\* A language that a version offers covers every question the version
\* asks, those added after the language was translated included
\* (VersionLanguages, Pending, publishResolved).
LanguagesComplete ==
    \A i \in DOMAIN versions : \A l \in VersionLanguages(versions[i]) :
        \A u \in Asked(versions[i]) : versions[i].in[l][u] # None

\* The translated options of a question that are in the order of its own
\* options, or that are not as many.
InOrder(v, l, u) ==
    LET written == v.asked[u].options
    IN \/ l = Written
       \/ v.in[l][u] = None
       \/ Len(v.in[l][u].options) # Len(written)
       \/ \A i \in DOMAIN written : v.in[l][u].options[i].means = written[i]

\* A choice made on a form is accepted and recorded as the option it
\* stands for, in whatever language the form was read and whatever has
\* been published since it was opened, wherever the frozen translation
\* keeps the options' order or has another number of them
\* (applyLanguage, canonicalAnswers, respondSubmit).
RecordedAsChosen ==
    \A a \in answers :
        InOrder(versions[a.version], a.lang, a.unit) => a.recorded = a.chosen

\* A choice is recorded as the option it stands for, always: canonicalAnswers
\* takes a localized option set to be "complete and in the creator's order"
\* wherever it is served.
AnswersMeanTheSame == \A a \in answers : a.recorded = a.chosen

\* A translation goes out only under the wording it was read against:
\* "Publishing refuses until every selected language is reviewed against
\* the current wording" (internal/http/localizations.go).
ReadAgainstItsWording ==
    \A l \in Lang, u \in Unit : \A v \in Published(l, u) :
        \E p \in read : /\ p.lang = l /\ p.unit = u /\ p.words = v.in[l][u].words
                        /\ p.against = v.asked[u].text
=============================================================================
