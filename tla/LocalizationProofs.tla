------------------------- MODULE LocalizationProofs -------------------------
(***************************************************************************)
(* What holds of every instance of Localization: its types; that nothing   *)
(* goes out in a language unread; that a language is offered whole; that a *)
(* choice is recorded as what it stands for where the options are in       *)
(* order.                                                                  *)
(***************************************************************************)
EXTENDS Localization, TLAPS

\* A draft's translations marked as read are words a person posted.
TranslationsRead(d) ==
    \A l \in Lang, u \in Unit :
        d.in[l][u] # None /\ d.in[l][u].reviewed =>
            \E p \in read : p.lang = l /\ p.unit = u /\ p.words = d.in[l][u].words

\* The working copy, and every copy that a request may still save.
DraftsRead ==
    /\ TranslationsRead(draft)
    /\ \A r \in Request : loaded[r] # None => TranslationsRead(loaded[r])

\* A form shows a question of the version it names.
FormServed == form # None => form.unit \in Asked(versions[form.version])

Inv == TypeOK /\ DraftsRead /\ NothingUnreadGoesOut /\ LanguagesComplete /\ FormServed /\ RecordedAsChosen

-----------------------------------------------------------------------------
(* Types of what the model is built from.                                  *)

\* Worded keeps the length of a list of options, and reads each in a language.
LEMMA WordedType ==
    ASSUME NEW o \in OptionSets, NEW l \in Lang \cup {Written}
    PROVE  /\ Worded(o, l) \in LabelLists
           /\ Worded(o, l) \in Seq(Label)
           /\ Len(Worded(o, l)) = Len(o)
           /\ DOMAIN Worded(o, l) = DOMAIN o
           /\ \A i \in DOMAIN o : Worded(o, l)[i] = [means |-> o[i], lang |-> l]
<1>1. o \in Seq(Meaning) BY OptionsAssumption
<1>2. DOMAIN o = 1..Len(o) /\ Len(o) \in Nat /\ \A i \in DOMAIN o : o[i] \in Meaning BY <1>1
<1>3. \A i \in 1..Len(o) : [means |-> o[i], lang |-> l] \in Label BY <1>2 DEF Label
<1>4. Worded(o, l) = [i \in 1..Len(o) |-> [means |-> o[i], lang |-> l]] BY <1>2 DEF Worded
<1>5. Worded(o, l) \in Seq(Label) BY <1>2, <1>3, <1>4
<1>6. Worded(o, l) \in LabelLists BY DEF LabelLists
<1> QED BY <1>2, <1>4, <1>5, <1>6

\* Every list of labels is a sequence of labels.
LEMMA LabelListsType == LabelLists \subseteq Seq(Label)
<1> SUFFICES ASSUME NEW x \in LabelLists PROVE x \in Seq(Label) OBVIOUS
<1>1. CASE x = <<>> BY <1>1
<1>2. CASE \E o \in OptionSets, l \in Lang \cup {Written} : x = Worded(o, l) BY <1>2, WordedType
<1> QED BY <1>1, <1>2 DEF LabelLists

\* A draft stays a draft when a question, or a language's translations, change.
LEMMA DraftType ==
    ASSUME NEW d \in Draft
    PROVE  /\ \A u \in Unit : \A q \in Question \cup {None} : [d EXCEPT !.asked[u] = q] \in Draft
           /\ \A l \in Lang : \A f \in [Unit -> Translation \cup {None}] :
                 /\ [d EXCEPT !.in[l] = f] \in Draft
                 /\ [d EXCEPT !.langs = @ \cup {l}, !.in[l] = f] \in Draft
                 /\ [d EXCEPT !.langs = @ \ {l}, !.in[l] = f] \in Draft
<1> DEFINE Q == Question \cup {None}
           T == Translation \cup {None}
<1>1. Draft = [asked : [Unit -> Q], langs : SUBSET Lang, in : [Lang -> [Unit -> T]]] BY DEF Draft
<1> HIDE DEF Q, T
<1> QED BY <1>1 DEF Q, T

LEMMA UntranslatedType ==
    /\ Untranslated \in [Unit -> Translation \cup {None}]
    /\ Untranslated \in [Unit -> Question \cup {None}]
BY DEF Untranslated

\* What the model drafts and what a save takes are translations.
LEMMA DraftedType ==
    ASSUME NEW q \in Question
    PROVE  Drafted(q) \in Translation /\ ~Drafted(q).reviewed
<1>1. Worded(q.options, Written) \in LabelLists BY WordedType DEF Question
<1> QED BY <1>1 DEF Drafted, Translation, Question, Words

LEMMA AcceptedType ==
    ASSUME NEW q \in Question, NEW e \in Entry
    PROVE  Accepted(e, q) \in Translation /\ Accepted(e, q).words = e.words
<1>1. Worded(q.options, Written) \in LabelLists BY WordedType DEF Question
<1> QED BY <1>1 DEF Accepted, Entry, Translation, Question

\* What a reader leaves in a field is an entry.
LEMMA FillingsType ==
    ASSUME NEW d \in Draft, NEW l \in Lang, NEW u \in Asked(d)
    PROVE  Fillings(d, l, u) \subseteq Entry \cup {None}
<1>1. u \in Unit /\ d.asked[u] \in Question BY DEF Asked, Draft
<1>2. d.asked[u].text \in Text /\ Worded(d.asked[u].options, l) \in LabelLists
  BY <1>1, WordedType DEF Question
<1>3. d.in[l][u] \in Translation \cup {None} BY <1>1 DEF Draft
<1>4. d.in[l][u] # None => d.in[l][u].words \in Words /\ d.in[l][u].options \in LabelLists
  BY <1>3 DEF Translation
<1>5. [of |-> d.asked[u].text, by |-> "creator"] \in Words BY <1>2 DEF Words
<1>6. <<>> \in LabelLists BY DEF LabelLists
<1>7. CASE d.in[l][u] = None BY <1>2, <1>5, <1>6, <1>7 DEF Fillings, Entry
<1>8. CASE d.in[l][u] # None BY <1>2, <1>4, <1>5, <1>8 DEF Fillings, Entry
<1> QED BY <1>7, <1>8

\* What a publication freezes is a version, and a row wherever an asked
\* question is translated in a language of the draft, nowhere else.
LEMMA FrozenType ==
    ASSUME NEW d \in Draft
    PROVE  /\ Frozen(d) \in Version
           /\ Frozen(d).asked = d.asked
           /\ \A l \in Lang, u \in Unit :
                 /\ Frozen(d).in[l][u] # None <=>
                       l \in d.langs /\ u \in Asked(d) /\ d.in[l][u] # None
                 /\ Frozen(d).in[l][u] # None => Frozen(d).in[l][u].words = d.in[l][u].words
<1> DEFINE Held(l, u) == l \in d.langs /\ u \in Asked(d) /\ d.in[l][u] # None
           R(l, u) == [words |-> d.in[l][u].words, options |-> d.in[l][u].options]
           F(l, u) == IF Held(l, u) THEN R(l, u) ELSE None
<1>1. ASSUME NEW l \in Lang, NEW u \in Unit, Held(l, u) PROVE R(l, u) \in Row /\ R(l, u) # None
  <2>1. d.in[l][u] \in Translation BY <1>1 DEF Draft
  <2>2. R(l, u) \in Row BY <2>1 DEF Translation, Row
  <2> QED BY <2>2, NoneAssumption
<1>2. \A l \in Lang, u \in Unit : F(l, u) \in Row \cup {None} /\ (F(l, u) # None <=> Held(l, u))
  BY <1>1
<1>3. Frozen(d) = [asked |-> d.asked, in |-> [l \in Lang |-> [u \in Unit |-> F(l, u)]]]
  BY DEF Frozen
<1>4. d.asked \in [Unit -> Question \cup {None}] BY DEF Draft
<1>5. [l \in Lang |-> [u \in Unit |-> F(l, u)]] \in [Lang -> [Unit -> Row \cup {None}]] BY <1>2
<1>6. Frozen(d) \in Version BY <1>3, <1>4, <1>5 DEF Version
<1>7. \A l \in Lang, u \in Unit : Frozen(d).in[l][u] = F(l, u) BY <1>3
<1>8. Frozen(d).asked = d.asked BY <1>3
<1>9. \A l \in Lang, u \in Unit : Held(l, u) => F(l, u).words = d.in[l][u].words OBVIOUS
<1> QED BY <1>2, <1>6, <1>7, <1>8, <1>9

-----------------------------------------------------------------------------
(* Types.                                                                  *)

Page == [lang : Lang, entries : [Unit -> Entry \cup {None}]]

\* What has been answered, and what a respondent has open.
RespondentType ==
    /\ form \in [version : DOMAIN versions, lang : Lang \cup {Written}, unit : Unit] \cup {None}
    /\ answers \subseteq [version : DOMAIN versions, lang : Lang \cup {Written}, unit : Unit,
                          chosen : Meaning, recorded : Meaning \cup {Refused}]

\* A save of a draft leaves every type as it was, apart from what the
\* action changes beside it.
LEMMA SaveTypes ==
    ASSUME TypeOK, NEW r \in Request, NEW d \in Draft, SaveDraft(r, d)
    PROVE  /\ draft' \in Draft
           /\ revisions' \in 0..MaxSaves
           /\ page' \in [Request -> Page \cup {None}]
           /\ loaded' \in [Request -> Draft \cup {None}]
           /\ versions' \in Seq(Version)
           /\ RespondentType'
<1>1. revisions \in Nat /\ revisions' = revisions + 1 /\ revisions < MaxSaves BY DEF TypeOK, SaveDraft
<1>2. revisions' \in 0..MaxSaves BY <1>1, BoundsAssumption
<1> QED BY <1>2 DEF TypeOK, SaveDraft, RespondentType, Page, respondent

\* Whatever else an action does, a save of a well-typed draft keeps the types.
LEMMA SaveKeepsTypes ==
    ASSUME TypeOK, NEW r \in Request, NEW d \in Draft, SaveDraft(r, d),
           taken' \subseteq Unit,
           read' \subseteq [lang : Lang, unit : Unit, words : Words, against : Text]
    PROVE  TypeOK'
BY SaveTypes DEF TypeOK, RespondentType, Page

\* Every action of a window keeps the types.
LEMMA EditTypes ==
    ASSUME TypeOK, NEW r \in Request, Edit(r)
    PROVE  TypeOK'
<1>1. CASE LoadDraft(r) BY <1>1 DEF TypeOK, LoadDraft, respondent
<1>2. ASSUME NEW u \in Unit, NEW q \in Question, QuestionAdd(r, u, q) PROVE TypeOK'
  <2>1. loaded[r] \in Draft BY <1>2 DEF TypeOK, QuestionAdd
  <2>2. [loaded[r] EXCEPT !.asked[u] = q] \in Draft BY <2>1, DraftType
  <2> QED BY <1>2, <2>2, SaveKeepsTypes DEF QuestionAdd, TypeOK
<1>3. ASSUME NEW u \in Unit, NEW q \in Question, QuestionUpdate(r, u, q) PROVE TypeOK'
  <2>1. loaded[r] \in Draft BY <1>3 DEF TypeOK, QuestionUpdate
  <2>2. [loaded[r] EXCEPT !.asked[u] = q] \in Draft BY <2>1, DraftType
  <2> QED BY <1>3, <2>2, SaveKeepsTypes DEF QuestionUpdate, TypeOK
<1>4. ASSUME NEW u \in Unit, QuestionDelete(r, u) PROVE TypeOK'
  <2>1. loaded[r] \in Draft BY <1>4 DEF TypeOK, QuestionDelete
  <2>2. [loaded[r] EXCEPT !.asked[u] = None] \in Draft BY <2>1, DraftType
  <2> QED BY <1>4, <2>2, SaveKeepsTypes DEF QuestionDelete, TypeOK
<1>5. ASSUME NEW l \in Lang, AddLanguage(r, l) PROVE TypeOK'
  <2>1. loaded[r] \in Draft BY <1>5 DEF TypeOK, AddLanguage
  <2>2. [loaded[r] EXCEPT !.langs = @ \cup {l}, !.in[l] = Untranslated] \in Draft
    BY <2>1, DraftType, UntranslatedType
  <2> QED BY <1>5, <2>2, SaveKeepsTypes DEF AddLanguage, TypeOK
<1>6. ASSUME NEW l \in Lang, RemoveLanguage(r, l) PROVE TypeOK'
  <2>1. loaded[r] \in Draft BY <1>6 DEF TypeOK, RemoveLanguage
  <2>2. [loaded[r] EXCEPT !.langs = @ \ {l}, !.in[l] = Untranslated] \in Draft
    BY <2>1, DraftType, UntranslatedType
  <2> QED BY <1>6, <2>2, SaveKeepsTypes DEF RemoveLanguage, TypeOK
<1> QED BY <1>1, <1>2, <1>3, <1>4, <1>5, <1>6 DEF Edit

\* What a language's translations become when some are drafted, and when
\* some are saved.
DraftedIn(d, l, done) == [u \in Unit |-> IF u \in done THEN Drafted(d.asked[u]) ELSE d.in[l][u]]
SavedIn(r) == [u \in Unit |-> IF u \in Posted(r)
                               THEN Accepted(page[r].entries[u], loaded[r].asked[u])
                               ELSE loaded[r].in[page[r].lang][u]]

LEMMA DraftedInType ==
    ASSUME NEW d \in Draft, NEW l \in Lang, NEW done \in SUBSET Asked(d)
    PROVE  DraftedIn(d, l, done) \in [Unit -> Translation \cup {None}]
<1>1. \A u \in done : d.asked[u] \in Question BY DEF Asked, Draft
<1>2. \A u \in done : Drafted(d.asked[u]) \in Translation BY <1>1, DraftedType
<1>3. \A u \in Unit : d.in[l][u] \in Translation \cup {None} BY DEF Draft
<1> QED BY <1>2, <1>3 DEF DraftedIn

LEMMA SavedInType ==
    ASSUME TypeOK, NEW r \in Request, page[r] # None, loaded[r] # None
    PROVE  /\ page[r].lang \in Lang
           /\ \A u \in Posted(r) : /\ u \in Unit
                                   /\ loaded[r].asked[u] \in Question
                                   /\ page[r].entries[u] \in Entry
           /\ SavedIn(r) \in [Unit -> Translation \cup {None}]
<1>1. loaded[r] \in Draft /\ page[r].lang \in Lang
      /\ page[r].entries \in [Unit -> Entry \cup {None}]
  BY DEF TypeOK
<1>2. \A u \in Posted(r) : u \in Unit /\ loaded[r].asked[u] \in Question
  BY <1>1 DEF Posted, Asked, Draft
<1>3. \A u \in Posted(r) : page[r].entries[u] \in Entry BY <1>1, <1>2 DEF Posted
<1>4. \A u \in Posted(r) : Accepted(page[r].entries[u], loaded[r].asked[u]) \in Translation
  BY <1>2, <1>3, AcceptedType
<1>5. \A u \in Unit : loaded[r].in[page[r].lang][u] \in Translation \cup {None} BY <1>1 DEF Draft
<1> QED BY <1>1, <1>2, <1>3, <1>4, <1>5 DEF SavedIn

LEMMA TranslateTypes ==
    ASSUME TypeOK, NEW r \in Request, Translate(r)
    PROVE  TypeOK'
<1>1. ASSUME NEW l \in Lang, NEW done \in SUBSET Unit, LocalizationDraft(r, l, done) PROVE TypeOK'
  <2>1. loaded[r] \in Draft BY <1>1 DEF TypeOK, LocalizationDraft
  <2>2. done \subseteq Asked(loaded[r]) BY <1>1 DEF LocalizationDraft, Pending
  <2>3. [loaded[r] EXCEPT !.in[l] = DraftedIn(loaded[r], l, done)] \in Draft
    BY <2>1, <2>2, DraftType, DraftedInType
  <2>4. SaveDraft(r, [loaded[r] EXCEPT !.in[l] = DraftedIn(loaded[r], l, done)])
    BY <1>1, <2>1 DEF LocalizationDraft, DraftedIn, Draft
  <2> QED BY <1>1, <2>3, <2>4, SaveKeepsTypes DEF LocalizationDraft, TypeOK
<1>2. ASSUME NEW l \in draft.langs,
             NEW entries \in [Unit -> UNION {Fillings(draft, l, u) : u \in Asked(draft)} \cup {None}],
             FillIn(r, l, entries)
      PROVE TypeOK'
  <2>1. draft \in Draft /\ l \in Lang BY DEF TypeOK, Draft
  <2>2. \A u \in Unit : entries[u] \in Entry \cup {None}
    BY <1>2, <2>1, FillingsType DEF FillIn
  <2>3. entries \in [Unit -> Entry \cup {None}] BY <2>2
  <2>4. page' \in [Request -> Page \cup {None}]
    BY <1>2, <2>1, <2>3 DEF FillIn, TypeOK, Page
  <2> QED BY <1>2, <2>4 DEF TypeOK, FillIn, Page, respondent
<1>3. CASE LoadForSave(r) BY <1>3 DEF TypeOK, LoadForSave, respondent
<1>4. CASE LocalizationSave(r)
  <2>1. page[r] # None /\ loaded[r] # None /\ loaded[r] \in Draft
    BY <1>4 DEF LocalizationSave, TypeOK
  <2>2. [loaded[r] EXCEPT !.in[page[r].lang] = SavedIn(r)] \in Draft
    BY <2>1, SavedInType, DraftType
  <2>3. SaveDraft(r, [loaded[r] EXCEPT !.in[page[r].lang] = SavedIn(r)])
    BY <1>4, <2>1, SavedInType DEF LocalizationSave, SavedIn, Draft
  <2>4. read' = read \cup {[lang |-> page[r].lang, unit |-> u, words |-> page[r].entries[u].words,
                            against |-> page[r].entries[u].against] : u \in Posted(r)}
    BY <1>4 DEF LocalizationSave
  <2>5. read' \subseteq [lang : Lang, unit : Unit, words : Words, against : Text]
    BY <2>1, <2>4, SavedInType DEF TypeOK, Entry
  <2>6. taken' \subseteq Unit BY <1>4 DEF LocalizationSave, TypeOK
  <2> QED BY <2>2, <2>3, <2>5, <2>6, SaveKeepsTypes
<1> QED BY <1>1, <1>2, <1>3, <1>4 DEF Translate

\* The options on a form are a list of labels; where they are in order they
\* stand, one by one, for the question's own.
LEMMA ShownType ==
    ASSUME NEW v \in Version, NEW l \in Lang \cup {Written}, NEW u \in Asked(v)
    PROVE  /\ u \in Unit
           /\ v.asked[u].options \in OptionSets
           /\ OptionsShown(v, l, u) \in Seq(Label)
           /\ InOrder(v, l, u) =>
                 /\ Len(OptionsShown(v, l, u)) = Len(v.asked[u].options)
                 /\ \A i \in 1..Len(v.asked[u].options) :
                       OptionsShown(v, l, u)[i].means = v.asked[u].options[i]
<1> DEFINE o == v.asked[u].options
<1>1. u \in Unit /\ o \in OptionSets BY DEF Asked, Version, Question
<1>2. o \in Seq(Meaning) BY <1>1, OptionsAssumption
<1>3. /\ Worded(o, Written) \in Seq(Label)
      /\ Len(Worded(o, Written)) = Len(o)
      /\ \A i \in DOMAIN o : Worded(o, Written)[i] = [means |-> o[i], lang |-> Written]
  BY <1>1, WordedType
<1>4. ASSUME NEW i \in 1..Len(o) PROVE Worded(o, Written)[i].means = o[i]
  <2>1. i \in DOMAIN o BY <1>2
  <2>2. Worded(o, Written)[i] = [means |-> o[i], lang |-> Written] BY <1>3, <2>1
  <2> QED BY <2>2
<1>5. CASE l = Written \/ v.in[l][u] = None BY <1>1, <1>3, <1>4, <1>5 DEF OptionsShown
<1>6. CASE l # Written /\ v.in[l][u] # None
  <2>1. v.in[l][u] \in Row BY <1>1, <1>6 DEF Version
  <2>2. v.in[l][u].options \in Seq(Label) BY <2>1, LabelListsType DEF Row
  <2>3. CASE Len(v.in[l][u].options) = Len(o)
    <3>1. OptionsShown(v, l, u) = v.in[l][u].options BY <1>3, <1>6, <2>3 DEF OptionsShown
    <3>2. DOMAIN o = 1..Len(o) BY <1>2
    <3> QED BY <1>1, <1>6, <2>2, <2>3, <3>1, <3>2 DEF InOrder
  <2>4. CASE Len(v.in[l][u].options) # Len(o)
    <3>1. OptionsShown(v, l, u) = Worded(o, Written) BY <1>3, <1>6, <2>4 DEF OptionsShown
    <3> QED BY <1>1, <1>3, <1>4, <3>1
  <2> QED BY <2>3, <2>4
<1> QED BY <1>5, <1>6

\* What is recorded is what one of the options written stands for, or a refusal.
LEMMA OutcomeType ==
    ASSUME NEW o \in OptionSets, NEW choice, NEW shown
    PROVE  Outcome(choice, shown, Worded(o, Written)) \in Meaning \cup {Refused}
<1> DEFINE written == Worded(o, Written)
           canonical == Canonical(choice, shown, written)
<1>1. o \in Seq(Meaning) BY OptionsAssumption
<1>2. ASSUME NEW i \in DOMAIN written PROVE written[i].means \in Meaning
  <2>1. DOMAIN written = DOMAIN o /\ \A j \in DOMAIN o : written[j] = [means |-> o[j], lang |-> Written]
    BY WordedType
  <2>2. i \in DOMAIN o /\ o[i] \in Meaning BY <1>1, <2>1
  <2>3. written[i] = [means |-> o[i], lang |-> Written] BY <2>1, <2>2
  <2> QED BY <2>2, <2>3
<1>3. Outcome(choice, shown, written) =
        IF \E i \in DOMAIN written : written[i] = canonical THEN canonical.means ELSE Refused
  BY DEF Outcome
<1> QED BY <1>2, <1>3

\* A choice among options in order is recorded as what it stands for.
LEMMA OutcomeKept ==
    ASSUME NEW o \in OptionSets, NEW shown \in Seq(Label), Len(shown) = Len(o),
           \A j \in 1..Len(o) : shown[j].means = o[j],
           NEW i \in DOMAIN shown
    PROVE  Outcome(shown[i], shown, Worded(o, Written)) = shown[i].means
<1> DEFINE written == Worded(o, Written)
           p == PositionOf(shown[i], shown)
<1>1. o \in Seq(Meaning) BY OptionsAssumption
<1>2. DOMAIN o = 1..Len(o) /\ DOMAIN shown = 1..Len(o) BY <1>1
<1>3. p \in DOMAIN shown /\ shown[p] = shown[i] BY DEF PositionOf
<1>4. /\ Len(written) = Len(shown)
      /\ DOMAIN written = DOMAIN o
      /\ written[p] = [means |-> o[p], lang |-> Written]
  BY <1>2, <1>3, WordedType
<1>5. Canonical(shown[i], shown, written) = written[p] BY <1>4 DEF Canonical
<1>6. p \in DOMAIN written BY <1>2, <1>3, <1>4
<1>7. Outcome(shown[i], shown, written) = written[p].means BY <1>5, <1>6 DEF Outcome
<1>8. written[p].means = o[p] BY <1>4
<1> QED BY <1>2, <1>3, <1>7, <1>8

\* A publication and the respondent's steps keep the types.
LEMMA PublishTypes ==
    ASSUME TypeOK, Publish
    PROVE  TypeOK'
<1>1. Frozen(draft) \in Version BY FrozenType DEF TypeOK
<1>2. versions \in Seq(Version) /\ versions' = Append(versions, Frozen(draft))
  BY DEF TypeOK, Publish
<1>3. versions' \in Seq(Version) BY <1>1, <1>2
<1>4. DOMAIN versions \subseteq DOMAIN versions' BY <1>1, <1>2
<1>5. RespondentType BY DEF TypeOK, RespondentType
<1>6. form' = form /\ answers' = answers BY DEF Publish, respondent
<1>7. RespondentType' BY <1>4, <1>5, <1>6 DEF RespondentType
<1> QED BY <1>3, <1>7 DEF TypeOK, RespondentType, Publish, creator

LEMMA RespondTypes ==
    ASSUME TypeOK, NEW l \in Lang \cup {Written}, NEW u \in Unit, Respond(l, u)
    PROVE  TypeOK'
<1>1. versions \in Seq(Version) /\ versions # <<>> BY DEF TypeOK, Respond
<1>2. Len(versions) \in DOMAIN versions BY <1>1
<1>3. form' = [version |-> Len(versions), lang |-> l, unit |-> u] BY DEF Respond
<1> QED BY <1>2, <1>3 DEF TypeOK, Respond, creator

LEMMA RespondSubmitTypes ==
    ASSUME TypeOK, FormServed, NEW i, RespondSubmit(i)
    PROVE  TypeOK'
<1> DEFINE v == versions[form.version]
           l == form.lang
           u == form.unit
           shown == OptionsShown(v, l, u)
           o == v.asked[u].options
           a == [version |-> form.version, lang |-> l, unit |-> u, chosen |-> shown[i].means,
                 recorded |-> Outcome(shown[i], shown, Worded(o, Written))]
<1>1. form # None /\ form \in [version : DOMAIN versions, lang : Lang \cup {Written}, unit : Unit]
  BY DEF TypeOK, RespondSubmit
<1>2. v \in Version BY <1>1 DEF TypeOK
<1>3. l \in Lang \cup {Written} /\ u \in Asked(v) BY <1>1 DEF FormServed
<1>4. i \in DOMAIN shown /\ answers' = answers \cup {a} /\ form' = None
  BY DEF RespondSubmit, ServedVersion
<1>5. shown \in Seq(Label) /\ o \in OptionSets BY <1>2, <1>3, ShownType
<1>6. shown[i] \in Label BY <1>4, <1>5
<1>7. a.chosen \in Meaning BY <1>6 DEF Label
<1>8. a.recorded \in Meaning \cup {Refused} BY <1>5, OutcomeType
<1>9. a \in [version : DOMAIN versions, lang : Lang \cup {Written}, unit : Unit,
             chosen : Meaning, recorded : Meaning \cup {Refused}]
  BY <1>1, <1>7, <1>8
<1>10. UNCHANGED <<creator, versions>> BY DEF RespondSubmit
<1> HIDE DEF a
<1> QED BY <1>4, <1>9, <1>10 DEF TypeOK, creator

LEMMA LeaveTypes ==
    ASSUME TypeOK, NEW r \in Request, Leave(r)
    PROVE  TypeOK'
BY DEF TypeOK, Leave, respondent

LEMMA InitTypes == Init => TypeOK
<1> SUFFICES ASSUME Init PROVE TypeOK OBVIOUS
<1>1. draft \in Draft BY UntranslatedType DEF Init, Draft
<1>2. 0 \in 0..MaxSaves BY BoundsAssumption
<1> QED BY <1>1, <1>2 DEF Init, TypeOK

-----------------------------------------------------------------------------
(* What a person has read.                                                 *)

\* A save puts into the working copy what it says, and what was posted
\* before stays posted.
LEMMA SaveKeepsRead ==
    ASSUME DraftsRead, NEW r \in Request, loaded' = [loaded EXCEPT ![r] = None],
           read \subseteq read', TranslationsRead(draft)'
    PROVE  DraftsRead'
BY DEF DraftsRead, TranslationsRead

\* A save of questions, or of a language started or dropped, reads nothing new.
LEMMA EditKeepsRead ==
    ASSUME TypeOK, DraftsRead, NEW r \in Request, Edit(r)
    PROVE  DraftsRead'
<1>1. CASE LoadDraft(r) BY <1>1 DEF LoadDraft, DraftsRead, TranslationsRead, TypeOK
<1>2. ASSUME loaded[r] # None, UNCHANGED read, loaded' = [loaded EXCEPT ![r] = None],
             \A l \in Lang, u \in Unit : draft'.in[l][u] \in {None, loaded[r].in[l][u]}
      PROVE  DraftsRead'
  <2>1. TranslationsRead(loaded[r]) BY <1>2 DEF DraftsRead
  <2>2. TranslationsRead(draft)' BY <1>2, <2>1 DEF TranslationsRead
  <2> QED BY <1>2, <2>2, SaveKeepsRead
<1>3. ASSUME NEW u \in Unit, NEW q \in Question \cup {None}, loaded[r] \in Draft, UNCHANGED read,
             SaveDraft(r, [loaded[r] EXCEPT !.asked[u] = q]), loaded[r] # None
      PROVE  DraftsRead'
  <2>1. draft' = [loaded[r] EXCEPT !.asked[u] = q] BY <1>3 DEF SaveDraft
  <2>2. draft'.in = loaded[r].in BY <1>3, <2>1 DEF Draft
  <2> QED BY <1>2, <1>3, <2>2 DEF SaveDraft
<1>4. ASSUME NEW l \in Lang, AddLanguage(r, l) \/ RemoveLanguage(r, l) PROVE DraftsRead'
  <2>1. loaded[r] # None /\ loaded[r] \in Draft /\ UNCHANGED read
        /\ loaded' = [loaded EXCEPT ![r] = None]
    BY <1>4 DEF AddLanguage, RemoveLanguage, SaveDraft, TypeOK
  <2>2. draft'.in = [loaded[r].in EXCEPT ![l] = Untranslated]
    BY <1>4, <2>1 DEF AddLanguage, RemoveLanguage, SaveDraft, Draft
  <2>3. loaded[r].in \in [Lang -> [Unit -> Translation \cup {None}]] BY <2>1 DEF Draft
  <2>4. \A k \in Lang, u \in Unit : draft'.in[k][u] \in {None, loaded[r].in[k][u]}
    BY <2>2, <2>3 DEF Untranslated
  <2> QED BY <1>2, <2>1, <2>4
<1>5. ASSUME NEW u \in Unit, NEW q \in Question, QuestionAdd(r, u, q) \/ QuestionUpdate(r, u, q)
      PROVE  DraftsRead'
  BY <1>3, <1>5 DEF QuestionAdd, QuestionUpdate, TypeOK
<1>6. ASSUME NEW u \in Unit, QuestionDelete(r, u) PROVE DraftsRead'
  BY <1>3, <1>6 DEF QuestionDelete, TypeOK
<1> QED BY <1>1, <1>4, <1>5, <1>6 DEF Edit

\* What the model drafts is not marked as read; what is saved from a page
\* is, and was posted.
LEMMA TranslateKeepsRead ==
    ASSUME TypeOK, DraftsRead, NEW r \in Request, Translate(r)
    PROVE  DraftsRead'
<1>1. ASSUME NEW l \in Lang, NEW done \in SUBSET Unit, LocalizationDraft(r, l, done)
      PROVE  DraftsRead'
  <2>1. loaded[r] # None /\ loaded[r] \in Draft /\ UNCHANGED read
        /\ loaded' = [loaded EXCEPT ![r] = None]
        /\ done \subseteq Asked(loaded[r])
    BY <1>1 DEF LocalizationDraft, SaveDraft, TypeOK, Pending
  <2>2. draft' = [loaded[r] EXCEPT !.in[l] = DraftedIn(loaded[r], l, done)]
    BY <1>1, <2>1 DEF LocalizationDraft, DraftedIn, SaveDraft, Draft
  <2>3. \A k \in Lang, u \in Unit :
           draft'.in[k][u] = IF k = l /\ u \in done THEN Drafted(loaded[r].asked[u])
                                                 ELSE loaded[r].in[k][u]
    BY <2>1, <2>2 DEF DraftedIn, Draft
  <2>4. \A u \in done : ~Drafted(loaded[r].asked[u]).reviewed BY DEF Drafted
  <2>5. TranslationsRead(loaded[r]) BY <2>1 DEF DraftsRead
  <2>6. TranslationsRead(draft)' BY <2>1, <2>3, <2>4, <2>5 DEF TranslationsRead
  <2> QED BY <2>1, <2>6, SaveKeepsRead
<1>2. ASSUME NEW l \in draft.langs,
             NEW entries \in [Unit -> UNION {Fillings(draft, l, u) : u \in Asked(draft)} \cup {None}],
             FillIn(r, l, entries)
      PROVE DraftsRead'
  BY <1>2 DEF FillIn, DraftsRead, TranslationsRead
<1>3. CASE LoadForSave(r) BY <1>3 DEF LoadForSave, DraftsRead, TranslationsRead, TypeOK
<1>4. CASE LocalizationSave(r)
  <2> DEFINE lang == page[r].lang
             entries == page[r].entries
  <2>1. loaded[r] # None /\ page[r] # None /\ loaded[r] \in Draft
        /\ loaded' = [loaded EXCEPT ![r] = None]
    BY <1>4 DEF LocalizationSave, SaveDraft, TypeOK
  <2>2. lang \in Lang /\ \A u \in Posted(r) : loaded[r].asked[u] \in Question /\ entries[u] \in Entry
    BY <2>1, SavedInType
  <2>3. draft' = [loaded[r] EXCEPT !.in[lang] = SavedIn(r)]
    BY <1>4, <2>1, <2>2 DEF LocalizationSave, SavedIn, SaveDraft, Draft
  <2>4. \A k \in Lang, u \in Unit :
           draft'.in[k][u] = IF k = lang /\ u \in Posted(r)
                             THEN Accepted(entries[u], loaded[r].asked[u]) ELSE loaded[r].in[k][u]
    BY <2>1, <2>3 DEF SavedIn, Draft
  <2>5. \A u \in Posted(r) : Accepted(entries[u], loaded[r].asked[u]).words = entries[u].words
    BY <2>2, AcceptedType
  <2>6. read' = read \cup {[lang |-> lang, unit |-> u, words |-> entries[u].words,
                            against |-> entries[u].against] : u \in Posted(r)}
    BY <1>4 DEF LocalizationSave
  <2>7. ASSUME NEW u \in Posted(r)
        PROVE  \E p \in read' : p.lang = lang /\ p.unit = u /\ p.words = entries[u].words
    <3> DEFINE p == [lang |-> lang, unit |-> u, words |-> entries[u].words,
                     against |-> entries[u].against]
    <3>1. p \in read' BY <2>6
    <3> QED BY <3>1
  <2>8. read \subseteq read' BY <2>6
  <2>9. TranslationsRead(loaded[r]) BY <2>1 DEF DraftsRead
  <2>10. ASSUME NEW k \in Lang, NEW u \in Unit,
                draft'.in[k][u] # None, draft'.in[k][u].reviewed
         PROVE  \E p \in read' : p.lang = k /\ p.unit = u /\ p.words = draft'.in[k][u].words
    <3>1. CASE k = lang /\ u \in Posted(r) BY <2>4, <2>5, <2>7, <3>1
    <3>2. CASE ~(k = lang /\ u \in Posted(r))
      <4>1. draft'.in[k][u] = loaded[r].in[k][u] BY <2>4, <3>2
      <4> QED BY <2>8, <2>9, <2>10, <4>1 DEF TranslationsRead
    <3> QED BY <3>1, <3>2
  <2>11. TranslationsRead(draft)' BY <2>10 DEF TranslationsRead
  <2> QED BY <2>1, <2>8, <2>11, SaveKeepsRead
<1> QED BY <1>1, <1>2, <1>3, <1>4 DEF Translate

-----------------------------------------------------------------------------
(* What is published and what is recorded.                                 *)

\* Where every translation is read, what is ready to publish freezes words
\* a person posted, and all of a language or nothing of it.
LEMMA FrozenRead ==
    ASSUME NEW d \in Draft, ReadyToPublish(d), TranslationsRead(d),
           NEW l \in Lang
    PROVE  /\ \A u \in Unit : Frozen(d).in[l][u] # None =>
                 \E p \in read : p.lang = l /\ p.unit = u /\ p.words = Frozen(d).in[l][u].words
           /\ l \in VersionLanguages(Frozen(d)) =>
                 \A u \in Asked(Frozen(d)) : Frozen(d).in[l][u] # None
<1>1. \A u \in Unit : Frozen(d).in[l][u] # None <=>
                      l \in d.langs /\ u \in Asked(d) /\ d.in[l][u] # None
  BY FrozenType
<1>2. l \in d.langs => \A u \in Asked(d) : d.in[l][u] # None /\ d.in[l][u].reviewed
  BY DEF ReadyToPublish, Pending
<1>3. ASSUME NEW u \in Unit, Frozen(d).in[l][u] # None
      PROVE  \E p \in read : p.lang = l /\ p.unit = u /\ p.words = Frozen(d).in[l][u].words
  <2>1. d.in[l][u] # None /\ d.in[l][u].reviewed BY <1>1, <1>2, <1>3
  <2>2. Frozen(d).in[l][u].words = d.in[l][u].words BY <1>3, FrozenType
  <2> QED BY <2>1, <2>2 DEF TranslationsRead
<1>4. Asked(Frozen(d)) = Asked(d) /\ Asked(d) \subseteq Unit BY FrozenType DEF Asked
<1>5. ASSUME l \in VersionLanguages(Frozen(d)), NEW u \in Asked(Frozen(d))
      PROVE  Frozen(d).in[l][u] # None
  BY <1>1, <1>2, <1>4, <1>5 DEF VersionLanguages
<1> QED BY <1>3, <1>5

LEMMA PublishKeeps ==
    ASSUME Inv, Publish
    PROVE  NothingUnreadGoesOut' /\ LanguagesComplete' /\ FormServed' /\ RecordedAsChosen'
<1> DEFINE new == Frozen(draft)
<1>1. draft \in Draft /\ TranslationsRead(draft) /\ ReadyToPublish(draft) /\ versions \in Seq(Version)
  BY DEF Inv, TypeOK, DraftsRead, Publish
<1>2. new \in Version BY <1>1, FrozenType
<1>3. versions' = Append(versions, new) /\ UNCHANGED <<read, form, answers>>
  BY DEF Publish, creator, respondent
<1> HIDE DEF new
<1>4. /\ DOMAIN versions' = 1..(Len(versions) + 1)
      /\ DOMAIN versions = 1..Len(versions)
      /\ Len(versions) \in Nat
      /\ \A i \in DOMAIN versions : i \in DOMAIN versions' /\ versions'[i] = versions[i]
      /\ versions'[Len(versions) + 1] = new
  BY <1>1, <1>2, <1>3
<1>5. \A i \in DOMAIN versions' : i \in DOMAIN versions \/ versions'[i] = new BY <1>4
<1>6. \A i \in DOMAIN versions' : versions'[i] = new \/ \E j \in DOMAIN versions : versions'[i] = versions[j]
  BY <1>4, <1>5
<1>7. NothingUnreadGoesOut'
  <2>1. \A l \in Lang, u \in Unit : \A i \in DOMAIN versions : versions[i].in[l][u] # None =>
           \E p \in read : p.lang = l /\ p.unit = u /\ p.words = versions[i].in[l][u].words
    BY DEF Inv, NothingUnreadGoesOut, Published
  <2>2. \A l \in Lang, u \in Unit : new.in[l][u] # None =>
           \E p \in read : p.lang = l /\ p.unit = u /\ p.words = new.in[l][u].words
    BY <1>1, FrozenRead DEF new
  <2>3. \A l \in Lang, u \in Unit : \A i \in DOMAIN versions' : versions'[i].in[l][u] # None =>
           \E p \in read' : p.lang = l /\ p.unit = u /\ p.words = versions'[i].in[l][u].words
    BY <1>3, <1>6, <2>1, <2>2
  <2> QED BY <2>3 DEF NothingUnreadGoesOut, Published
<1>8. LanguagesComplete'
  <2>1. \A l \in VersionLanguages(new) : \A u \in Asked(new) : new.in[l][u] # None
    BY <1>1, FrozenRead DEF new, VersionLanguages
  <2>2. \A j \in DOMAIN versions : \A l \in VersionLanguages(versions[j]) :
           \A u \in Asked(versions[j]) : versions[j].in[l][u] # None
    BY DEF Inv, LanguagesComplete
  <2>3. \A i \in DOMAIN versions' : \A l \in VersionLanguages(versions'[i]) :
           \A u \in Asked(versions'[i]) : versions'[i].in[l][u] # None
    BY <1>6, <2>1, <2>2
  <2> QED BY <2>3 DEF LanguagesComplete, VersionLanguages, Asked
<1>9. FormServed'
  <2>1. form # None => form.version \in DOMAIN versions BY DEF Inv, TypeOK
  <2>2. form # None => versions'[form.version] = versions[form.version] BY <1>4, <2>1
  <2>3. form # None => form.unit \in Asked(versions[form.version]) BY DEF Inv, FormServed
  <2> QED BY <1>3, <2>2, <2>3 DEF FormServed, Asked
<1>10. RecordedAsChosen'
  <2>1. \A a \in answers : a.version \in DOMAIN versions BY DEF Inv, TypeOK
  <2>2. \A a \in answers : versions'[a.version] = versions[a.version] BY <1>4, <2>1
  <2>3. \A a \in answers : InOrder(versions[a.version], a.lang, a.unit) => a.recorded = a.chosen
    BY DEF Inv, RecordedAsChosen
  <2>4. \A a \in answers' : InOrder(versions'[a.version], a.lang, a.unit) => a.recorded = a.chosen
    BY <1>3, <2>2, <2>3
  <2> QED BY <2>4 DEF RecordedAsChosen, InOrder
<1> QED BY <1>7, <1>8, <1>9, <1>10

LEMMA RespondSubmitKeeps ==
    ASSUME Inv, NEW i, RespondSubmit(i)
    PROVE  RecordedAsChosen'
<1> DEFINE v == versions[form.version]
           l == form.lang
           u == form.unit
           shown == OptionsShown(v, l, u)
           o == v.asked[u].options
           a == [version |-> form.version, lang |-> l, unit |-> u, chosen |-> shown[i].means,
                 recorded |-> Outcome(shown[i], shown, Worded(o, Written))]
<1>1. form # None /\ form \in [version : DOMAIN versions, lang : Lang \cup {Written}, unit : Unit]
  BY DEF Inv, TypeOK, RespondSubmit
<1>2. v \in Version BY <1>1 DEF Inv, TypeOK
<1>3. l \in Lang \cup {Written} /\ u \in Asked(v) BY <1>1 DEF Inv, FormServed
<1>4. i \in DOMAIN shown /\ answers' = answers \cup {a} /\ UNCHANGED versions
  BY DEF RespondSubmit, ServedVersion
<1>5. shown \in Seq(Label) /\ o \in OptionSets BY <1>2, <1>3, ShownType
<1>6. InOrder(v, l, u) => a.recorded = a.chosen
  <2> SUFFICES ASSUME InOrder(v, l, u) PROVE a.recorded = a.chosen OBVIOUS
  <2>1. Len(shown) = Len(o) /\ \A j \in 1..Len(o) : shown[j].means = o[j]
    BY <1>2, <1>3, ShownType
  <2>2. Outcome(shown[i], shown, Worded(o, Written)) = shown[i].means
    BY <1>4, <1>5, <2>1, OutcomeKept
  <2> QED BY <2>2
<1>7. a.version = form.version /\ a.lang = l /\ a.unit = u OBVIOUS
<1>8. InOrder(versions[a.version], a.lang, a.unit) => a.recorded = a.chosen BY <1>6, <1>7
<1> HIDE DEF a
<1>9. \A b \in answers' : InOrder(versions[b.version], b.lang, b.unit) => b.recorded = b.chosen
  BY <1>4, <1>8 DEF Inv, RecordedAsChosen
<1> QED BY <1>4, <1>9 DEF RecordedAsChosen, InOrder

\* What a window does leaves versions, form and answers as they are, and
\* what was posted stays posted.
LEMMA WindowLeaves ==
    ASSUME NEW r \in Request, Edit(r) \/ Translate(r) \/ Leave(r)
    PROVE  UNCHANGED <<versions, form, answers>> /\ read \subseteq read'
BY DEF Edit, Translate, Leave, LoadDraft, QuestionAdd, QuestionUpdate, QuestionDelete, AddLanguage,
       RemoveLanguage, LocalizationDraft, FillIn, LoadForSave, LocalizationSave, SaveDraft, respondent

LEMMA WindowKeeps ==
    ASSUME Inv, UNCHANGED <<versions, form, answers>>, read \subseteq read'
    PROVE  NothingUnreadGoesOut' /\ LanguagesComplete' /\ FormServed' /\ RecordedAsChosen'
<1>1. NothingUnreadGoesOut' BY DEF Inv, NothingUnreadGoesOut, Published
<1>2. LanguagesComplete' BY DEF Inv, LanguagesComplete, VersionLanguages, Asked
<1>3. FormServed' BY DEF Inv, FormServed, Asked
<1>4. RecordedAsChosen' BY DEF Inv, RecordedAsChosen, InOrder
<1> QED BY <1>1, <1>2, <1>3, <1>4

LEMMA InvInductive == Inv /\ [Next]_vars => Inv'
<1> SUFFICES ASSUME Inv, [Next]_vars PROVE Inv' OBVIOUS
<1>1. TypeOK /\ DraftsRead /\ FormServed BY DEF Inv
<1>2. ASSUME NEW r \in Request, Edit(r) \/ Translate(r) \/ Leave(r) PROVE Inv'
  <2>1. TypeOK' BY <1>1, <1>2, EditTypes, TranslateTypes, LeaveTypes
  <2>2. Leave(r) => DraftsRead' BY <1>1 DEF Leave, DraftsRead, TranslationsRead, TypeOK
  <2>3. DraftsRead' BY <1>1, <1>2, <2>2, EditKeepsRead, TranslateKeepsRead
  <2> QED BY <1>2, <2>1, <2>3, WindowLeaves, WindowKeeps DEF Inv
<1>3. ASSUME UNCHANGED <<draft, loaded, read>> PROVE DraftsRead'
  BY <1>1, <1>3 DEF DraftsRead, TranslationsRead
<1>4. CASE Publish
  BY <1>1, <1>3, <1>4, PublishTypes, PublishKeeps DEF Inv, Publish, creator
<1>5. ASSUME NEW l \in Lang \cup {Written}, NEW u \in Unit, Respond(l, u) PROVE Inv'
  <2>1. TypeOK' BY <1>1, <1>5, RespondTypes
  <2>2. UNCHANGED <<draft, loaded, read, versions, answers>> BY <1>5 DEF Respond, creator
  <2>3. NothingUnreadGoesOut' /\ LanguagesComplete' /\ RecordedAsChosen'
    BY <2>2 DEF Inv, NothingUnreadGoesOut, Published, LanguagesComplete, VersionLanguages, Asked,
                RecordedAsChosen, InOrder
  <2>4. FormServed' BY <1>5, <2>2 DEF Respond, FormServed, Asked
  <2> QED BY <1>3, <2>1, <2>2, <2>3, <2>4 DEF Inv
<1>6. ASSUME NEW i, RespondSubmit(i) PROVE Inv'
  <2>1. TypeOK' BY <1>1, <1>6, RespondSubmitTypes
  <2>2. UNCHANGED <<draft, loaded, read, versions>> /\ form' = None
    BY <1>6 DEF RespondSubmit, creator
  <2>3. NothingUnreadGoesOut' /\ LanguagesComplete' /\ FormServed'
    BY <2>2 DEF Inv, NothingUnreadGoesOut, Published, LanguagesComplete, VersionLanguages, Asked,
                FormServed
  <2> QED BY <1>3, <1>6, <2>1, <2>2, <2>3, RespondSubmitKeeps DEF Inv
<1>7. CASE UNCHANGED vars
  <2>1. TypeOK' BY <1>1, <1>7 DEF vars, TypeOK
  <2>2. UNCHANGED <<draft, loaded, read, versions, form, answers>> BY <1>7 DEF vars
  <2> QED BY <1>3, <2>1, <2>2, WindowKeeps DEF Inv
<1> QED BY <1>2, <1>4, <1>5, <1>6, <1>7 DEF Next

LEMMA InitInv == Init => Inv
<1> SUFFICES ASSUME Init PROVE Inv OBVIOUS
<1>1. TypeOK BY InitTypes
<1>2. DraftsRead BY DEF Init, DraftsRead, TranslationsRead, Untranslated
<1>3. versions = <<>> /\ form = None /\ answers = {} BY DEF Init
<1>4. NothingUnreadGoesOut /\ LanguagesComplete
  BY <1>3 DEF NothingUnreadGoesOut, LanguagesComplete, Published
<1>5. FormServed /\ RecordedAsChosen BY <1>3 DEF FormServed, RecordedAsChosen
<1> QED BY <1>1, <1>2, <1>4, <1>5 DEF Inv

LEMMA InvHolds == Spec => []Inv
BY InitInv, InvInductive, PTL DEF Spec

-----------------------------------------------------------------------------

\* Every reachable state of the languages of a survey is of the declared
\* types: a draft saved from any window is a draft, a version a version.
THEOREM LocalizationTypes == Spec => []TypeOK
<1>1. Inv => TypeOK BY DEF Inv
<1> QED BY <1>1, InvHolds, PTL

\* Whatever windows, drafted translations and stale saves come between, what
\* a version says in a language is what a person posted for that question in
\* that language (Publish, ReadyToPublish, localizationSave).
THEOREM OnlyReadGoesOut == Spec => []NothingUnreadGoesOut
<1>1. Inv => NothingUnreadGoesOut BY DEF Inv
<1> QED BY <1>1, InvHolds, PTL

\* A language that a version offers covers all the version asks
\* (VersionLanguages, Pending, publishResolved).
THEOREM LanguagesOfferedWhole == Spec => []LanguagesComplete
<1>1. Inv => LanguagesComplete BY DEF Inv
<1> QED BY <1>1, InvHolds, PTL

\* A choice made in any language is recorded as what it stands for, of the
\* version its form showed, wherever that version's translated options are
\* in order (applyLanguage, canonicalAnswers, respondSubmit).
THEOREM ChoicesKeepTheirMeaning == Spec => []RecordedAsChosen
<1>1. Inv => RecordedAsChosen BY DEF Inv
<1> QED BY <1>1, InvHolds, PTL
=============================================================================
