----------------------------- MODULE Onboarding ------------------------------
(***************************************************************************)
(* The first-run wizard (onboarding/page.tsx) over what the API keeps of it *)
(* (onboardingService.ts) and of the models (modelPreferenceService.ts).    *)
(*                                                                         *)
(* The steps are moved between without waiting for the call that stores     *)
(* them; loading, connecting and saving go on meanwhile, and a load that    *)
(* ends takes the wizard to the step it read.  Models stand for their       *)
(* providers, one each, and are the numbers of their priorities.  The user  *)
(* reloads the page when its calls are over.  StoreStepOnce is a mistake    *)
(* for mutation tests (see README.md).                                      *)
(***************************************************************************)
EXTENDS Naturals, FiniteSets, FiniteSetsExt

CONSTANTS Models,
          NamedSteps,  \* bound: the steps that are chosen by name; Continue leads to the others
          MaxWizardCalls, AtOnce, MaxOutside  \* bounds

StepIds == 1..7

ASSUME WizardAssumption ==
    /\ Models \subseteq Nat \ {0} /\ Models # {} /\ IsFiniteSet(Models)
    /\ NamedSteps \subseteq StepIds

Welcome == 1
ConnectProvider == 2
ChooseModel == 3
CreateApiKey == 4
TestEndpoint == 5
Backup == 6
Finish == 7
NoStep == 0    \* lastStep is null
Skipped == 8   \* "skipped" and "done" are not steps of the page
Done == 9

VARIABLES
    lastStep, completedAt, skippedAt,  \* UserSettings
    enabledPrefs, defaultPrefs,        \* UserModelPreference, when there are rows
    hasPrefs,
    savedOver,                         \* history: see SavesOver
    connected, usable,                 \* providers
    activeKeys, hasUsage,
    outside,                           \* changes made elsewhere
    standing, isLoading, currentStep, busy,  \* the page; standing is of its status
    shownModels, rawKey,
    wizardCalls, wizardMade,
    chosen,                            \* history: the step chosen last
    crossed                            \* history: calls about the step that crossed or failed

settings == <<lastStep, completedAt, skippedAt>>
modelVars == <<enabledPrefs, defaultPrefs, hasPrefs, savedOver>>
worldVars == <<connected, usable, hasUsage, outside>>
serverVars == <<settings, modelVars, worldVars, activeKeys>>
stepVars == <<currentStep, chosen, crossed>>
copyVars == <<standing, isLoading, shownModels, rawKey>>
pageVars == <<stepVars, copyVars, busy, wizardMade>>
onboardingVars == <<serverVars, stepVars, copyVars, busy, wizardCalls, wizardMade>>

-----------------------------------------------------------------------------
(* What the API tells                                                       *)

\* Without a default one is picked: the first that is usable and enabled, the
\* first enabled, or the first.
PickDefault(enabled) ==
    LET usableOnes == enabled \cap usable
    IN {Min(IF usableOnes # {} THEN usableOnes ELSE IF enabled # {} THEN enabled ELSE Models)}

EnabledModels == IF hasPrefs THEN enabledPrefs ELSE Models
DefaultModels ==
    IF hasPrefs /\ defaultPrefs # {} THEN defaultPrefs ELSE PickDefault(EnabledModels)
ModelPreferences == [enabled |-> EnabledModels, default |-> DefaultModels, usable |-> usable]
NoModels == [enabled |-> {}, default |-> {}, usable |-> {}]

RecommendedNextStep ==
    IF connected = {} \/ EnabledModels \cap usable = {} THEN ConnectProvider
    ELSE IF EnabledModels \cap DefaultModels = {} THEN ChooseModel
    ELSE IF activeKeys = {} THEN CreateApiKey
    ELSE IF ~hasUsage THEN TestEndpoint
    ELSE Backup
OnboardingStatus ==
    [lastStep |-> lastStep, recommended |-> IF completedAt THEN Done ELSE RecommendedNextStep]

\* setCurrentStep of loadAll
Resume(state) ==
    IF state.lastStep \in StepIds THEN state.lastStep
    ELSE IF state.recommended = Done THEN Finish
    ELSE state.recommended

-----------------------------------------------------------------------------

NotBusy == [does |-> "nothing", on |-> 0]
WizardCall(does, on, models) ==
    [n |-> wizardMade + 1, does |-> does, on |-> on, models |-> models, stage |-> "sent",
     completed |-> FALSE, state |-> [lastStep |-> NoStep, recommended |-> Done],
     read |-> NoModels, scope |-> {}]
Moving == {"step", "skip", "complete"}
PendingOf(does) == {c \in wizardCalls : c.does \in does}

OnboardingInit ==
    /\ lastStep = NoStep /\ completedAt = FALSE /\ skippedAt = FALSE
    /\ enabledPrefs = {} /\ defaultPrefs = {} /\ hasPrefs = FALSE /\ savedOver = {}
    /\ connected = {} /\ usable = {} /\ activeKeys = {} /\ hasUsage = FALSE /\ outside = 0
    /\ standing = "none" /\ isLoading = TRUE /\ currentStep = Welcome /\ busy = NotBusy
    /\ shownModels = NoModels /\ rawKey = {}
    /\ wizardCalls = {} /\ wizardMade = 0
    /\ chosen = NoStep /\ crossed = FALSE

Places(call) ==
    /\ Cardinality(wizardCalls) < AtOnce
    /\ wizardMade < MaxWizardCalls /\ wizardMade' = wizardMade + 1
    /\ wizardCalls' = wizardCalls \cup {call}

\* The page opens, or is opened again.
OpenWizard ==
    /\ wizardCalls = {} /\ Places(WizardCall("load", 0, NoModels))
    /\ standing' = "none" /\ isLoading' = TRUE /\ currentStep' = Welcome /\ busy' = NotBusy
    /\ shownModels' = NoModels /\ rawKey' = {}
    /\ UNCHANGED <<serverVars, chosen, crossed>>

\* A list is stored that these calls, if they stored one, have yet to read back.
SavesOver(others) ==
    savedOver' = savedOver \cup {c.n : c \in {d \in others : d.does = "model" /\ d.stage = "stored"}}

\* A login that ends, a check of the health, a completion, or the models page in
\* another tab, where the default can be disabled and is then none.
Elsewhere ==
    /\ outside < MaxOutside /\ outside' = outside + 1
    /\ \/ /\ \E m \in Models : connected' = connected \cup {m} /\ usable' = usable \cup {m}
          /\ UNCHANGED <<modelVars, hasUsage>>
       \/ /\ \E m \in usable : usable' = usable \ {m}
          /\ UNCHANGED <<modelVars, connected, hasUsage>>
       \/ /\ activeKeys # {} /\ hasUsage' = TRUE
          /\ UNCHANGED <<modelVars, connected, usable>>
       \/ /\ enabledPrefs' \in SUBSET Models
          /\ defaultPrefs' \in {{}} \cup {{m} : m \in Models}
          /\ hasPrefs' = TRUE /\ SavesOver(wizardCalls)
          /\ UNCHANGED <<connected, usable, hasUsage>>
    /\ UNCHANGED <<settings, activeKeys, stepVars, copyVars, busy, wizardCalls, wizardMade>>

-----------------------------------------------------------------------------
(* The handlers of the page                                                 *)

Crosses == crossed \/ PendingOf(Moving \cup {"load", "connect"}) # {}

\* The steps are shown but while the page loads; their names can always be chosen.
Visible == standing # "none" /\ ~isLoading

\* goToStep
GoToStep(s) ==
    /\ Places(WizardCall("step", s, NoModels))
    /\ currentStep' = s /\ chosen' = s /\ crossed' = Crosses
    /\ UNCHANGED <<serverVars, copyVars, busy>>

NextStep == Visible /\ currentStep # Finish /\ GoToStep(currentStep + 1)

HandleSkip ==
    /\ busy.does # "skip" /\ Places(WizardCall("skip", 0, NoModels))
    /\ busy' = [does |-> "skip", on |-> 0] /\ crossed' = Crosses
    /\ UNCHANGED <<serverVars, copyVars, currentStep, chosen>>

HandleComplete ==
    /\ Visible /\ standing = "open" /\ currentStep = Finish /\ busy.does # "complete"
    /\ Places(WizardCall("complete", 0, NoModels))
    /\ busy' = [does |-> "complete", on |-> 0] /\ crossed' = Crosses
    /\ UNCHANGED <<serverVars, copyVars, currentStep, chosen>>

\* Every handler but goToStep sets busy, and so enables the others' buttons.
HandleConnect(m) ==
    /\ Visible /\ currentStep = ConnectProvider /\ busy # [does |-> "connect", on |-> m]
    /\ Places(WizardCall("connect", m, NoModels)) /\ busy' = [does |-> "connect", on |-> m]
    /\ crossed' = Crosses
    /\ UNCHANGED <<serverVars, copyVars, currentStep, chosen>>

HandleValidate(m) ==
    /\ Visible /\ currentStep = ConnectProvider /\ m \in connected
    /\ busy # [does |-> "validate", on |-> m]
    /\ Places(WizardCall("validate", m, NoModels)) /\ busy' = [does |-> "validate", on |-> m]
    /\ UNCHANGED <<serverVars, copyVars, stepVars>>

\* handleDefaultModel sends the list as it is shown, and the choice.
ChooseDefault(m) == [enabled |-> shownModels.enabled \cup {m}, default |-> {m}]
HandleDefaultModel(m) ==
    /\ Visible /\ currentStep = ChooseModel /\ shownModels # NoModels /\ busy.does # "model"
    /\ Places(WizardCall("model", m, ChooseDefault(m))) /\ busy' = [does |-> "model", on |-> 0]
    /\ UNCHANGED <<serverVars, copyVars, stepVars>>

\* The key is for the default as it is shown, else for a usable model, else for all.
KeyScope ==
    IF shownModels.default # {} THEN {Min(shownModels.default)}
    ELSE IF shownModels.usable # {} THEN {Min(shownModels.usable)} ELSE {}
HandleCreateApiKey ==
    /\ Visible /\ currentStep = CreateApiKey /\ busy.does # "key"
    /\ Places([WizardCall("key", 0, NoModels) EXCEPT !.scope = KeyScope])
    /\ busy' = [does |-> "key", on |-> 0]
    /\ UNCHANGED <<serverVars, copyVars, stepVars>>

HideKey ==
    /\ Visible /\ currentStep = CreateApiKey /\ rawKey # {} /\ rawKey' = {}
    /\ UNCHANGED <<serverVars, stepVars, standing, isLoading, shownModels, busy, wizardCalls, wizardMade>>

\* Listing the models with the key is no use of it.
HandleTestModels ==
    /\ Visible /\ currentStep = TestEndpoint /\ rawKey # {} /\ busy.does # "test"
    /\ Places(WizardCall("test", 0, NoModels)) /\ busy' = [does |-> "test", on |-> 0]
    /\ UNCHANGED <<serverVars, copyVars, stepVars>>

-----------------------------------------------------------------------------
(* The API                                                                  *)

\* Every answer brings the status along, or is followed by it.
Turns(c, stage, completed) ==
    wizardCalls' = (wizardCalls \ {c}) \cup {[c EXCEPT !.stage = stage, !.completed = completed]}

\* updateOnboardingStatus, markOnboardingComplete, skipOnboarding
StoreStepOnce(c) ==
    /\ c.does = "step" /\ c.stage = "sent" /\ Turns(c, "done", completedAt)
    /\ lastStep' = IF lastStep = NoStep THEN c.on ELSE lastStep
    /\ UNCHANGED <<completedAt, skippedAt, modelVars, worldVars, activeKeys, pageVars>>
StoreStep(c) ==
    /\ c.does = "step" /\ c.stage = "sent" /\ Turns(c, "done", completedAt)
    /\ lastStep' = c.on
    /\ UNCHANGED <<completedAt, skippedAt, modelVars, worldVars, activeKeys, pageVars>>

MarkOnboardingComplete(c) ==
    /\ c.does = "complete" /\ c.stage = "sent" /\ Turns(c, "done", TRUE)
    /\ completedAt' = TRUE /\ lastStep' = Done
    /\ UNCHANGED <<skippedAt, modelVars, worldVars, activeKeys, pageVars>>

SkipOnboarding(c) ==
    /\ c.does = "skip" /\ c.stage = "sent" /\ Turns(c, "done", completedAt)
    /\ skippedAt' = TRUE /\ lastStep' = Skipped
    /\ UNCHANGED <<completedAt, modelVars, worldVars, activeKeys, pageVars>>

\* updateModelPreferences: one transaction over the whole list, and then a read of it.
SavePreferences(c) ==
    /\ c.does = "model" /\ c.stage = "sent"
    /\ enabledPrefs' = c.models.enabled /\ defaultPrefs' = c.models.default /\ hasPrefs' = TRUE
    /\ SavesOver(wizardCalls \ {c})
    /\ wizardCalls' = (wizardCalls \ {c}) \cup {[c EXCEPT !.stage = "stored"]}
    /\ UNCHANGED <<settings, worldVars, activeKeys, pageVars>>
AnswerPreferences(c) ==
    /\ c.does = "model" /\ c.stage = "stored"
    /\ wizardCalls' = (wizardCalls \ {c}) \cup
          {[c EXCEPT !.stage = "done", !.completed = completedAt, !.read = ModelPreferences]}
    /\ UNCHANGED <<serverVars, pageVars>>

CreateKeyFor(c) ==
    /\ c.does = "key" /\ c.stage = "sent" /\ Turns(c, "done", completedAt)
    /\ activeKeys' = activeKeys \cup {c.n}
    /\ UNCHANGED <<settings, modelVars, worldVars, pageVars>>

\* A check finds the provider usable or not; the login opens, or the key is tried.
OtherCall(c) ==
    /\ c.does \in {"connect", "validate", "test"} /\ c.stage = "sent"
    /\ Turns(c, IF c.does = "connect" THEN "reload" ELSE "done", completedAt)
    /\ isLoading' = (isLoading \/ c.does = "connect")
    /\ usable' \in IF c.does = "validate" THEN {usable \cup {c.on}, usable \ {c.on}} ELSE {usable}
    /\ UNCHANGED <<settings, modelVars, connected, hasUsage, outside, activeKeys, stepVars, standing, shownModels,
                   rawKey, busy, wizardMade>>

\* loadAll asks for the status and for the models in calls of their own.
Reading(c) ==
    /\ c.stage \in {IF c.does = "load" THEN "sent" ELSE "reload", "statusRead", "modelsRead"}
    /\ c.does \in {"load", "connect"}
ReadStatus(c) ==
    /\ Reading(c) /\ c.stage # "statusRead"
    /\ wizardCalls' = (wizardCalls \ {c}) \cup
          {[c EXCEPT !.state = OnboardingStatus, !.completed = completedAt,
                     !.stage = IF @ = "modelsRead" THEN "done" ELSE "statusRead"]}
    /\ UNCHANGED <<serverVars, pageVars>>
ReadModels(c) ==
    /\ Reading(c) /\ c.stage # "modelsRead"
    /\ wizardCalls' = (wizardCalls \ {c}) \cup
          {[c EXCEPT !.read = ModelPreferences, !.stage = IF @ = "statusRead" THEN "done" ELSE "modelsRead"]}
    /\ UNCHANGED <<serverVars, pageVars>>

-----------------------------------------------------------------------------
(* The answers                                                              *)

Free(c) == IF c.does \in {"load", "step"} THEN busy ELSE NotBusy

\* A load, or the one of a connection, is over.
Loads(c) == c.does = "load" \/ (c.does = "connect" /\ c.stage # "sent")

\* setStatus is there in every answer.
Returned(c) ==
    /\ c.stage = "done" /\ wizardCalls' = wizardCalls \ {c}
    /\ standing' = (IF c.completed THEN "completed" ELSE "open")
    /\ isLoading' = (isLoading /\ ~Loads(c)) /\ busy' = Free(c)
    /\ currentStep' = CASE c.does \in {"load", "connect"} -> Resume(c.state)
                 [] c.does \in {"skip", "complete"} -> Finish
                 [] OTHER -> currentStep
    /\ shownModels' = IF c.does \in {"load", "connect", "model"} THEN c.read ELSE shownModels
    /\ rawKey' = IF c.does = "key" THEN {c.n} ELSE rawKey
    /\ UNCHANGED <<serverVars, chosen, crossed, wizardMade>>

\* A call fails or its answer is lost; goToStep does not go back.
WizardCallFailed(c) ==
    /\ wizardCalls' = wizardCalls \ {c}
    /\ busy' = Free(c)
    /\ crossed' = (crossed \/ c.does \in Moving)
    /\ isLoading' = (isLoading /\ ~Loads(c))
    /\ UNCHANGED <<serverVars, standing, shownModels, rawKey, currentStep, chosen, wizardMade>>

OnboardingNext ==
    \/ OpenWizard
    \/ Elsewhere
    \/ \E s \in NamedSteps : GoToStep(s)
    \/ NextStep
    \/ HandleSkip \/ HandleComplete
    \/ \E m \in Models : HandleConnect(m) \/ HandleValidate(m) \/ HandleDefaultModel(m)
    \/ HandleCreateApiKey \/ HideKey \/ HandleTestModels
    \/ \E c \in wizardCalls :
          \/ StoreStep(c) \/ MarkOnboardingComplete(c) \/ SkipOnboarding(c)
          \/ SavePreferences(c) \/ AnswerPreferences(c) \/ CreateKeyFor(c) \/ OtherCall(c)
          \/ ReadStatus(c) \/ ReadModels(c)
          \/ Returned(c) \/ WizardCallFailed(c)

OnboardingSpec == OnboardingInit /\ [][OnboardingNext]_onboardingVars

-----------------------------------------------------------------------------

OnboardingTypeOK ==
    /\ standing \in {"none", "open", "completed"} /\ {isLoading, crossed} \subseteq BOOLEAN
    /\ lastStep \in {NoStep, Skipped, Done} \cup StepIds /\ currentStep \in StepIds
    /\ enabledPrefs \subseteq Models /\ usable \subseteq connected /\ connected \subseteq Models
    /\ chosen \in StepIds \cup {NoStep}

(* A wizard at rest is where it would be after a reload: at the step chosen *)
(* last or at the end once completed, unless calls about the step crossed   *)
(* or failed, or it was skipped.  However saves from a wizard with an old   *)
(* list and from the models page cross, and though that page may store no   *)
(* default, exactly one model is the default, and so in the list a save of  *)
(* the wizard answers with; which is the chosen one, and enabled, unless    *)
(* another save came between this one and its reading back.                 *)
WizardResumes ==
    /\ wizardCalls = {} /\ Visible /\ ~crossed /\ lastStep \notin {NoStep, Skipped} =>
        /\ currentStep = Resume(OnboardingStatus)
        /\ lastStep \in StepIds => currentStep = chosen
    /\ Cardinality(DefaultModels) = 1
    /\ \A c \in wizardCalls : c.does = "model" /\ c.stage = "done" =>
          /\ Cardinality(c.read.default) = 1
          /\ c.n \in savedOver \/ c.on \in c.read.enabled \cap c.read.default
=============================================================================
