------------------------------ MODULE AiFields ------------------------------
(***************************************************************************)
(* The AI fields of the recommendation preferences: a primary and a backup *)
(* configuration with an endpoint that an administrator approved, a key    *)
(* that is only ever written, and texts; and the number of retries.        *)
(*                                                                         *)
(* Module Settings has the draft's life in the dialog and the requests     *)
(* around it; here is what becomes of these fields while the approved      *)
(* endpoints change under the form.  One text stands for model and prompt. *)
(***************************************************************************)
EXTENDS Integers, FiniteSets, Page

CONSTANTS
    Endpoints,    \* base URLs that may be approved
    MaxTries,     \* the retries the form allows
    Attempts,     \* numbers the reader enters as retries
    Default,      \* DEFAULT_AI_ENDPOINT_VALUE, the empty base URL
    MaxAiSteps    \* bound on edits, changes of the approved endpoints and failures

ASSUME AiConstants ==
    /\ None \notin Endpoints \union {Default} /\ Default \notin Endpoints
    /\ MaxTries \in Nat \ {0} /\ Attempts \subseteq Int /\ MaxAiSteps \in Nat

VARIABLES
    aiApproved,  \* the endpoints the server allows
    aiStored,    \* of each configuration its base URL, text, and whether it has a key; retries
    aiCache,     \* the preferences as last read, or None
    aiList,      \* the endpoints query: what it has, or None, and whether it succeeded last
    aiDraft,     \* the draft of these fields, or None
    aiSave,      \* the save under way: what was sent, and what became of it
    aiSpent

aiVars == <<aiApproved, aiStored, aiCache, aiList, aiDraft, aiSave, aiSpent>>

Roles == {"primary", "backup"}
AiStep == aiSpent < MaxAiSteps /\ aiSpent' = aiSpent + 1

\* The draft leaves keys as they are until one is entered or cleared.
Redacted(stored) ==
    [roles |-> [r \in Roles |-> [url |-> stored.roles[r].url, text |-> stored.roles[r].text, key |-> "keep"]],
     tries |-> stored.tries]
AiForm == IF aiDraft # None THEN aiDraft ELSE Redacted(aiCache)
CanEditAi == aiCache # None /\ aiSave = None
Selectable == IF aiList.data = None THEN {} ELSE aiList.data

\* EndpointSelect: what is not among the endpoints shows as the default.
ShownEndpoint(r) == IF AiForm.roles[r].url \in Selectable THEN AiForm.roles[r].url ELSE Default

\* saveSettingsMut: an endpoint that is not approved is given up, if the
\* list says so for sure.
SentEndpoint(r) ==
    LET url == AiForm.roles[r].url IN IF aiList.ok /\ url \notin Selectable THEN Default ELSE url

\* Seeded fault: only the lower end of the range is kept.
AtLeastOnce(n) == IF n < 1 THEN 1 ELSE n

\* Math.max(1, Math.min(10, ...))
Clamped(n) == IF n < 1 THEN 1 ELSE IF n > MaxTries THEN MaxTries ELSE n

AiKeeps(draft) ==
    /\ AiStep /\ CanEditAi /\ draft # AiForm
    /\ aiDraft' = draft
    /\ UNCHANGED <<aiApproved, aiStored, aiCache, aiList, aiSave>>

\* The picker is disabled until the endpoints are read, and by a failure.
ChooseEndpoint(r, e) ==
    /\ CanEditAi /\ aiList.ok /\ e \in Selectable \union {Default}
    /\ AiKeeps([AiForm EXCEPT !.roles[r].url = e])

EditAiText(r, text) == CanEditAi /\ AiKeeps([AiForm EXCEPT !.roles[r].text = text])

\* SecretField
EditAiKey(r, mark) ==
    /\ CanEditAi
    /\ \/ mark = "set"
       \/ mark = "clear" /\ aiCache.roles[r].key
       \/ mark = "keep" /\ aiCache.roles[r].key /\ AiForm.roles[r].key = "clear"
    /\ AiKeeps([AiForm EXCEPT !.roles[r].key = mark])

SetTries(n) == CanEditAi /\ AiKeeps([AiForm EXCEPT !.tries = Clamped(n)])

DiscardAi ==
    /\ aiDraft # None /\ aiSave = None /\ aiDraft' = None
    /\ UNCHANGED <<aiApproved, aiStored, aiCache, aiList, aiSave, aiSpent>>

SendAi ==
    /\ CanEditAi /\ aiDraft # None
    /\ aiSave' = [sent |-> [AiForm EXCEPT !.roles = [r \in Roles |-> [@[r] EXCEPT !.url = SentEndpoint(r)]]],
                  state |-> "sent", got |-> None]
    /\ UNCHANGED <<aiApproved, aiStored, aiCache, aiList, aiDraft, aiSpent>>

\* selectedEndpoint, resolveNotificationSecret, UpsertNotificationSettings
KeyAfter(had, mark) == mark = "set" \/ (mark = "keep" /\ had)
ServeAi ==
    /\ aiSave # None /\ aiSave.state = "sent"
    /\ IF \A r \in Roles : aiSave.sent.roles[r].url \in aiApproved \union {Default}
       THEN /\ aiStored' = [roles |-> [r \in Roles |->
                                [url |-> aiSave.sent.roles[r].url, text |-> aiSave.sent.roles[r].text,
                                 key |-> KeyAfter(aiStored.roles[r].key, aiSave.sent.roles[r].key)]],
                            tries |-> aiSave.sent.tries]
            /\ aiSave' = [aiSave EXCEPT !.state = "served", !.got = aiStored']
       ELSE aiSave' = [aiSave EXCEPT !.state = "refused"] /\ UNCHANGED aiStored
    /\ UNCHANGED <<aiApproved, aiCache, aiList, aiDraft, aiSpent>>

\* The answer is the preferences as stored; a refusal leaves the draft.
AnswerAi ==
    /\ aiSave # None /\ aiSave.state # "sent"
    /\ aiSave' = None
    /\ IF aiSave.state = "refused" THEN UNCHANGED <<aiCache, aiDraft>>
                                 ELSE aiCache' = aiSave.got /\ aiDraft' = None
    /\ UNCHANGED <<aiApproved, aiStored, aiList, aiSpent>>

\* The request or its answer is lost.
LoseAi ==
    /\ AiStep /\ aiSave # None /\ aiSave' = None
    /\ UNCHANGED <<aiApproved, aiStored, aiCache, aiList, aiDraft>>

ReadPreferences ==
    /\ aiCache # aiStored /\ aiCache' = aiStored
    /\ UNCHANGED <<aiApproved, aiStored, aiList, aiDraft, aiSave, aiSpent>>

ReadEndpoints ==
    /\ aiList' = [data |-> aiApproved, ok |-> TRUE] /\ aiList' # aiList
    /\ UNCHANGED <<aiApproved, aiStored, aiCache, aiDraft, aiSave, aiSpent>>

\* A failed read keeps what was read before.
FailEndpoints ==
    /\ AiStep /\ aiList' = [aiList EXCEPT !.ok = FALSE]
    /\ UNCHANGED <<aiApproved, aiStored, aiCache, aiDraft, aiSave>>

\* An administrator approves other endpoints; what is stored stays.
ApproveEndpoints(endpoints) ==
    /\ AiStep /\ endpoints # aiApproved /\ aiApproved' = endpoints
    /\ UNCHANGED <<aiStored, aiCache, aiList, aiDraft, aiSave>>

Configurations == [url : Endpoints \union {Default}, text : BOOLEAN, key : BOOLEAN]

AiInit ==
    /\ aiApproved \in SUBSET Endpoints
    /\ aiStored \in [roles : [Roles -> {c \in Configurations : ~c.text}], tries : 1..MaxTries]
    /\ aiCache = None /\ aiList = [data |-> None, ok |-> FALSE] /\ aiDraft = None /\ aiSave = None /\ aiSpent = 0

AiNext ==
    \/ DiscardAi \/ SendAi \/ ServeAi \/ AnswerAi \/ LoseAi
    \/ ReadPreferences \/ ReadEndpoints \/ FailEndpoints
    \/ \E n \in Attempts : SetTries(n)
    \/ \E r \in Roles : \/ \E e \in Endpoints \union {Default} : ChooseEndpoint(r, e)
                        \/ \E text \in BOOLEAN : EditAiText(r, text)
                        \/ \E mark \in {"set", "clear", "keep"} : EditAiKey(r, mark)
    \/ \E endpoints \in SUBSET Endpoints : ApproveEndpoints(endpoints)

AiSpec == AiInit /\ [][AiNext]_aiVars

----------------------------------------------------------------------------
\* What the AI fields of the recommendation preferences promise.

AiSettings == [roles : [Roles -> Configurations], tries : 1..MaxTries]
AiDrafts ==
    [roles : [Roles -> [url : Endpoints \union {Default}, text : BOOLEAN, key : {"keep", "clear", "set"}]],
     tries : 1..MaxTries]

ASSUME NoneIsNoAnswer == None \notin AiSettings

\* Types: no number of retries outside the form's range reaches the draft or
\* the server, however it was entered.
AiTypeOK ==
    /\ aiApproved \subseteq Endpoints /\ aiStored \in AiSettings
    /\ aiCache \in AiSettings \union {None} /\ aiDraft \in AiDrafts \union {None}
    /\ aiList \in [data : (SUBSET Endpoints) \union {None}, ok : BOOLEAN]
    /\ aiSave \in [sent : AiDrafts, state : {"sent", "served", "refused"}, got : AiSettings \union {None}] \union {None}
    /\ aiSave # None => (aiSave.got # None) = (aiSave.state = "served")
    /\ aiSpent \in 0..MaxAiSteps

\* A save stores the endpoints on the screen when the list of them is read: a
\* stored endpoint that was withdrawn shows as the default and is saved as it,
\* in both configurations, whatever was read again since the draft was begun
\* (use-tracking-page.tsx:248).
EndpointsAreSavedAsShown ==
    CanEditAi /\ aiList.ok => \A r \in Roles : SentEndpoint(r) = ShownEndpoint(r)
=============================================================================
