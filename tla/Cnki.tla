--------------------------------- MODULE Cnki ---------------------------------
(***************************************************************************)
(* The CNKI session of an account: logins by a QR code that is scanned     *)
(* elsewhere, confirmed by a request that waits for the scan, and clearing *)
(* the session, from the settings cards of several documents.  A login     *)
(* takes the server two steps with the upstream between them, in which     *)
(* other requests are served; a generation tells whether any was.          *)
(*                                                                         *)
(* A login is its number, its QR code too.                                 *)
(***************************************************************************)
EXTENDS Naturals, Page

CONSTANTS
    CnkiCards,     \* the documents that show the card
    CnkiSlots,     \* bound on the requests served at a time
    MaxLogins,     \* bound on the logins begun
    MaxCnkiSteps   \* bound on clearings, refreshes, reloads, losses, crashes
                   \* and expiries in a behaviour

Kinds  == {"start", "poll", "clear", "status"}
Stages == {"sent", "held", "ok", "bad"}

ASSUME CnkiConstants == None \notin CnkiCards \union Nat \union Kinds \union Stages

VARIABLES
    cnRow,       \* the stored session: status, QR code, generation and login
    cnLogins,    \* logins begun
    cnNewest,    \* the newest login whose QR code was ever stored
    cnBarrier,   \* the logins begun when the session was last cleared
    cnJobs,      \* the requests: by whom, kind, stage and what they hold
    cnQr,        \* cnkiLogin of each card
    cnStatus,    \* the status each card shows
    cnMessage,   \* cnkiMessage of each card
    cnAsking,    \* the cards whose clear confirmation is open
    cnSpent

cnServer == <<cnRow, cnLogins, cnNewest, cnBarrier>>
cnCard   == <<cnQr, cnStatus, cnMessage, cnAsking>>
cnVars   == <<cnServer, cnJobs, cnCard, cnSpent>>

CnkiStates == {"empty", "waiting", "active", "expired"}
NoRequest == [by |-> None, kind |-> None, stage |-> None, gen |-> 0, login |-> 0, status |-> None]
CnkiStep == cnSpent < MaxCnkiSteps /\ cnSpent' = cnSpent + 1

UnderWay(c, kind) == {id \in CnkiSlots : cnJobs[id].by = c /\ cnJobs[id].kind = kind}
Request(c, kind) == [NoRequest EXCEPT !.by = c, !.kind = kind, !.stage = "sent"]
Stands(id, kind, stage) == cnJobs[id].kind = kind /\ cnJobs[id].stage = stage

\* The outcome of a request; nobody waits for the one of an orphan.
Outcome(id, stage, status) ==
    [cnJobs EXCEPT ![id] = IF @.by = None THEN NoRequest ELSE [@ EXCEPT !.stage = stage, !.status = status]]

----------------------------------------------------------------------------
\* The server

\* Reserve: the login begins, the session stays.
Reserve(id) ==
    /\ Stands(id, "start", "sent")
    /\ cnLogins' = cnLogins + 1
    /\ cnRow' = [cnRow EXCEPT !.qr = None, !.gen = @ + 1]
    /\ cnJobs' = [cnJobs EXCEPT ![id].stage = "held", ![id].gen = cnRow.gen + 1, ![id].login = cnLogins + 1]
    /\ UNCHANGED <<cnNewest, cnBarrier, cnCard, cnSpent>>

\* Seeded fault: only the QR code is compared, which a login does not have yet.
SameCode(job) == job.kind = "start" \/ cnRow.qr = job.login

\* Complete goes through for the generation, and the QR code, it was begun with.
Fenced(job) == cnRow.gen = job.gen /\ (job.kind = "start" \/ cnRow.qr = job.login)

\* startCnkiLogin, with the QR code from the upstream
StoreCode(id) ==
    /\ Stands(id, "start", "held")
    /\ IF Fenced(cnJobs[id])
       THEN /\ cnRow' = [status |-> "waiting", qr |-> cnJobs[id].login, gen |-> cnRow.gen + 1, login |-> cnJobs[id].login]
            /\ cnNewest' = IF cnJobs[id].login > cnNewest THEN cnJobs[id].login ELSE cnNewest
            /\ cnJobs' = Outcome(id, "ok", "waiting")
       ELSE cnJobs' = Outcome(id, "bad", None) /\ UNCHANGED <<cnRow, cnNewest>>
    /\ UNCHANGED <<cnLogins, cnBarrier, cnCard, cnSpent>>

\* pollCnkiLogin reads what it waits for,
ReadCode(id) ==
    /\ Stands(id, "poll", "sent")
    /\ cnJobs' = IF cnRow.qr = None THEN Outcome(id, "bad", None)
                 ELSE [cnJobs EXCEPT ![id].stage = "held", ![id].gen = cnRow.gen, ![id].login = cnRow.qr]
    /\ UNCHANGED <<cnServer, cnCard, cnSpent>>

\* and the code was scanned and the full texts are warmed up.
Activate(id) ==
    /\ Stands(id, "poll", "held")
    /\ IF Fenced(cnJobs[id])
       THEN /\ cnRow' = [cnRow EXCEPT !.status = "active", !.gen = @ + 1]
            /\ cnJobs' = Outcome(id, "ok", "active")
       ELSE cnJobs' = Outcome(id, "bad", None) /\ UNCHANGED cnRow
    /\ UNCHANGED <<cnLogins, cnNewest, cnBarrier, cnCard, cnSpent>>

\* The upstream refuses, or the scan does not come in time.
FailUpstream(id) ==
    /\ cnJobs[id].stage = "held"
    /\ cnJobs' = Outcome(id, "bad", None)
    /\ UNCHANGED <<cnServer, cnCard, cnSpent>>

\* Clear
ServeClear(id) ==
    /\ Stands(id, "clear", "sent")
    /\ cnRow' = [status |-> "empty", qr |-> None, gen |-> cnRow.gen + 1, login |-> 0]
    /\ cnBarrier' = cnLogins
    /\ cnJobs' = Outcome(id, "ok", "empty")
    /\ UNCHANGED <<cnLogins, cnNewest, cnCard, cnSpent>>

ServeStatus(id) ==
    /\ Stands(id, "status", "sent")
    /\ cnJobs' = Outcome(id, "ok", cnRow.status)
    /\ UNCHANGED <<cnServer, cnCard, cnSpent>>

ExpireToken ==
    /\ CnkiStep
    /\ cnRow.status = "active" /\ cnRow' = [cnRow EXCEPT !.status = "expired"]
    /\ UNCHANGED <<cnLogins, cnNewest, cnBarrier, cnJobs, cnCard>>

\* The server is started again; the session and its generation are kept.
CrashServer ==
    /\ CnkiStep
    /\ cnJobs' = [id \in CnkiSlots |-> IF cnJobs[id].by = None THEN NoRequest ELSE [cnJobs[id] EXCEPT !.stage = "bad"]]
    /\ UNCHANGED <<cnServer, cnCard>>

----------------------------------------------------------------------------
\* The card

\* A request goes out unless one of its kind is under way.
GoesOut(c, kind) ==
    \E id \in CnkiSlots :
        /\ cnJobs[id] = NoRequest /\ UnderWay(c, kind) = {}
        /\ cnJobs' = [cnJobs EXCEPT ![id] = Request(c, kind)]

StartLogin(c) ==
    /\ cnLogins < MaxLogins /\ GoesOut(c, "start")
    /\ UNCHANGED <<cnServer, cnCard, cnSpent>>

PollLogin(c) ==
    /\ cnQr[c] # None /\ GoesOut(c, "poll")
    /\ cnMessage' = [cnMessage EXCEPT ![c] = "confirming"]
    /\ UNCHANGED <<cnServer, cnQr, cnStatus, cnAsking, cnSpent>>

\* Only a session that is known of can be cleared.
AskClear(c) ==
    /\ cnStatus[c] # "empty" /\ UnderWay(c, "clear") = {} /\ c \notin cnAsking
    /\ cnAsking' = cnAsking \union {c} /\ cnMessage' = [cnMessage EXCEPT ![c] = None]
    /\ UNCHANGED <<cnServer, cnJobs, cnQr, cnStatus, cnSpent>>

KeepSession(c) ==
    /\ c \in cnAsking /\ UnderWay(c, "clear") = {}
    /\ cnAsking' = cnAsking \ {c}
    /\ UNCHANGED <<cnServer, cnJobs, cnQr, cnStatus, cnMessage, cnSpent>>

ConfirmClear(c) ==
    /\ CnkiStep
    /\ c \in cnAsking /\ GoesOut(c, "clear")
    /\ UNCHANGED <<cnServer, cnCard>>

\* The status is asked for again, instead of what is under way.
StatusAsked(jobs, c) ==
    LET free == {id \in CnkiSlots : jobs[id] = NoRequest \/ (jobs[id].by = c /\ jobs[id].kind = "status")}
    IN  [id \in CnkiSlots |->
            IF id = (CHOOSE one \in free : TRUE) THEN Request(c, "status")
            ELSE IF jobs[id].by = c /\ jobs[id].kind = "status" THEN NoRequest ELSE jobs[id]]

RefreshStatus(c) ==
    /\ CnkiStep
    /\ \E id \in CnkiSlots : cnJobs[id] = NoRequest \/ id \in UnderWay(c, "status")
    /\ cnJobs' = StatusAsked(cnJobs, c)
    /\ UNCHANGED <<cnServer, cnCard>>

\* The answers: the card shows the new session at once, and asks for its
\* status again after a confirmation and a clearing.
AnswerStart(id) ==
    /\ Stands(id, "start", "ok")
    /\ LET c == cnJobs[id].by IN
        /\ cnQr' = [cnQr EXCEPT ![c] = cnJobs[id].login]
        /\ cnMessage' = [cnMessage EXCEPT ![c] = None]
        /\ cnStatus' = [cnStatus EXCEPT ![c] = cnJobs[id].status]
    /\ cnJobs' = [cnJobs EXCEPT ![id] = NoRequest]
    /\ UNCHANGED <<cnServer, cnAsking, cnSpent>>

AnswerPoll(id) ==
    /\ Stands(id, "poll", "ok")
    /\ LET c == cnJobs[id].by IN
        /\ cnQr' = [cnQr EXCEPT ![c] = None]
        /\ cnMessage' = [cnMessage EXCEPT ![c] = "done"]
        /\ cnStatus' = [cnStatus EXCEPT ![c] = cnJobs[id].status]
        /\ cnJobs' = StatusAsked([cnJobs EXCEPT ![id] = NoRequest], c)
    /\ UNCHANGED <<cnServer, cnAsking, cnSpent>>

AnswerClear(id) ==
    /\ Stands(id, "clear", "ok")
    /\ LET c == cnJobs[id].by IN
        /\ cnAsking' = cnAsking \ {c}
        /\ cnQr' = [cnQr EXCEPT ![c] = None]
        /\ cnMessage' = [cnMessage EXCEPT ![c] = "cleared"]
        /\ cnStatus' = [cnStatus EXCEPT ![c] = cnJobs[id].status]
        /\ cnJobs' = StatusAsked([cnJobs EXCEPT ![id] = NoRequest], c)
    /\ UNCHANGED <<cnServer, cnSpent>>

AnswerStatus(id) ==
    /\ Stands(id, "status", "ok")
    /\ cnStatus' = [cnStatus EXCEPT ![cnJobs[id].by] = cnJobs[id].status]
    /\ cnJobs' = [cnJobs EXCEPT ![id] = NoRequest]
    /\ UNCHANGED <<cnServer, cnQr, cnMessage, cnAsking, cnSpent>>

\* The message of a failed request; that of the status has its own place.
Told(c, kind) == IF kind = "status" THEN UNCHANGED cnMessage ELSE cnMessage' = [cnMessage EXCEPT ![c] = "failed"]

AnswerFailure(id) ==
    /\ cnJobs[id].stage = "bad"
    /\ Told(cnJobs[id].by, cnJobs[id].kind)
    /\ cnJobs' = [cnJobs EXCEPT ![id] = NoRequest]
    /\ UNCHANGED <<cnServer, cnQr, cnStatus, cnAsking, cnSpent>>

\* What a request that nobody waits for becomes: one not yet answered is served.
LeftBehind(job) == IF job.stage \in {"sent", "held"} /\ job.kind # "status" THEN [job EXCEPT !.by = None] ELSE NoRequest

\* The connection is lost; the server goes on.
LoseRequest(id) ==
    /\ CnkiStep
    /\ cnJobs[id].by # None
    /\ Told(cnJobs[id].by, cnJobs[id].kind)
    /\ cnJobs' = [cnJobs EXCEPT ![id] = LeftBehind(@)]
    /\ UNCHANGED <<cnServer, cnQr, cnStatus, cnAsking>>

\* The page is loaded again, and reads the status as it opens.
ReloadCard(c) ==
    /\ CnkiStep
    /\ cnQr' = [cnQr EXCEPT ![c] = None] /\ cnStatus' = [cnStatus EXCEPT ![c] = cnRow.status]
    /\ cnMessage' = [cnMessage EXCEPT ![c] = None] /\ cnAsking' = cnAsking \ {c}
    /\ cnJobs' = [id \in CnkiSlots |-> IF cnJobs[id].by = c THEN LeftBehind(cnJobs[id]) ELSE cnJobs[id]]
    /\ UNCHANGED cnServer

----------------------------------------------------------------------------
CnInit ==
    /\ cnRow = [status |-> "empty", qr |-> None, gen |-> 0, login |-> 0]
    /\ cnLogins = 0 /\ cnNewest = 0 /\ cnBarrier = 0
    /\ cnJobs = [id \in CnkiSlots |-> NoRequest]
    /\ cnQr = [c \in CnkiCards |-> None] /\ cnStatus = [c \in CnkiCards |-> "empty"]
    /\ cnMessage = [c \in CnkiCards |-> None] /\ cnAsking = {} /\ cnSpent = 0

CnServes(id) ==
    \/ Reserve(id) \/ StoreCode(id) \/ ReadCode(id) \/ Activate(id) \/ FailUpstream(id)
    \/ ServeClear(id) \/ ServeStatus(id)

CnAnswers(id) ==
    \/ AnswerStart(id) \/ AnswerPoll(id) \/ AnswerClear(id) \/ AnswerStatus(id)
    \/ AnswerFailure(id) \/ LoseRequest(id)

CnReader(c) ==
    \/ StartLogin(c) \/ PollLogin(c) \/ AskClear(c) \/ KeepSession(c) \/ ConfirmClear(c)
    \/ RefreshStatus(c) \/ ReloadCard(c)

CnNext ==
    \/ \E id \in CnkiSlots : CnServes(id) \/ CnAnswers(id)
    \/ \E c \in CnkiCards : CnReader(c)
    \/ ExpireToken \/ CrashServer

CnSpec == CnInit /\ [][CnNext]_cnVars

----------------------------------------------------------------------------
\* What the CNKI session promises.

Requests == [by : CnkiCards \union {None}, kind : Kinds \union {None}, stage : Stages \union {None},
             gen : Nat, login : Nat, status : CnkiStates \union {None}]

\* Types: the stored session, the requests and the cards have the states of
\* the code, an orphaned request is one the server still works on, and an answer has a
\* status.
CnTypeOK ==
    /\ cnRow \in [status : CnkiStates, qr : Nat \union {None}, gen : Nat, login : Nat]
    /\ cnLogins \in Nat /\ cnNewest \in Nat /\ cnBarrier \in Nat /\ cnSpent \in Nat
    /\ cnJobs \in [CnkiSlots -> Requests]
    /\ \A id \in CnkiSlots : cnJobs[id].stage \in {"ok", "bad"} => cnJobs[id].by # None
    /\ \A id \in CnkiSlots : cnJobs[id].stage = "ok" => cnJobs[id].status \in CnkiStates
    /\ cnQr \in [CnkiCards -> Nat \union {None}] /\ cnStatus \in [CnkiCards -> CnkiStates]
    /\ cnMessage \in [CnkiCards -> {None, "confirming", "done", "cleared", "failed"}]
    /\ cnAsking \subseteq CnkiCards

\* However logins, confirmations and clearings of all documents overlap, come
\* late, are lost or cut off by a restart: the stored session is of a login
\* begun after it was last cleared, so that a late answer never brings back
\* what was cleared, and of the newest login whose code was stored, so that
\* it never takes the place of a newer one (storage/auth/cnki.go:179, 210).
SessionIsCurrent ==
    cnRow.status # "empty" => cnRow.login > cnBarrier /\ cnRow.login = cnNewest

\* What a generation stands for: a request that holds the stored one is the
\* last that has begun, and holds what is stored.
HeldFits ==
    \A id \in CnkiSlots :
        LET job == cnJobs[id] IN
        job.stage = "held" =>
            /\ job.gen <= cnRow.gen /\ job.kind \in {"start", "poll"}
            /\ job.kind = "start" /\ job.gen = cnRow.gen => job.login = cnLogins /\ job.login > cnBarrier
            /\ job.kind = "poll" /\ job.gen = cnRow.gen => cnRow.status # "empty"

\* Why the session is current, in every state.
CnkiInv ==
    /\ CnTypeOK
    /\ cnNewest <= cnLogins /\ cnBarrier <= cnLogins
    /\ cnRow.qr # None => cnRow.status # "empty"
    /\ HeldFits
    /\ SessionIsCurrent
=============================================================================
