------------------------------ MODULE MCCentre ------------------------------
(* The login page, the calls for papers, and the two centres with their     *)
(* dialog and cards, one part at a time: each behaviour is one of the       *)
(* module named by live, the others stay as they start.                     *)
EXTENDS SettingsProperties, Cards, Runtime,
        Cnki, Tasks, LoginForm,
        Cfp, TLC

CONSTANTS d1, d2, t1, t2, p1, p2, f1, j1, j2

ProvidersInOrder == <<p1, p2>>

TwoDatabases == <<d1, d2>>
JournalsApart == d1 :> <<j1, j2>> @@ d2 :> <<j1>>

VARIABLE live   \* the part that moves

centreVars == <<live, setVars, cdVars, rtVars, cnVars, tkVars, lgVars, cfVars, aiVars>>

CentreInit ==
    /\ live \in {"settings", "cards", "runtime", "cnki", "tasks", "login", "cfp", "ai"}
    /\ SetInit /\ setStored.key = (setStored.dbs # {}) /\ setCatalog = (IF setStored.key THEN {d2} ELSE Databases)
    /\ live = "settings" \/ ~setStored.key
    \* The card of tasks is the one of announcements, never hidden.
    /\ IF live = "cards" THEN CardInit /\ cdCard # "tasks" /\ (cdCard = "announcements" => cdRows # [t \in Targets |-> "on"])
                        ELSE CardInit /\ cdCard = "invite" /\ cdRows[Self] = "on"
    /\ IF live = "runtime" THEN RtInit ELSE RtInit /\ rtStored.pool = {} /\ rtStored.orders.default = <<p1>>
    /\ CnInit
    /\ TkInit /\ LET sample == {None, IndexJob(TRUE, TRUE, f1), DeliveryJob("push", f1, None), DeliveryJob("notify", f1, 9)}
                  first == tkTasks[1]
              IN  /\ first # None => first.job \in sample /\ first.enabled = (first.job # None)
                  /\ live = "tasks" \/ first = None
    /\ IF live = "login" THEN LgInit ELSE LgInit /\ lgPage = ReturnUrl(None) /\ ~lgWarning /\ lgServer.bootstrap
    /\ CfInit /\ cfUrl = [db |-> None, journal |-> None] /\ cfCurrent = {j1}
    /\ IF live = "ai" THEN AiInit /\ aiStored.tries = 1
       ELSE AiInit /\ aiApproved = {} /\ aiStored = [roles |-> [r \in Roles |-> [url |-> Default, text |-> FALSE, key |-> FALSE]], tries |-> 1]

OnSettings  == live = "settings" /\ UNCHANGED <<live, cdVars, rtVars, cnVars, tkVars, lgVars, cfVars, aiVars>> /\ SetNext
OnCards     == live = "cards" /\ UNCHANGED <<live, setVars, rtVars, cnVars, tkVars, lgVars, cfVars, aiVars>> /\ CardNext
OnRuntime   == live = "runtime" /\ UNCHANGED <<live, setVars, cdVars, cnVars, tkVars, lgVars, cfVars, aiVars>> /\ RtNext
OnCnki      == live = "cnki" /\ UNCHANGED <<live, setVars, cdVars, rtVars, tkVars, lgVars, cfVars, aiVars>> /\ CnNext
OnTasks     == live = "tasks" /\ UNCHANGED <<live, setVars, cdVars, rtVars, cnVars, lgVars, cfVars, aiVars>> /\ TkNext

OnLoginPage == live = "login" /\ UNCHANGED <<live, setVars, cdVars, rtVars, cnVars, tkVars, cfVars, aiVars>> /\ LgNext
OnCfp       == live = "cfp" /\ UNCHANGED <<live, setVars, cdVars, rtVars, cnVars, tkVars, lgVars, aiVars>> /\ CfNext
OnAiFields  == live = "ai" /\ UNCHANGED <<live, setVars, cdVars, rtVars, cnVars, tkVars, lgVars, cfVars>> /\ AiNext

CentreNext == OnSettings \/ OnCards \/ OnRuntime \/ OnCnki \/ OnTasks \/ OnLoginPage \/ OnCfp \/ OnAiFields

CentreSpec == CentreInit /\ [][CentreNext]_centreVars

\* Types: the part that moves keeps the shapes its module states.
CentreTypeOK ==
    /\ live = "settings" => SetTypeOK
    /\ live = "cards" => CardTypeOK
    /\ live = "runtime" => RtTypeOK
    /\ live = "cnki" => CnTypeOK
    /\ live = "tasks" => TkTypeOK
    /\ live = "login" => LgTypeOK
    /\ live = "cfp" => CfTypeOK
    /\ live = "ai" => AiTypeOK
=============================================================================
