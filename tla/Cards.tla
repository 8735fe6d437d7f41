-------------------------------- MODULE Cards --------------------------------
(***************************************************************************)
(* The cards of the administrator and settings centres: a list read        *)
(* through the query cache, an editor for one row, switches on the rows    *)
(* and a confirmation before a row is deleted or revoked.                  *)
(*                                                                         *)
(* A behaviour is about one card.  The cards differ in what they let       *)
(* overlap, in what an answer closes and in which views it outdates; the   *)
(* definitions below say how.  A write is sent, served and answered apart, *)
(* and its answer may come back when the reader has long opened something  *)
(* else, or has left.                                                      *)
(***************************************************************************)
EXTENDS Naturals, Sequences, FiniteSets, Page

CONSTANTS
    Targets,        \* rows a card may list
    Self,           \* the row of the administrator at work
    MaxCardWrites   \* bound on the writes of a behaviour

ASSUME CardConstants ==
    /\ IsFiniteSet(Targets) /\ None \notin Targets /\ Self \in Targets
    /\ MaxCardWrites \in Nat

VARIABLES
    cdCard,    \* the card
    cdPanel,   \* shown, hidden behind another panel, or gone
    cdRows,    \* the rows of the server: absent, off or on
    cdList,    \* the rows as the list last read them
    cdOld,     \* the queries whose last answer no longer fits the rows
    cdDue,     \* the queries that are to be read again
    cdForm,    \* the editor: open, the row it edits, whether it may be sent
    cdMade,    \* a token just made is on the screen
    cdAsk,     \* the row whose deletion is being confirmed, or None
    cdWrites,  \* the writes begun, in order
    cdSeen,    \* of each kind, the write the card observes, or 0
    cdUnsure   \* queries outdated by a write whose answer was lost

cdShape == <<cdCard, cdPanel>>
cdServer == <<cdRows, cdUnsure>>
cdQueries == <<cdList, cdOld, cdDue>>
cdDialogs == <<cdForm, cdMade, cdAsk>>
cdVars == <<cdShape, cdServer, cdQueries, cdDialogs, cdWrites, cdSeen>>

AdminCards == {"users", "invites", "tasks", "announcements"}
CardKinds == AdminCards \union {"tokens", "invite"}
Writes == {"save", "toggle", "delete"}

\* What the cards offer: a new row from an editor of its own, a row to edit,
\* a switch on each row, rows that stay listed when they are revoked.
WithNew    == {"announcements", "tasks", "tokens"}
WithEdit   == {"users", "announcements", "tasks"}
WithSwitch == {"users", "announcements", "tasks"}
Revocable  == {"invites", "invite"}

----------------------------------------------------------------------------
\* What the cards read

\* The list stands with the scheduler's state, which the tasks show beside
\* it, and the statistics with the announcements the reader is shown.
Queries(card) == IF card \in AdminCards THEN {"list", "stats"} ELSE {"list"}

\* Seeded fault: the statistics are not read again.
OutdatedList(card, kind) ==
    IF card = "users" /\ kind = "save" THEN {} ELSE Queries(card) \ {"stats"}

\* A password that was reset shows in no list.
Outdated(card, kind) ==
    IF card = "users" /\ kind = "save" THEN {} ELSE Queries(card)

\* The tasks and the scheduler are read only while their panel shows; a
\* list is not read while its card is gone.
Watched ==
    {q \in Queries(cdCard) :
        \/ q = "stats"
        \/ cdPanel = "shown"
        \/ (cdPanel = "hidden" /\ cdCard # "tasks")}

Listed == {t \in Targets : cdList[t] # "absent"}

----------------------------------------------------------------------------
\* Writes

Under(kind) == cdSeen[kind] # 0 /\ cdWrites[cdSeen[kind]].stage \in {"sent", "done", "refused"}
Failed(kind) == cdSeen[kind] # 0 /\ cdWrites[cdSeen[kind]].stage = "failed"
Nothing == \A kind \in Writes : ~Under(kind)

\* A write forgotten: how it ends no longer shows in the card.
Unseen(kinds) == [kind \in Writes |-> IF kind \in kinds THEN 0 ELSE cdSeen[kind]]

Begin(kind, of, to, forgotten) ==
    /\ Len(cdWrites) < MaxCardWrites
    /\ cdWrites' = Append(cdWrites, [kind |-> kind, of |-> of, to |-> to, stage |-> "sent", ours |-> TRUE])
    /\ cdSeen' = [Unseen(forgotten) EXCEPT ![kind] = Len(cdWrites) + 1]

\* The form of a card just shown.  A token needs no name and an invite has a
\* policy to begin with; the other editors begin when they open.
Blank == [open |-> FALSE, of |-> None, ok |-> cdCard \in {"tokens", "invites"}]

Asking == cdForm.open \/ cdAsk # None
Reachable == cdPanel = "shown" /\ ~Asking

\* What the card sends from: its editor, or for the administrator's invites
\* the card itself.
Sends == IF cdCard = "invites" THEN Reachable ELSE cdForm.open

CardInit ==
    /\ cdCard \in CardKinds /\ cdPanel = "shown"
    /\ cdRows \in {[t \in Targets |-> IF t \in present THEN "on" ELSE "absent"] :
                     present \in IF cdCard = "invite" THEN {{}, {Self}} ELSE {{Self}, Targets}}
    /\ cdList = cdRows /\ cdOld = {} /\ cdDue = {} /\ cdUnsure = {}
    /\ cdForm = Blank
    /\ cdMade = FALSE /\ cdAsk = None
    /\ cdWrites = <<>> /\ cdSeen = [kind \in Writes |-> 0]

----------------------------------------------------------------------------
\* The editors

\* A new announcement or task starts from the defaults; what was typed for
\* a token is kept from one opening to the next.
OpenNew ==
    /\ Reachable /\ cdCard \in WithNew
    /\ cdForm' = [open |-> TRUE, of |-> None, ok |-> cdCard = "tokens" /\ cdForm.ok]
    /\ UNCHANGED <<cdShape, cdServer, cdQueries, cdMade, cdAsk, cdWrites, cdSeen>>

\* Resetting a password starts empty and forgets an earlier reset; the other
\* editors start from the row and remember how the last save went.
OpenEdit(t) ==
    /\ Reachable /\ t \in Listed /\ cdCard \in WithEdit
    /\ cdForm' = [open |-> TRUE, of |-> t, ok |-> cdCard # "users"]
    /\ cdSeen' = Unseen(IF cdCard = "users" THEN {"save"} ELSE {})
    /\ UNCHANGED <<cdShape, cdServer, cdQueries, cdMade, cdAsk, cdWrites>>

EditForm ==
    /\ Sends /\ ~cdMade
    /\ \E ok \in BOOLEAN : cdForm' = [cdForm EXCEPT !.ok = ok]
    /\ UNCHANGED <<cdShape, cdServer, cdQueries, cdMade, cdAsk, cdWrites, cdSeen>>

\* An editor may be closed while its save is under way.
CloseForm ==
    /\ cdForm.open /\ cdMade' = FALSE
    /\ cdForm' = [open |-> FALSE, of |-> None, ok |-> cdCard = "tokens" /\ cdForm.ok]
    /\ UNCHANGED <<cdShape, cdServer, cdQueries, cdAsk, cdWrites, cdSeen>>

\* The administrator's invites are made in the card itself, the others in
\* an editor.
SendForm(t) ==
    /\ Sends /\ cdForm.ok /\ ~cdMade /\ ~Under("save")
    /\ IF cdForm.of = None THEN cdRows[t] = "absent" ELSE t = cdForm.of
    /\ Begin("save", t, "on", {})
    /\ UNCHANGED <<cdShape, cdServer, cdQueries, cdDialogs>>

\* One's own invite is generated and rotated without an editor, one write
\* at a time.
MakeInvite ==
    /\ cdCard = "invite" /\ Reachable /\ Nothing
    /\ Begin(IF Self \in Listed THEN "toggle" ELSE "save", Self, "on", Writes)
    /\ UNCHANGED <<cdShape, cdServer, cdQueries, cdDialogs>>

----------------------------------------------------------------------------
\* Switches and confirmations

\* Administrator rights change one at a time and never one's own; tasks and
\* announcements may be switched while another switch is under way.  What
\* is asked for is the opposite of what the list shows.
Switch(t) ==
    /\ Reachable /\ t \in Listed /\ cdCard \in WithSwitch
    /\ cdCard = "users" => t # Self /\ ~Under("toggle")
    /\ Begin("toggle", t, IF cdList[t] = "on" THEN "off" ELSE "on", {})
    /\ UNCHANGED <<cdShape, cdServer, cdQueries, cdDialogs>>

\* What may be asked to go: not oneself, and a code only until it is revoked.
Removable(t) ==
    /\ t \in Listed
    /\ cdCard = "users" => t # Self
    /\ cdCard \in Revocable => cdList[t] = "on"

\* Seeded fault: an earlier failure is still shown.
KeepsFailure == {}
OnAsking == IF cdCard = "invite" THEN Writes ELSE {"delete"}

\* Asking forgets how an earlier deletion went; except among the users, it
\* waits for the one under way.
AskDelete(t) ==
    /\ Reachable /\ Removable(t)
    /\ cdCard = "users" \/ (cdCard = "invite" /\ Nothing) \/ (cdCard # "invite" /\ ~Under("delete"))
    /\ cdAsk' = t /\ cdSeen' = Unseen(OnAsking)
    /\ UNCHANGED <<cdShape, cdServer, cdQueries, cdForm, cdMade, cdWrites>>

\* The question cannot be left while its answer is awaited, except among
\* the users.
Dismiss ==
    /\ cdAsk # None /\ (cdCard = "users" \/ ~Under("delete"))
    /\ cdAsk' = None
    /\ UNCHANGED <<cdShape, cdServer, cdQueries, cdForm, cdMade, cdWrites, cdSeen>>

Confirm ==
    /\ cdAsk # None /\ ~Under("delete")
    /\ Begin("delete", cdAsk, IF cdCard \in Revocable THEN "off" ELSE "absent", {})
    /\ UNCHANGED <<cdShape, cdServer, cdQueries, cdDialogs>>

----------------------------------------------------------------------------
\* Answers

\* The server refuses a write for a row that is gone; the answer of one it
\* carried out may be lost.
ServeWrite(i) ==
    LET w == cdWrites[i]
        gone == w.kind # "save" /\ cdRows[w.of] = "absent"
        secret == cdCard = "users" /\ w.kind = "save"
    IN  /\ w.stage = "sent"
        /\ \/ /\ cdWrites' = [cdWrites EXCEPT ![i].stage = "refused"] /\ UNCHANGED <<cdServer, cdOld>>
           \/ /\ ~gone
              /\ cdRows' = IF secret THEN cdRows ELSE [cdRows EXCEPT ![w.of] = w.to]
              /\ cdOld' = IF secret THEN cdOld ELSE Queries(cdCard)
              /\ \/ cdWrites' = [cdWrites EXCEPT ![i].stage = "done"] /\ UNCHANGED cdUnsure
                 \/ /\ cdWrites' = [cdWrites EXCEPT ![i].stage = "refused"]
                    /\ cdUnsure' = cdUnsure \union Outdated(cdCard, w.kind)
    /\ UNCHANGED <<cdShape, cdList, cdDue, cdDialogs, cdSeen>>

\* What a save that went through closes: the editor of the card, whichever
\* row it is open on by then; a token is put on the screen instead.
Closed(w) ==
    CASE w.kind = "save" /\ w.ours /\ cdCard \in WithEdit ->
             /\ cdForm' = [open |-> FALSE, of |-> None, ok |-> FALSE] /\ UNCHANGED <<cdMade, cdAsk>>
      [] w.kind = "save" /\ w.ours /\ cdCard = "tokens" ->
             /\ cdMade' = TRUE /\ cdForm' = [cdForm EXCEPT !.ok = TRUE] /\ UNCHANGED cdAsk
      [] w.kind = "delete" /\ w.ours /\ (cdCard \in {"users", "invite"} \/ cdAsk = w.of) ->
             /\ cdAsk' = None /\ UNCHANGED <<cdForm, cdMade>>
      [] OTHER -> UNCHANGED cdDialogs

AnswerWrite(i) ==
    LET w == cdWrites[i] IN
    /\ \/ /\ w.stage = "done" /\ cdWrites' = [cdWrites EXCEPT ![i].stage = "ok"]
          /\ cdDue' = cdDue \union Outdated(cdCard, w.kind) /\ UNCHANGED <<cdList, cdOld>>
          /\ Closed(w)
       \/ /\ w.stage = "refused" /\ cdWrites' = [cdWrites EXCEPT ![i].stage = "failed"]
          /\ UNCHANGED <<cdQueries, cdDialogs>>
    /\ UNCHANGED <<cdShape, cdServer, cdSeen>>

\* Queries read again: one that is due, or all when the window is looked at
\* again.
Read(queries) ==
    /\ queries # {}
    /\ cdList' = IF "list" \in queries THEN cdRows ELSE cdList
    /\ cdOld' = cdOld \ queries /\ cdDue' = cdDue \ queries /\ cdUnsure' = cdUnsure \ queries
    /\ UNCHANGED <<cdShape, cdRows, cdDialogs, cdWrites, cdSeen>>

ReadAgain == \E q \in cdDue \intersect Watched : Read({q})
LookAgain == Read(Watched)

----------------------------------------------------------------------------
\* Panels

\* A panel of the administrator keeps its card once it was visited; a
\* section of the settings does not.
HidePanel ==
    /\ Reachable
    /\ cdPanel' = IF cdCard \in AdminCards THEN "hidden" ELSE "gone"
    /\ cdWrites' = IF cdCard \in AdminCards THEN cdWrites ELSE [i \in DOMAIN cdWrites |-> [cdWrites[i] EXCEPT !.ours = FALSE]]
    /\ cdSeen' = IF cdCard \in AdminCards THEN cdSeen ELSE Unseen(Writes)
    /\ UNCHANGED <<cdCard, cdServer, cdQueries, cdDialogs>>

\* Closing the centre gives its cards up.
LeaveCentre ==
    /\ cdPanel = "hidden" \/ Reachable
    /\ cdPanel' = "gone"
    /\ cdWrites' = [i \in DOMAIN cdWrites |-> [cdWrites[i] EXCEPT !.ours = FALSE]]
    /\ cdSeen' = Unseen(Writes)
    /\ UNCHANGED <<cdCard, cdServer, cdQueries, cdDialogs>>

\* A card that comes back is new: its form is empty and its list is read.
ShowPanel ==
    /\ cdPanel # "shown" /\ cdPanel' = "shown"
    /\ IF cdPanel = "hidden" THEN UNCHANGED <<cdDue, cdForm>>
       ELSE /\ cdDue' = cdDue \union {"list"}
            /\ cdForm' = Blank
    /\ UNCHANGED <<cdCard, cdServer, cdList, cdOld, cdMade, cdAsk, cdWrites, cdSeen>>

CardNext ==
    \/ OpenNew \/ EditForm \/ CloseForm \/ MakeInvite \/ Dismiss \/ Confirm
    \/ \E t \in Targets : OpenEdit(t) \/ SendForm(t) \/ Switch(t) \/ AskDelete(t)
    \/ \E i \in DOMAIN cdWrites : ServeWrite(i) \/ AnswerWrite(i)
    \/ ReadAgain \/ LookAgain \/ HidePanel \/ LeaveCentre \/ ShowPanel

CardSpec == CardInit /\ [][CardNext]_cdVars

----------------------------------------------------------------------------
\* What the cards of the two centres keep true.

RowStates == [Targets -> {"absent", "off", "on"}]

\* Types: rows, views, dialogs and writes have the shapes of the code; only
\* the cards with an editor open one, and nothing is open in a hidden panel.
CardTypeOK ==
    /\ cdCard \in CardKinds /\ cdPanel \in {"shown", "hidden", "gone"}
    /\ cdRows \in RowStates /\ cdList \in RowStates /\ cdOld \subseteq Queries(cdCard)
    /\ cdDue \subseteq Queries(cdCard) /\ cdUnsure \subseteq Queries(cdCard)
    /\ cdForm \in [open : BOOLEAN, of : Targets \union {None}, ok : BOOLEAN]
    /\ cdMade \in BOOLEAN /\ cdAsk \in Targets \union {None}
    /\ \A i \in DOMAIN cdWrites :
          cdWrites[i] \in [kind : Writes, of : Targets, to : {"absent", "off", "on"},
                          stage : {"sent", "done", "refused", "ok", "failed"}, ours : BOOLEAN]
    /\ cdSeen \in [Writes -> 0..Len(cdWrites)]
    /\ Asking => cdPanel = "shown"

\* A failure is read beside the row it is about: while a deletion or a
\* revocation is being confirmed, the failure shown under the question is
\* that of the row the question names, however earlier ones ended and
\* whichever answers came late.
FailureNamesItsRow ==
    cdAsk # None /\ Failed("delete") => cdWrites[cdSeen["delete"]].of = cdAsk

\* What a write changed is shown wherever it shows: a list, the statistics,
\* the scheduler's state or the public announcements differ from the server
\* only while they are to be read again, a write is still to be answered, or
\* its answer was lost.
ViewsFollowWrites ==
    \A q \in cdOld \union (IF cdList = cdRows THEN {} ELSE {"list"}) :
        \/ q \in cdDue \union cdUnsure
        \/ \E i \in DOMAIN cdWrites :
              cdWrites[i].stage = "done" /\ q \in Outdated(cdCard, cdWrites[i].kind)
=============================================================================
