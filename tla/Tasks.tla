--------------------------------- MODULE Tasks ---------------------------------
(***************************************************************************)
(* The editor of scheduled tasks: a stored job becomes a preset and a form *)
(* of texts, is edited, and becomes a job again that replaces the stored   *)
(* one.  A save and the switches of the list are sent, served and answered *)
(* apart; another administrator may change a task meanwhile.  One switch   *)
(* is under way at a time.                                                 *)
(*                                                                         *)
(* Name, cron expression, time zone, timeout and coalescing stand together *)
(* as the timing of a task: the editor treats them alike.                  *)
(***************************************************************************)
EXTENDS Naturals, Page

CONSTANTS
    TaskIds,       \* the tasks there may be
    Timings,       \* what name, cron, zone and timeout may be together
    Files,         \* file names, for a CSV and for a database
    Limits,        \* candidate limits
    Bad,           \* a text the editor refuses
    MaxTaskSteps   \* bound on edits, switches and changes made elsewhere

ASSUME TaskConstants ==
    /\ None \notin TaskIds \union Timings \union Files \union Limits
    /\ Bad \notin Timings \union Files \union Limits \union {None}

VARIABLES
    tkTasks,    \* the tasks of the server, None where there is none
    tkList,     \* the tasks as the list last read them
    tkEditor,   \* the editor: open, the task it edits, its form and preset
    tkEdited,   \* what was edited since it was opened
    tkSave,     \* the save the card observes, or None
    tkSwitch,   \* the switch under way, or None
    tkSpent

tkVars == <<tkTasks, tkList, tkEditor, tkEdited, tkSave, tkSwitch, tkSpent>>
TaskStep == tkSpent < MaxTaskSteps /\ tkSpent' = tkSpent + 1

----------------------------------------------------------------------------
\* Jobs and presets

IndexPresets == {"index-update", "index-update-folder", "index-update-external", "index-update-both"}
JobPresets == IndexPresets \union {"folder-only", "external-only"}

IndexJob(notify, push, metadata) ==
    [kind |-> "index", notify |-> notify, push |-> push, file |-> metadata, limit |-> None]
DeliveryJob(kind, database, limit) ==
    [kind |-> kind, notify |-> FALSE, push |-> FALSE, file |-> database, limit |-> limit]

Jobs ==
    {IndexJob(n, p, f) : n \in BOOLEAN, p \in BOOLEAN, f \in Files \union {None}}
      \union {DeliveryJob(k, f, l) : k \in {"notify", "push"}, f \in Files \union {None}, l \in Limits \union {None}}

ASSUME NoneIsNoJob == None \notin Jobs

\* Seeded fault: delivery to third parties is looked at first.
PresetInOrder(job) ==
    CASE job = None           -> "index-update-external"
      [] job.kind = "notify"  -> "external-only"
      [] job.kind = "push"    -> "folder-only"
      [] job.notify           -> "index-update-external"
      [] job.push             -> "index-update-folder"
      [] OTHER                -> "index-update"

\* The preset of a stored job; the one of a legacy task is the default.
PresetForJob(job) ==
    CASE job = None             -> "index-update-external"
      [] job.kind = "notify"    -> "external-only"
      [] job.kind = "push"      -> "folder-only"
      [] job.notify /\ job.push -> "index-update-both"
      [] job.push /\ ~job.notify -> "index-update-folder"
      [] job.notify /\ ~job.push -> "index-update-external"
      [] OTHER                  -> "index-update"

\* The job of a form: only the texts of the preset's kind go into it.
ScheduledJob(form, preset) ==
    IF preset \in IndexPresets
    THEN IndexJob(preset \in {"index-update-external", "index-update-both"},
                  preset \in {"index-update-folder", "index-update-both"}, form.metadata)
    ELSE DeliveryJob(IF preset = "folder-only" THEN "push" ELSE "notify", form.database, form.limit)

\* The form of a task: the texts of the other kind are empty.
TaskForm(task) ==
    LET of(kinds, text) == IF task.job # None /\ task.job.kind \in kinds THEN text ELSE None IN
    [timing |-> task.timing, enabled |-> task.enabled,
     metadata |-> of({"index"}, task.job.file),
     database |-> of({"notify", "push"}, task.job.file),
     limit |-> of({"notify", "push"}, task.job.limit)]

\* Texts of the kind that is hidden do not keep a form from being sent.
FormValid(form, preset) ==
    /\ form.timing # Bad
    /\ IF preset \in IndexPresets THEN form.metadata # Bad ELSE Bad \notin {form.database, form.limit}

\* A new task's form lacks its name.
DefaultForm == [timing |-> Bad, enabled |-> TRUE, metadata |-> None, database |-> None, limit |-> None]

Shut == [open |-> FALSE, of |-> None, form |-> DefaultForm, preset |-> "index-update-external", from |-> None]

\* A legacy task, whose command was never a job, is off.
LegacyIsOff(task) == task # None /\ task.job = None => ~task.enabled

----------------------------------------------------------------------------
\* The card

OpenCreate ==
    /\ ~tkEditor.open
    /\ tkEditor' = [Shut EXCEPT !.open = TRUE] /\ tkEdited' = {}
    /\ UNCHANGED <<tkTasks, tkList, tkSave, tkSwitch, tkSpent>>

OpenTask(t) ==
    /\ ~tkEditor.open /\ tkList[t] # None
    /\ tkEditor' = [open |-> TRUE, of |-> t, form |-> TaskForm(tkList[t]),
                    preset |-> PresetForJob(tkList[t].job), from |-> tkList[t]]
    /\ tkEdited' = {}
    /\ UNCHANGED <<tkTasks, tkList, tkSave, tkSwitch, tkSpent>>

TypedInto(field, values) ==
    \E v \in values \ {tkEditor.form[field]} :
        /\ tkEditor' = [tkEditor EXCEPT !.form[field] = v]
        /\ tkEdited' = tkEdited \union {field}

\* Only the texts of the chosen kind can be reached.
EditTask ==
    /\ TaskStep /\ tkEditor.open
    /\ \/ TypedInto("timing", Timings \union {Bad})
       \/ TypedInto("enabled", BOOLEAN)
       \/ tkEditor.preset \in IndexPresets /\ TypedInto("metadata", Files \union {None, Bad})
       \/ tkEditor.preset \notin IndexPresets /\ TypedInto("database", Files \union {None, Bad})
       \/ tkEditor.preset \notin IndexPresets /\ TypedInto("limit", Limits \union {None, Bad})
    /\ UNCHANGED <<tkTasks, tkList, tkSave, tkSwitch>>

ChoosePreset ==
    /\ TaskStep /\ tkEditor.open
    /\ \E preset \in JobPresets \ {tkEditor.preset} :
        /\ tkEditor' = [tkEditor EXCEPT !.preset = preset]
        /\ tkEdited' = tkEdited \union {"preset"}
    /\ UNCHANGED <<tkTasks, tkList, tkSave, tkSwitch>>

\* The editor may be closed at any time; what it held never shows again.
CloseEditor ==
    /\ tkEditor.open /\ tkEditor' = Shut /\ tkEdited' = {}
    /\ UNCHANGED <<tkTasks, tkList, tkSave, tkSwitch, tkSpent>>

\* One save at a time; the payload is the form as it is now.
SaveTask ==
    /\ tkEditor.open /\ FormValid(tkEditor.form, tkEditor.preset)
    /\ tkSave = None
    /\ tkSave' = [of |-> tkEditor.of, stage |-> "sent", from |-> tkEditor.from, edited |-> tkEdited,
                  task |-> [timing |-> tkEditor.form.timing, enabled |-> tkEditor.form.enabled,
                            job |-> ScheduledJob(tkEditor.form, tkEditor.preset)]]
    /\ UNCHANGED <<tkTasks, tkList, tkEditor, tkEdited, tkSwitch, tkSpent>>

\* A switch asks for the opposite of what the list shows; a legacy task has
\* none.
SwitchTask(t) ==
    /\ TaskStep /\ ~tkEditor.open /\ tkSwitch = None
    /\ tkList[t] # None /\ tkList[t].job # None
    /\ tkSwitch' = [of |-> t, to |-> ~tkList[t].enabled, stage |-> "sent"]
    /\ UNCHANGED <<tkTasks, tkList, tkEditor, tkEdited, tkSave>>

----------------------------------------------------------------------------
\* The server, and another administrator

\* A save is stored whole, refused, or stored with its answer lost.
ServeTaskSave ==
    /\ tkSave # None /\ tkSave.stage = "sent"
    /\ \/ /\ \E t \in TaskIds :
              /\ IF tkSave.of = None THEN tkTasks[t] = None ELSE t = tkSave.of /\ tkTasks[t] # None
              /\ tkTasks' = [tkTasks EXCEPT ![t] = tkSave.task]
          /\ \E stage \in {"ok", "failed"} : tkSave' = [tkSave EXCEPT !.stage = stage]
       \/ /\ tkSave' = [tkSave EXCEPT !.stage = "failed"]
          /\ UNCHANGED tkTasks
    /\ UNCHANGED <<tkList, tkEditor, tkEdited, tkSwitch, tkSpent>>

\* A legacy task cannot be enabled.
ServeSwitch ==
    /\ tkSwitch # None /\ tkSwitch.stage = "sent"
    /\ LET t == tkSwitch.of IN
        \/ /\ tkTasks[t] # None /\ (tkTasks[t].job # None \/ ~tkSwitch.to)
           /\ tkTasks' = [tkTasks EXCEPT ![t].enabled = tkSwitch.to]
           /\ tkSwitch' = [tkSwitch EXCEPT !.stage = "ok"]
        \/ tkSwitch' = [tkSwitch EXCEPT !.stage = "failed"] /\ UNCHANGED tkTasks
    /\ UNCHANGED <<tkList, tkEditor, tkEdited, tkSave, tkSpent>>

\* Another administrator deletes a task, or replaces its job.
ChangeTaskElsewhere(t) ==
    /\ TaskStep /\ tkTasks[t] # None
    /\ tkTasks' = [tkTasks EXCEPT ![t] = IF tkTasks[t].job = None THEN [@ EXCEPT !.job = IndexJob(FALSE, FALSE, None)]
                                         ELSE None]
    /\ UNCHANGED <<tkList, tkEditor, tkEdited, tkSave, tkSwitch>>

----------------------------------------------------------------------------
\* The answers

\* A save that went through closes the editor, whichever task it is on by
\* then, and the list is read again.
AnswerTaskSave ==
    /\ tkSave # None /\ tkSave.stage # "sent"
    /\ IF tkSave.stage = "ok" THEN tkEditor' = Shut /\ tkEdited' = {} /\ tkList' = tkTasks
       ELSE UNCHANGED <<tkEditor, tkEdited, tkList>>
    /\ tkSave' = None
    /\ UNCHANGED <<tkTasks, tkSwitch, tkSpent>>

AnswerSwitch ==
    /\ tkSwitch # None /\ tkSwitch.stage # "sent"
    /\ tkList' = IF tkSwitch.stage = "ok" THEN tkTasks ELSE tkList
    /\ tkSwitch' = None
    /\ UNCHANGED <<tkTasks, tkEditor, tkEdited, tkSave, tkSpent>>

\* The window is looked at again.
ReadTasks ==
    /\ tkList # tkTasks /\ tkList' = tkTasks
    /\ UNCHANGED <<tkTasks, tkEditor, tkEdited, tkSave, tkSwitch, tkSpent>>

TkInit ==
    /\ tkTasks \in [TaskIds -> [timing : Timings, enabled : BOOLEAN, job : Jobs \union {None}] \union {None}]
    /\ \A t \in TaskIds : LegacyIsOff(tkTasks[t])
    /\ tkList = tkTasks
    /\ tkEditor = Shut /\ tkEdited = {}
    /\ tkSave = None /\ tkSwitch = None /\ tkSpent = 0

TkNext ==
    \/ OpenCreate \/ EditTask \/ ChoosePreset \/ CloseEditor \/ SaveTask
    \/ \E t \in TaskIds : OpenTask(t) \/ SwitchTask(t) \/ ChangeTaskElsewhere(t)
    \/ ServeTaskSave \/ ServeSwitch \/ AnswerTaskSave \/ AnswerSwitch \/ ReadTasks

TkSpec == TkInit /\ [][TkNext]_tkVars

----------------------------------------------------------------------------
\* What the editor of scheduled tasks keeps.

TaskRecords == [timing : Timings, enabled : BOOLEAN, job : Jobs \union {None}]

\* Types: tasks, the form and what is under way have the shapes of the code.
TkTypeOK ==
    /\ tkTasks \in [TaskIds -> TaskRecords \union {None}] /\ tkList \in [TaskIds -> TaskRecords \union {None}]
    /\ tkEditor.open \in BOOLEAN /\ tkEditor.of \in TaskIds \union {None} /\ tkEditor.preset \in JobPresets
    /\ tkEditor.form \in [timing : Timings \union {Bad}, enabled : BOOLEAN, metadata : Files \union {None, Bad},
                          database : Files \union {None, Bad}, limit : Limits \union {None, Bad}]
    /\ tkEdited \subseteq DOMAIN tkEditor.form \union {"preset"}
    /\ tkSave # None => tkSave.task \in TaskRecords
    /\ tkSwitch # None => tkSwitch.to \in BOOLEAN

IsIndex(job) == job.kind = "index"

\* A task saved from an editor keeps what the administrator left alone: its
\* timing, whether it is enabled, the steps of its job, and the file and the
\* limit of a job that stays of its kind.
Keeps(from, edited, to) ==
    /\ "timing" \notin edited => to.timing = from.timing
    /\ "enabled" \notin edited => to.enabled = from.enabled
    /\ from.job # None /\ "preset" \notin edited =>
         <<to.job.kind, to.job.notify, to.job.push>> = <<from.job.kind, from.job.notify, from.job.push>>
    /\ from.job # None /\ IsIndex(from.job) = IsIndex(to.job) =>
         /\ (IF IsIndex(to.job) THEN "metadata" ELSE "database") \notin edited => to.job.file = from.job.file
         /\ "limit" \notin edited => to.job.limit = from.job.limit

\* However presets are tried and left, editors closed and opened again,
\* saves answered late and tasks changed elsewhere: a save writes only what
\* was edited over what the editor was opened on, a switch changes nothing
\* but itself, and a legacy task is never on: replacing its command does
\* not start it (scheduled-tasks-card.tsx:1105, storage/scheduler/repository.go:196).
TasksKeepUnedited ==
    [][\A t \in TaskIds :
        tkTasks'[t] # tkTasks[t] /\ tkTasks'[t] # None =>
            /\ LegacyIsOff(tkTasks'[t])
            /\ \/ tkTasks[t] = None
               \/ tkSwitch # tkSwitch' /\ tkTasks'[t] = [tkTasks[t] EXCEPT !.enabled = tkSwitch.to]
               \/ tkSpent' # tkSpent
               \/ tkSave # tkSave' /\ Keeps(tkSave.from, tkSave.edited, tkTasks'[t])]_tkVars
=============================================================================
