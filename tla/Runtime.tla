------------------------------- MODULE Runtime -------------------------------
(***************************************************************************)
(* The runtime settings of the administrator centre: a draft over the last *)
(* settings read, and the save that merges it into what the server has by  *)
(* then.  Another administrator saves at any time.                         *)
(*                                                                         *)
(* Three settings stand for the kinds there are: the provider orders, a    *)
(* value that is read and written whole; a secret, which is never read     *)
(* back; and a pool of secrets, which is read as one reference per entry   *)
(* and written as entries to add and references to remove.  A reference is *)
(* an encryption of its entry: every read makes new ones.                  *)
(***************************************************************************)
EXTENDS Naturals, Sequences, FiniteSets, SequencesExt, Page

CONSTANTS
    Catalog,           \* the providers of the catalog, in its order
    Keys,              \* entries a pool may hold
    MaxRuntimeSteps    \* bound on edits, reads, saves and changes elsewhere

ASSUME RuntimeConstants ==
    /\ Catalog # <<>> /\ Catalog \in Seq(ToSet(Catalog))
    /\ IsInjective(Catalog) /\ None \notin ToSet(Catalog)
    /\ IsFiniteSet(Keys) /\ None \notin Keys /\ MaxRuntimeSteps \in Nat

VARIABLES
    rtStored,   \* the settings of the server
    rtCache,    \* the settings as last read, with the age of the references
    rtDraft,    \* what the administrator changed since
    rtSave,     \* the save under way, or None
    rtOpen,     \* the card is mounted
    rtTouched,  \* the settings edited in this draft
    rtSteps     \* what MaxRuntimeSteps bounds

rtVars == <<rtStored, rtCache, rtDraft, rtSave, rtOpen, rtTouched, rtSteps>>

RuntimeStep == rtSteps < MaxRuntimeSteps /\ rtSteps' = rtSteps + 1

Providers == ToSet(Catalog)

\* The secret: empty when there is none.
SecretValues == {"", "key", "other key"}

ASSUME NoneIsNoSecret == None \notin SecretValues \union {"null"}

Untouched == [orders |-> None, secret |-> None, clear |-> {}, add |-> {}, marked |-> {}]

\* A read: the secrets only as being there, with references of their own.
Projected(stored, age) ==
    [orders |-> stored.orders, hasSecret |-> stored.secret # "", items |-> stored.pool, age |-> age]

RtInit ==
    /\ rtStored \in [orders : {[default |-> <<p>>, own |-> None] : p \in Providers},
                     secret : {"key"}, pool : SUBSET Keys]
    /\ rtCache = Projected(rtStored, 0)
    /\ rtDraft = Untouched /\ rtSave = None /\ rtOpen = TRUE /\ rtTouched = {} /\ rtSteps = 0

----------------------------------------------------------------------------
\* Provider orders

\* A provider is offered where the order does not have it yet; the first
\* such provider of the catalog is added.
MoveProvider(order, i, j) == [order EXCEPT ![i] = order[j], ![j] = order[i]]
Available(order) == Providers \ ToSet(order)
FirstAvailable(order) ==
    CHOOSE p \in Available(order) :
        \E i \in DOMAIN Catalog : Catalog[i] = p /\ \A k \in 1..(i - 1) : Catalog[k] \notin Available(order)

Reordered(order) ==
    {MoveProvider(order, i, i + 1) : i \in 1..(Len(order) - 1)}
        \union {RemoveAt(order, i) : i \in DOMAIN order}
        \union {[order EXCEPT ![i] = p] : i \in DOMAIN order, p \in Available(order)}
        \union (IF Available(order) = {} THEN {} ELSE {Append(order, FirstAvailable(order))})

\* The default order is disabled when it is empty and enabled again with the
\* first provider.
DefaultOrders(order) == IF order = <<>> THEN {<<Head(Catalog)>>} ELSE Reordered(order) \union {<<>>}

\* The order of one catalog inherits the default one, or is a copy of it
\* that is then edited, disabled and enabled.
OwnOrders(own, default) ==
    CASE own = None -> {default}
      [] own = <<>> -> {None, IF default = <<>> THEN <<Head(Catalog)>> ELSE default}
      [] OTHER      -> Reordered(own) \union {None, <<>>}

\* The editor writes the whole value with one of the two orders replaced.
EditedOrders(orders) ==
    {[orders EXCEPT !.default = order] : order \in DefaultOrders(orders.default)}
        \union {[orders EXCEPT !.own = order] : order \in OwnOrders(orders.own, orders.default)}

----------------------------------------------------------------------------
\* The draft.  The fields are disabled while a save is under way.

Editable == rtOpen /\ rtSave = None

ShownOrders == IF rtDraft.orders = None THEN rtCache.orders ELSE rtDraft.orders
ToRemove(k) == <<k, rtCache.age>> \in rtDraft.marked

Draft(draft, field) ==
    /\ Editable /\ RuntimeStep
    /\ rtDraft' = draft /\ rtTouched' = rtTouched \union {field}
    /\ UNCHANGED <<rtStored, rtCache, rtSave, rtOpen>>

EditOrders == \E orders \in EditedOrders(ShownOrders) : Draft([rtDraft EXCEPT !.orders = orders], "orders")

\* Typing a secret takes back that it is to be cleared.
TypeSecret ==
    \E v \in SecretValues :
        Draft([rtDraft EXCEPT !.secret = v, !.clear = @ \ {"secret"}], "secret")

ToggleSecretClear(field) ==
    /\ IF field = "secret" THEN rtCache.hasSecret ELSE rtCache.items # {}
    /\ Draft([rtDraft EXCEPT !.clear = IF field \in @ THEN @ \ {field} ELSE @ \union {field}], field)

TypeAddition ==
    /\ "pool" \notin rtDraft.clear
    /\ \E add \in SUBSET Keys : Draft([rtDraft EXCEPT !.add = add], "pool")

ToggleRemoval(k) ==
    /\ k \in rtCache.items /\ "pool" \notin rtDraft.clear
    /\ Draft([rtDraft EXCEPT !.marked = IF ToRemove(k) THEN @ \ {<<k, rtCache.age>>}
                                                  ELSE @ \union {<<k, rtCache.age>>}], "pool")

----------------------------------------------------------------------------
\* Saving

\* Only what was edited is sent: null for a secret to clear, and the
\* additions and removals of a pool unless it is cleared.
Payload ==
    [orders |-> rtDraft.orders,
     secret |-> IF "secret" \in rtDraft.clear THEN "null" ELSE rtDraft.secret,
     clear  |-> "pool" \in rtDraft.clear,
     add    |-> IF "pool" \in rtDraft.clear THEN {} ELSE rtDraft.add,
     remove |-> IF "pool" \in rtDraft.clear THEN {} ELSE {m[1] : m \in rtDraft.marked}]

SaveRuntime ==
    /\ Editable /\ RuntimeStep
    /\ rtSave' = [stage |-> "sent", sent |-> Payload, of |-> rtTouched, back |-> None, ours |-> TRUE]
    /\ UNCHANGED <<rtStored, rtCache, rtDraft, rtOpen, rtTouched>>

\* Seeded fault: the whole form is written.
MergedWhole(stored, sent) ==
    [orders |-> IF sent.orders = None THEN rtCache.orders ELSE sent.orders,
     secret |-> stored.secret, pool |-> stored.pool]

\* The server's merge.  A secret sent blank stays as it is.
Merged(stored, sent) ==
    [orders |-> IF sent.orders = None THEN stored.orders ELSE sent.orders,
     secret |-> CASE sent.secret = "null" -> ""
                  [] sent.secret \in {None, ""} -> stored.secret
                  [] OTHER -> sent.secret,
     pool   |-> IF sent.clear THEN {} ELSE (stored.pool \ sent.remove) \union sent.add]

\* One transaction: a reference whose entry is no longer in the pool refuses
\* the whole save.  An answer may be lost, and a valid save may fail.
ServeRuntime ==
    /\ rtSave # None /\ rtSave.stage = "sent"
    /\ \/ /\ rtSave' = [rtSave EXCEPT !.stage = "failed"] /\ UNCHANGED rtStored
       \/ /\ rtSave.sent.remove \subseteq rtStored.pool
          /\ rtStored' = Merged(rtStored, rtSave.sent)
          /\ \/ rtSave' = [rtSave EXCEPT !.stage = "done", !.back = rtStored']
             \/ rtSave' = [rtSave EXCEPT !.stage = "failed"]
    /\ UNCHANGED <<rtCache, rtDraft, rtOpen, rtTouched, rtSteps>>

\* A save that went through empties the draft and puts its answer in the
\* cache, to be read again; one that failed leaves the draft.
AnswerRuntime ==
    /\ rtSave # None /\ rtSave.stage \in {"done", "failed"} /\ rtSave' = None
    /\ IF rtSave.stage = "failed" THEN UNCHANGED <<rtCache, rtDraft, rtTouched>>
       ELSE /\ rtCache' = Projected(rtSave.back, rtCache.age + 1)
            /\ IF rtSave.ours THEN rtDraft' = Untouched /\ rtTouched' = {}
               ELSE UNCHANGED <<rtDraft, rtTouched>>
    /\ UNCHANGED <<rtStored, rtOpen, rtSteps>>

----------------------------------------------------------------------------
\* The settings are read when the card is shown, looked at again or saved.
ReadRuntime ==
    /\ rtOpen /\ RuntimeStep
    /\ rtCache' = Projected(rtStored, rtCache.age + 1)
    /\ UNCHANGED <<rtStored, rtDraft, rtSave, rtOpen, rtTouched>>

\* Closing the centre gives the draft up and asks nothing.
LeaveRuntime ==
    /\ rtOpen /\ RuntimeStep /\ rtOpen' = FALSE
    /\ rtDraft' = Untouched /\ rtTouched' = {}
    /\ rtSave' = IF rtSave = None THEN None ELSE [rtSave EXCEPT !.ours = FALSE]
    /\ UNCHANGED <<rtStored, rtCache>>

\* A card that is opened again shows the cached settings until it has read.
ReturnRuntime ==
    /\ ~rtOpen /\ rtOpen' = TRUE
    /\ UNCHANGED <<rtStored, rtCache, rtDraft, rtSave, rtTouched, rtSteps>>

\* Another administrator saves.
OthersSave ==
    /\ RuntimeStep
    /\ \/ \E orders \in EditedOrders(rtStored.orders) : rtStored' = [rtStored EXCEPT !.orders = orders]
       \/ \E pool \in SUBSET Keys \ {rtStored.pool} : rtStored' = [rtStored EXCEPT !.pool = pool]
    /\ UNCHANGED <<rtCache, rtDraft, rtSave, rtOpen, rtTouched>>

RtNext ==
    \/ EditOrders \/ TypeSecret \/ TypeAddition \/ SaveRuntime \/ ServeRuntime \/ AnswerRuntime
    \/ \E field \in {"secret", "pool"} : ToggleSecretClear(field)
    \/ \E k \in Keys : ToggleRemoval(k)
    \/ ReadRuntime \/ LeaveRuntime \/ ReturnRuntime \/ OthersSave

RtSpec == RtInit /\ [][RtNext]_rtVars

----------------------------------------------------------------------------
\* What the runtime settings keep true.

Orders == [default : Seq(Providers), own : Seq(Providers) \union {None}]
SettingsStored == [orders : Orders, secret : SecretValues, pool : SUBSET Keys]

\* An order the editor or the server holds names no provider twice.
OrderedOnce(orders) ==
    IsInjective(orders.default) /\ (orders.own # None => IsInjective(orders.own))

\* Types: settings, draft and save have the shapes of the code, and whatever
\* was reordered, inherited, disabled and enabled, no order names a provider
\* twice.
RtTypeOK ==
    /\ rtStored \in SettingsStored /\ OrderedOnce(rtStored.orders)
    /\ rtCache.orders \in Orders /\ rtCache.hasSecret \in BOOLEAN /\ rtCache.items \subseteq Keys
    /\ OrderedOnce(ShownOrders)
    /\ rtDraft.secret \in SecretValues \union {None} /\ rtDraft.clear \subseteq {"secret", "pool"}
    /\ rtDraft.add \subseteq Keys /\ \A m \in rtDraft.marked : m[1] \in Keys /\ m[2] <= rtCache.age
    /\ rtSave # None => rtSave.stage \in {"sent", "done", "failed"}
    /\ rtTouched \subseteq {"orders", "secret", "pool"} /\ rtOpen \in BOOLEAN

\* A save changes what its draft changed and nothing else, although the draft
\* was begun on settings another administrator has changed since: settings
\* not edited stay as they are, and a pool loses only entries that were
\* marked, unless it was cleared.
SavesTouchOnlyEdits ==
    [][ServeRuntime =>
        /\ \A f \in {"orders", "secret", "pool"} : rtStored'[f] # rtStored[f] => f \in rtSave.of
        /\ ~rtSave.sent.clear => rtStored.pool \ rtStored'.pool \subseteq rtSave.sent.remove]_rtVars
=============================================================================
