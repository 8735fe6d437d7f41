------------------------- MODULE SessionProperties -------------------------
(***************************************************************************)
(* What the documents of a browser may show, and what they keep.           *)
(***************************************************************************)
EXTENDS Session

TypeOK ==
    /\ live \subseteq Token /\ cookie \in Token \union {None}
    /\ rev \in [Users -> 0..MaxUpsets]
    /\ stored \in User \union {None} /\ storedWarn \in BOOLEAN
    /\ signal \in [Tabs -> 0..2]
    /\ shown \in [Tabs -> User \union {None}]
    /\ loading \in [Tabs -> BOOLEAN] /\ warn \in [Tabs -> BOOLEAN]
    /\ check \in [Tabs -> Check \union {None}]
    /\ call \in [Tabs -> [Slots -> Call \union {None}]]
    /\ cache \in [Tabs -> SUBSET Users]
    /\ fetch \in [Tabs -> Users \union {None}]
    /\ doubt \subseteq Token
    /\ logins \in 0..MaxSessions /\ upsets \in 0..MaxUpsets /\ kept \in BOOLEAN

----------------------------------------------------------------------------
\* Nothing a document has learnt is still to be told to the others.
Told ==
    /\ \A t \in Tabs : signal[t] = 0 /\ check[t] = None
    /\ \A t \in Tabs, s \in Slots :
        call[t][s] # None =>
            /\ call[t][s].state \in {"waiting", "sent"}
            /\ call[t][s].kind # "recoverRevoke"

\* Once the storage events, the checks and the answers are worked off, every
\* document that shows a user shows the account of the cookie, although
\* answers of several documents, of older sessions and of reloaded pages
\* arrive in any order (sessionGeneration, storage events, restoreSession).
IdentityAgrees ==
    Told => \A t \in Tabs :
                shown[t] # None => cookie # None /\ cookie.user = shown[t].id

\* If no answer was lost and no session ended on the server alone, they also
\* show it: no late answer signs a document out of a live session.
SignedInIsShown ==
    /\ Told /\ kept
    /\ \A t \in Tabs, s \in Slots : call[t][s] = None
    => \A t \in Tabs : cookie \in live => shown[t] # None

\* A private answer is kept, once things are worked off, only where its
\* account is shown: clearPrivateState on every change of identity reaches
\* what was cached and what was in flight.  This is about two documents: of
\* three that sign in, to a, b and a again, one may learn of a alone, late,
\* and keep what it read while the cookie was b's.
PrivateStaysHome ==
    Told => \A t \in Tabs :
                cache[t] \subseteq {u \in Users : shown[t] # None /\ shown[t].id = u}

\* The warning of an unconfirmed logout is shown in every document alike,
\* whichever of them wrote or cleared it.
WarningAgrees == Told => \A t \in Tabs : ShowsWarning(t) = storedWarn

----------------------------------------------------------------------------
\* docs/reference/api.md:183: a document that was told that the revocation is
\* unconfirmed warns until logout-all succeeds.  Any successful logout clears
\* the warning, and a logout without a cookie counts as successful.
UnconfirmedIsWarned == Told /\ doubt \intersect live # {} => storedWarn

----------------------------------------------------------------------------
\* Storage events are handled, identity checks are answered and continued.
\* Nobody need do anything, and no authentication call need be answered.
Restores(t) == HandleStorage(t) \/ ServeCheck(t) \/ FinishCheck(t)
Fairness == \A t \in Tabs : WF_vars(Restores(t))

FairSpec == Spec /\ Fairness

\* Documents do not answer each other's storage events forever: a restored
\* identity is written back, and what is written wakes the other documents.
Settles == <>[](\A t \in Tabs : signal[t] = 0 /\ check[t] = None)

=============================================================================
