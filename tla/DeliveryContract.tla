-------------------------- MODULE DeliveryContract --------------------------
(***************************************************************************)
(* What durable delivery promises about one article for one subscriber,    *)
(* whatever runs, owners and leases are behind it: a reservation may be    *)
(* dropped only while nothing can have been sent, a delivery happens under *)
(* a protecting row and never twice, a doubtful attempt stays doubtful,    *)
(* and only retention forgets.                                             *)
(***************************************************************************)
CONSTANTS Users, Articles,
          Sends    \* whether confirming needs an upstream delivery (notify)

VARIABLES state,   \* by user and article: what the dedupe row says
          sent     \* upstream deliveries since the row was last forgotten

cvars == <<state, sent>>

CInit ==
    /\ state = [u \in Users |-> [a \in Articles |-> "absent"]]
    /\ sent  = [u \in Users |-> [a \in Articles |-> 0]]

Becomes(u, a, status, count) ==
    /\ state'[u][a] = status
    /\ sent'[u][a] = count

Stay(u, a)    == Becomes(u, a, state[u][a], sent[u][a])
Hold(u, a)    == /\ state[u][a] = "absent"
                 /\ Becomes(u, a, "reserved", sent[u][a])
Drop(u, a)    == /\ state[u][a] = "reserved"
                 /\ sent[u][a] = 0
                 /\ Becomes(u, a, "absent", 0)
Deliver(u, a) == /\ Sends
                 /\ state[u][a] \in {"reserved", "unknown"}
                 /\ sent[u][a] = 0
                 /\ Becomes(u, a, state[u][a], 1)
Confirm(u, a) == /\ state[u][a] = "reserved"
                 /\ Sends => sent[u][a] = 1
                 /\ Becomes(u, a, "confirmed", sent[u][a])
Doubt(u, a)   == /\ state[u][a] = "reserved"
                 /\ Becomes(u, a, "unknown", sent[u][a])
Forget(u, a)  == /\ state[u][a] = "confirmed"
                 /\ Becomes(u, a, "absent", 0)

\* One database transaction or one message may move several articles.
CNext ==
    \A u \in Users, a \in Articles :
        \/ Stay(u, a) \/ Hold(u, a) \/ Drop(u, a) \/ Deliver(u, a)
        \/ Confirm(u, a) \/ Doubt(u, a) \/ Forget(u, a)

CSpec == CInit /\ [][CNext]_cvars

=============================================================================
