------------------------------ MODULE StateMap ------------------------------
(***************************************************************************)
(* What the clients of one device may expect of the state file they share: *)
(* a map with one record per client (per output directory and repository). *)
(*                                                                         *)
(* As long as nothing has disturbed it, only its owner changes a record,   *)
(* and no record is lost.  Once it has been disturbed, records may be lost *)
(* or fall back to what their owner recorded at some time; none is ever    *)
(* made up, and none passes from one client to another.                    *)
(***************************************************************************)
CONSTANTS Clients, Records, NoRecord

VARIABLES
    map,        \* the record of every client
    past,       \* what every client has recorded at some time
    disturbed

vars == <<map, past, disturbed>>

Maps == [Clients -> Records \cup {NoRecord}]

Init ==
    /\ map = [c \in Clients |-> NoRecord]
    /\ past = [c \in Clients |-> {NoRecord}]
    /\ disturbed = FALSE

Remember(c, r) == past' = [past EXCEPT ![c] = @ \cup {r}]

Set(c, r) ==
    /\ map' = [map EXCEPT ![c] = r]
    /\ Remember(c, r)
    /\ UNCHANGED disturbed

Disturb ==
    /\ disturbed' = TRUE
    /\ past' = past \/ \E c \in Clients, r \in Records : Remember(c, r)
    /\ map' \in {f \in Maps : \A c \in Clients : f[c] \in past'[c]}

Next == (\E c \in Clients, r \in Records : Set(c, r)) \/ Disturb

Spec == Init /\ [][Next]_vars
=============================================================================
