--------------------------- MODULE WriteAheadLog ---------------------------
(***************************************************************************)
(* What the Guardian promises its callers (guardian.ts: "the decision does *)
(* not return until the WAL entry is durable"): an answer is given only    *)
(* for a decision that is already on record, a record is never changed or  *)
(* withdrawn, and each decision has one record.                            *)
(***************************************************************************)
CONSTANTS Ids,     \* identifiers of decisions
          Kinds    \* what a decision may say

VARIABLES recorded,   \* the decisions on record
          answered    \* the decisions callers have been told

Init == recorded = {} /\ answered = {}

Record(id, kind) ==
    /\ \A r \in recorded : r.id # id
    /\ recorded' = recorded \cup {[id |-> id, kind |-> kind]}
    /\ UNCHANGED answered

Answer(r) ==
    /\ answered' = answered \cup {r}
    /\ UNCHANGED recorded

Next ==
    \/ \E id \in Ids, kind \in Kinds : Record(id, kind)
    \/ \E r \in recorded : Answer(r)

Spec == Init /\ [][Next]_<<recorded, answered>>
=============================================================================
