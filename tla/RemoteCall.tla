----------------------------- MODULE RemoteCall -----------------------------
(***************************************************************************)
(* What a remote call promises its caller in rpc-protocol.ts: it runs at   *)
(* most once, is answered only by its run, and is settled at most once.  It *)
(* may be rejected at any time, before, during or after its run.           *)
(***************************************************************************)
EXTENDS Naturals

CONSTANT Calls

VARIABLES promise, ran   \* what the caller holds, and how often the service ran

Init == promise = [c \in Calls |-> "unmade"] /\ ran = [c \in Calls |-> 0]

Make(c) ==
    /\ promise[c] = "unmade"
    /\ promise' = [promise EXCEPT ![c] = "open"] /\ UNCHANGED ran

Run(c) ==
    /\ promise[c] # "unmade" /\ ran[c] = 0
    /\ ran' = [ran EXCEPT ![c] = 1] /\ UNCHANGED promise

Answer(c) ==
    /\ promise[c] = "open" /\ ran[c] = 1
    /\ promise' = [promise EXCEPT ![c] = "answered"] /\ UNCHANGED ran

\* A channel that closes rejects all it carries.
RejectAll(S) ==
    /\ \A c \in S : promise[c] \in {"unmade", "open"}
    /\ promise' = [c \in Calls |-> IF c \in S THEN "rejected" ELSE promise[c]]
    /\ UNCHANGED ran

Next ==
    \/ \E c \in Calls : Make(c) \/ Run(c) \/ Answer(c)
    \/ \E S \in SUBSET Calls : RejectAll(S)

Spec == Init /\ [][Next]_<<promise, ran>>
=============================================================================
