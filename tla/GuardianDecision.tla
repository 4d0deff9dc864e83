-------------------------- MODULE GuardianDecision --------------------------
(***************************************************************************)
(* The Guardian's decision on one proposed action: the pure part of        *)
(* guardian/core, that is the consent check (consent.ts), the              *)
(* Non-Supremacy Axiom (non-supremacy.ts) and the Love Invariant           *)
(* (love-invariant.ts, epiplexity.ts, agency-envelope.ts), in the order    *)
(* guardian.ts asks them.                                                  *)
(*                                                                         *)
(* The request is JSON the handler only casts.  A number is an integer; a  *)
(* field that is missing, or not a number, is Undefined: it answers false  *)
(* to every comparison.  The cryptography of a consent token is reduced to *)
(* what it decides: whether the text parses and which key signed it.       *)
(***************************************************************************)
EXTENDS Integers

CONSTANT Undefined   \* a field that is not there

Dimensions == {"stopability", "authorship", "withdrawalCost", "drift"}

Bounds == [Dimensions -> Int]

\* An envelope measures the dimensions the caller gives.
Envelope == [Dimensions -> Int \cup {Undefined}]

ASSUME DecisionAssumption ==
    Undefined \notin Int /\ Undefined \notin Envelope

\* a < b: false when either is missing.
Less(a, b) == a # Undefined /\ b # Undefined /\ a < b

\* Stop-ability and authorship are better when higher, the other two when lower.
Better == {"stopability", "authorship"}

\* checkAgencyEnvelope: the dimensions out of bounds.
Violations(env, bounds) ==
    {d \in Dimensions : IF d \in Better THEN Less(env[d], bounds[d])
                                        ELSE Less(bounds[d], env[d])}

\* Seeded fault: the delta is not inverted on the dimensions where less is better.
WorseUninverted(post, counterfactual) ==
    {d \in Dimensions : Less(post[d], counterfactual[d])}

\* agencyDelta and isAgencyReducing: the dimensions on which the action leaves
\* less agency than doing nothing; the delta of a missing one is not below 0.
Worse(post, counterfactual) ==
    {d \in Dimensions : IF d \in Better THEN Less(post[d], counterfactual[d])
                                        ELSE Less(counterfactual[d], post[d])}

\* checkNonSupremacy answers "forbidden".
Forbidden(ctx) ==
    /\ ctx.counterfactual # Undefined
    /\ Less(ctx.counterfactualLove, ctx.loveScore)
    /\ Worse(ctx.envelope, ctx.counterfactual) # {}

\* checkAsymmetry: A = system/host within alpha; a host that models nothing of
\* the system makes the ratio exceed every alpha, a missing measurement makes it
\* NaN, which is within none.
WithinBound(ctx, alpha) ==
    /\ ctx.system # Undefined /\ Less(0, ctx.host)
    /\ ctx.system <= alpha * ctx.host

\* computeAsymmetry throws a RangeError on a negative epiplexity.
Measurable(ctx) == ~Less(ctx.system, 0) /\ ~Less(ctx.host, 0)

\* verifyConsent answers "valid": well formed, signed with the key, unused,
\* alive, short-lived, and bound to this action and this host.  Which refusal an
\* invalid one gets is left out.
ValidConsent(action, token, usedNonces, now, cfg) ==
    /\ token # Undefined
    /\ token.jws = "token"
    /\ token.key = cfg.key
    /\ token.nonce \notin usedNonces
    /\ token.exp > now
    /\ token.exp - token.iat <= cfg.maxAge
    /\ token.action = action.id
    /\ token.host = action.host

NeedsConsent(action) == action.class = "choice-architecture"

ConsentFails(action, ctx, usedNonces, now, cfg) ==
    NeedsConsent(action) /\ ~ValidConsent(action, ctx.token, usedNonces, now, cfg)

\* parseJws throws on a text that is missing or whose header is null.
ConsentThrows(action, ctx) ==
    NeedsConsent(action) /\ ctx.token # Undefined /\ ctx.token.jws = "throws"

\* evaluateLoveInvariant and decisionKindFromRegime.
LoveKind(ctx, cfg) ==
    IF cfg.alpha = Undefined THEN "INDETERMINATE"
    ELSE IF WithinBound(ctx, cfg.alpha) /\ Violations(ctx.envelope, cfg.bounds) = {}
         THEN "ALLOW" ELSE "DENY"

\* validateAction up to emit; "throws" is an error that reaches the caller: a
\* TypeError over a missing envelope or token text, or the RangeError.
Decision(action, ctx, cfg, usedNonces, now) ==
    IF ConsentThrows(action, ctx) THEN "throws"
    ELSE IF ConsentFails(action, ctx, usedNonces, now, cfg) THEN "DENY"
    ELSE IF ctx.envelope = Undefined THEN "throws"
    ELSE IF Forbidden(ctx) THEN "FORBID"
    ELSE IF cfg.alpha # Undefined /\ ~Measurable(ctx) THEN "throws"
    ELSE LoveKind(ctx, cfg)
=============================================================================
