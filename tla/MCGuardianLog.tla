--------------------------- MODULE MCGuardianLog ---------------------------
(* GuardianLog for TLC: margins of 2, small bounds, and requests that reach  *)
(* every branch of the decision, with complete and incomplete measurements.  *)
EXTENDS GuardianLog, TLC

Symmetry == Permutations(Invocations)

Even(n) == [d \in Dimensions |-> n]

Drift(n) == [Even(1) EXCEPT !["drift"] = n]

Calibrated == [alpha |-> 2, bounds |-> Even(1), maxAge |-> 2, key |-> "k1"]

\* Uncalibrated, with other bounds, another key and a shorter life for tokens.
Rotated == [alpha |-> Undefined, bounds |-> Drift(2), maxAge |-> 1, key |-> "k2"]

Alone == {Calibrated}
Both == {Calibrated, Rotated}

Ordinary == [id |-> "a1", class |-> "ordinary", host |-> "h1"]
Choice == [id |-> "a2", class |-> "choice-architecture", host |-> "h1"]

Plain == [system |-> 2, host |-> 1, envelope |-> Even(1), counterfactual |-> Undefined,
          loveScore |-> Undefined, counterfactualLove |-> Undefined, token |-> Undefined]

\* A token for Choice that lives from iat to exp.
Consent(key, iat, exp) == [jws |-> "token", key |-> key, nonce |-> "n1",
                           iat |-> iat, exp |-> exp, action |-> "a2", host |-> "h1"]

\* Consent, with stop-ability not measured.
Consented == [action |-> Choice,
              ctx |-> [Plain EXCEPT !.token = Consent("k1", 1, 3),
                                    !.envelope["stopability"] = Undefined]]

\* The issuer's clock is ahead: good for the other key.
Ahead == [action |-> Choice, ctx |-> [Plain EXCEPT !.token = Consent("k2", 3, 4)]]

\* A token whose text breaks the parser.
Broken == [action |-> Choice,
           ctx |-> [Plain EXCEPT !.token = [Consent("k1", 1, 3) EXCEPT !.jws = "throws"]]]

\* More loving by the system's score, and more drift than doing nothing.
Imposed == [action |-> Ordinary,
            ctx |-> [Plain EXCEPT !.loveScore = 2, !.counterfactualLove = 1,
                                  !.counterfactual = Drift(0)]]

ServiceRequests == {Consented, Ahead, Broken, Imposed}
=============================================================================
