----------------------------- MODULE MCChannel -----------------------------
(* Channel on a small instance: two bridge connections to one daemon. *)
EXTENDS Channel
CONSTANTS c1, c2
Both == {c1, c2}
\* Every mode, with and without an allowlist, both clients or one using e2e.
AllConfigs ==
    {g \in [mode : {"disabled", "optional", "required"}, allowed : {{}, {c1}, Both},
            e2e : {{c1}, Both}] : g.mode = "required" => g.allowed # {}}
\* What enrolment sets up: an optional daemon, and bridges that require e2e.
Enrolled == {[mode |-> "optional", allowed |-> {}, e2e |-> Both]}
=============================================================================
