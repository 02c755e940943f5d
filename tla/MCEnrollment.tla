---------------------------- MODULE MCEnrollment ----------------------------
(* Enrollment on a small instance: the daemon lab enrols, the bridge laptop *)
(* that targets it enrols, and the daemon old is listed in gateway.yaml.    *)
EXTENDS Enrollment

CONSTANTS t1, t2, r1, r2, r3, lab, laptop, old

MCTokens == {t1, t2}
MCReqs == {r1, r2, r3}
TwoReqs == {r1, r3}
MCDevices == {lab, laptop, old}
MCRole == [t \in MCTokens |-> IF t = t1 THEN "daemon" ELSE "bridge"]
MCDeviceOf == [t \in MCTokens |-> IF t = t1 THEN lab ELSE laptop]
MCTargetsOf == [t \in MCTokens |-> IF t = t1 THEN {} ELSE {lab}]
\* Two requests present the same token.
SharedToken == [r \in Reqs |-> IF r = r3 THEN t2 ELSE t1]
=============================================================================
