----------------------------- MODULE MCIntakeCase -----------------------------
(* Instances of IntakeCase for TLC. *)
EXTENDS IntakeCase, TLC

CONSTANTS r1, r2, s1, s2, s3

Names == (r1 :> s1) @@ (r2 :> s2)

\* s3 was made from both requests.
Sources == (s1 :> {r1}) @@ (s2 :> {r2}) @@ (s3 :> {r1, r2})

\* One request with two specs, or both requests and only one of three specs.
Beginnings == {{r1, s1, s3}, {r1, r2, s1}}

\* Calls meet on the second request and on the shared spec.
Few == [upload |-> {r1}, form |-> {r2}, text |-> {r2}, put |-> {s3}, patch |-> {s3},
        archive |-> {r1, r2}]
===============================================================================
