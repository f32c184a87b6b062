------------------------------ MODULE MCIdentity ------------------------------
(* Instances of Identity for TLC: a gateway that verifies all it can, one  *)
(* for local use, and one that only knows a secret.                        *)
EXTENDS Identity

Config(secret, checked, demo) ==
  [secret |-> secret, issuer |-> checked, audience |-> checked, demo |-> demo]

ThreeConfigurations == {Config(TRUE, TRUE, FALSE), Config(FALSE, FALSE, TRUE), Config(TRUE, FALSE, TRUE)}

Made(defect, life, delay, dated) ==
  [defect |-> defect, life |-> life, delay |-> delay, dated |-> dated]

ManyShapes ==
  {Made("none", 2, Absent, TRUE), Made("none", 2, 1, TRUE), Made("none", 4, Absent, FALSE),
   Made("none", 5, 0, FALSE), Made("none", Absent, Absent, TRUE),
   Made("signature", 2, Absent, TRUE), Made("issuer", 4, Absent, FALSE)}
=============================================================================
