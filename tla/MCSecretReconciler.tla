------------------------- MODULE MCSecretReconciler -------------------------
(***************************************************************************)
(* Instances of SecretReconciler for TLC.                                  *)
(***************************************************************************)
EXTENDS SecretReconciler

CONSTANTS s1, s2, apiKey, region, k1, k2

OneSecret  == {s1}
TwoSecrets == {s1, s2}

Sec(deleting, managed, key, reg) ==
  [deleting |-> deleting, managed |-> managed,
   data |-> [f \in Fields |-> IF f = apiKey THEN key ELSE reg]]

\* A managed Secret, the same rotated to another key (and without its second field),
\* without its label, emptied, and on its way out.
AllObjects ==
  {Sec(FALSE, TRUE, k1, k1), Sec(FALSE, TRUE, k2, EmptyValue), Sec(FALSE, FALSE, k1, k1),
   Sec(FALSE, TRUE, EmptyValue, NoField), Sec(TRUE, TRUE, k1, k1)}

FewObjects ==
  {Sec(FALSE, TRUE, k1, NoField), Sec(FALSE, FALSE, k1, NoField),
   Sec(FALSE, TRUE, NoField, NoField)}

TwoVersions  == [k \in Resources |-> 2]
FourVersions == [k \in Resources |-> 4]
=============================================================================
