--------------------- MODULE MCExternalModelReconciler ---------------------
(***************************************************************************)
(* Instances of ExternalModelReconciler for TLC.                           *)
(***************************************************************************)
EXTENDS ExternalModelReconciler

CONSTANTS ns1, ns2, llama, claude, p1, p2, cred

\* One resource; two resources with different names; two with the same name.
OneModel   == {<<ns1, llama>>}
TwoModels  == {<<ns1, llama>>, <<ns2, claude>>}
SameName   == {<<ns1, llama>>, <<ns2, llama>>}

EM(d, p, c, n) ==
  [deleting |-> d, provider |-> p, credentialName |-> c, credentialNamespace |-> n]

\* A model whose credential is in its own namespace, the same model on its way out,
\* one with a credential elsewhere, one without a provider.
AllObjects ==
  {EM(FALSE, p1, cred, Unset), EM(TRUE, p1, cred, Unset),
   EM(FALSE, p2, cred, ns2), EM(FALSE, Unset, Unset, Unset)}

\* A model that only changes its provider and its credential.
FewObjects == {EM(FALSE, p1, cred, Unset), EM(FALSE, p2, cred, ns2)}

\* Every resource with as many versions; one with more than the other.
TwoVersions    == [k \in Resources |-> 2]
FourVersions   == [k \in Resources |-> 4]
UnevenVersions == [k \in Resources |-> IF k = <<ns1, llama>> THEN 3 ELSE 2]
=============================================================================
