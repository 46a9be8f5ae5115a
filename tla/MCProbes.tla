------------------------------ MODULE MCProbes ------------------------------
(***************************************************************************)
(* Small instances of the provider's clients for TLC.                      *)
(***************************************************************************)
EXTENDS Discovery, TLC

\* Every configuration of a task, and those of a probe
AllForms == {f \in ClientForm :
  f.client = "probe" =>
    f.stream = (f.kind = "coddy") /\ ~f.resumed /\ f.asked = "none" /\ f.mention = "no"}

EndpointSymmetry == Permutations(Endpoints)
=============================================================================
