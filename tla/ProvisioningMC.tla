---------------------------- MODULE ProvisioningMC ----------------------------
(* Instances of Provisioning for model checking. *)
EXTENDS Provisioning, TLC

CONSTANTS p1, p2, u1, u2, b1

\* u1 signs up without a role and may be given one; u2 has had one always.
SignUps == u1 :> {"unset", "staff", "beneficiary"} @@ u2 :> {"sponsor"}
=============================================================================
