------------------------------ MODULE MCVault -------------------------------
(* Instances of Vault for TLC: which actors take part, and which faults.       *)
EXTENDS Vault

Everyone == AllActors

(* Nobody purges. *)
Keepers == AllActors \ {"purge"}

(* The actors that meet in the run about Reconcile. *)
Meeting == {"boot", "web", "backup"}

(* The two jobs that copy and meet at night, and the handlers of the day. *)
Nights == {"boot", "web", "backup", "backup_sweep"}

(* The weekly sweep alone. *)
Sweeping == {"boot", "backup_sweep"}

=============================================================================
