------------------------------ MODULE MCCommands ------------------------------
(* The command channel on small instances: see CommandRestarts.cfg and CommandDelivery.cfg. *)
EXTENDS CommandChannel
=============================================================================
