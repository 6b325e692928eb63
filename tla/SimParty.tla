------------------------------ MODULE SimParty ------------------------------
(* The simulation thread implements Party: the refinement mapping. *)
EXTENDS Sim

KeyOf(P) == {clients[p].key : p \in P}

Abstract == INSTANCE Party WITH
    members <- KeyOf(DOMAIN clients),
    host    <- KeyOf({hostPeerId} \cap DOMAIN clients),
    banned  <- bannedKeys,
    places  <- cfg.maxPlayers

(* Every step of the session is a step of Party or changes nothing of it:  *)
(* soft reconnects, second Hellos, duplicated or late closes, expiry,      *)
(* kicks and queries never let a banned or a second player in, never take  *)
(* the host's role from a host who is still there, and never leave the     *)
(* others without one (handle_pending_message, remove_client, find_host).  *)
ImplementsParty == Abstract!PartySpec
=============================================================================
