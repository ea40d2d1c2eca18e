---------------------------- MODULE MCEntryLifecycle ----------------------------
(* Entry set-up with up to three upsets, and two reloads that wait. *)
EXTENDS EntryLifecycle
=============================================================================
