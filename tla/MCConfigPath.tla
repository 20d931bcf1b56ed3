---------------------------- MODULE MCConfigPath ----------------------------
(* The instance of ConfigPath for TLC: one config of each kind. *)
EXTENDS ConfigPath, TLC

MCDesign == <<[id |-> MEM_CONFIG_ID, n |-> 1, size |-> 5, in |-> <<>>],
              [id |-> GENERIC_CONFIG_ID, n |-> 1, size |-> 2, in |-> <<7>>],
              [id |-> REPLAY_BUFFER_CONFIG_ID, n |-> 1, size |-> 4, in |-> <<>>],
              [id |-> STREAM_CONFIG_ID, n |-> 1, size |-> 2, in |-> <<>>]>>
=============================================================================
