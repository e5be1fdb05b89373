---------------------------- MODULE MCInitConfig ----------------------------
(* The default proportions at a small scale, and a builder that may make    *)
(* the ring smaller, so that default buffers do not fit it, and the buffers *)
(* larger or smaller than the default ones.                                 *)
EXTENDS InitConfig

MCDefault ==
  [global_capacity |-> 50, flush_threshold |-> 10, cleanup_threshold |-> 90,
   cleanup_bottom_threshold |-> 70, thread_flush_attempt_threshold |-> 1,
   thread_flush_threshold |-> 4, file_sender |-> 1]

MCChoice ==
  [global_capacity |-> {20}, thread_flush_attempt_threshold |-> {5},
   thread_flush_threshold |-> {1}, file_sender |-> {0}]
=============================================================================
