---------------------------- MODULE MCRemoteFree ----------------------------
(***************************************************************************)
(* RemoteFree for TLC.  MCRemoteFree.cfg: two producers, the owner as the  *)
(* only consumer and three objects, remote frees unbounded, so an object   *)
(* is popped, handed out again and pushed again while others are on the   *)
(* stack.                                                                  *)
(* MCRemoteFreeShared.cfg: a second consumer on the same manager, as when  *)
(* a thread whose first call is css_calloc or css_memalign uses manager 0. *)
(***************************************************************************)
EXTENDS RemoteFree

=============================================================================
