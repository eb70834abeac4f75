---------------------------- MODULE MCEntryPoints ----------------------------
(***************************************************************************)
(* EntryPoints instantiated for TLC.  Three size classes (16, 32, 64;     *)
(* requests of 64 bytes and more are huge), so that css_memalign's         *)
(* widened request and css_calloc's product land in other classes than    *)
(* the plain request, and css_realloc moves objects between classes.      *)
(***************************************************************************)
EXTENDS EntryPoints

\* hash(CSI): every CSI lands on entry 0.
MCHash(c) == 0
=============================================================================
