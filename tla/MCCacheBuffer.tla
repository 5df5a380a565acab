--------------------------- MODULE MCCacheBuffer ---------------------------
(* Instances of CacheBuffer for TLC. *)
EXTENDS CacheBuffer
=============================================================================
