--------------------------- MODULE MCCacheService ---------------------------
(* Small instances of CacheService for TLC. *)
EXTENDS CacheService
=============================================================================
