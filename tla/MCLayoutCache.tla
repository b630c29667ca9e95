---------------------------- MODULE MCLayoutCache ----------------------------
(* Two threads, three cacheable keys for the two entries of the cache, so  *)
(* that a call may evict what another has just read or is laying out, and  *)
(* a key that bypasses the cache.  One piece per entry, one per thread and *)
(* a lost one are all that is ever allocated at a time.                    *)
EXTENDS LayoutCache
=============================================================================
