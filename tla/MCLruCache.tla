----------------------------- MODULE MCLruCache -----------------------------
(* Three keys for a cache of two entries, so that every put beyond the     *)
(* second evicts.  An entry replaced by put is freed before the new one is *)
(* allocated, so as many addresses as entries are enough; one more lets an *)
(* address be reused late.                                                 *)
EXTENDS LruCache
=============================================================================
