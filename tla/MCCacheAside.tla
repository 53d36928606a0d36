------------------------------ MODULE MCCacheAside ------------------------------
(***************************************************************************)
(* CacheAside on small instances.                                          *)
(***************************************************************************)
EXTENDS CacheAside, TLC

CONSTANT a

MCReaders == {<<a, 1>>, <<a, 2>>}
=============================================================================
