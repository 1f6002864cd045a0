---------------------------- MODULE MCCacheStore ----------------------------
(* Two runners and a cleaner over two plain entries of which the limit leaves *)
(* one; two runners over two versions of a bundle of two parts that share a   *)
(* part, so that a whole bundle is one entry more than the two of its limit.  *)
EXTENDS CacheStore

CONSTANTS obj, other, bun, d1, d2, d3, c1

MCBuilds == {[key |-> obj, parts |-> <<>>], [key |-> other, parts |-> <<>>],
             [key |-> bun, parts |-> <<d1, d2>>], [key |-> bun, parts |-> <<d1, d3>>]}
MCSetups == {[cleaners |-> {c1}, keys |-> {obj, other}, limit |-> 1],
             [cleaners |-> {}, keys |-> {bun}, limit |-> 2]}
=============================================================================
