------------------------------ MODULE MCBrowser ------------------------------
(***************************************************************************)
(* TLC instance of Browser.                                                *)
(***************************************************************************)
EXTENDS Browser, TLC

CONSTANTS star, moon, b1, f1, f2, r1, r2, r3, k1, k2, k3, o1

MCUrls == {star, moon}
MCSecure == {star}
MCTyped == {[to |-> star, fallback |-> moon], [to |-> moon, fallback |-> None]}
MCPages == 1..MaxNavs
MCLoads == {b1}
MCLinked == {star}
MCPast == <<moon, star>>
MCFds == {f1, f2}
MCSymmetry == Permutations(MCFds)
MCRefs == {r1, r2, r3}
MCOrigins == {o1}
MCNames == {k1, k2, k3}
=============================================================================
