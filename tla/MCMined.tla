------------------------------- MODULE MCMined -------------------------------
(***************************************************************************)
(* Two branches over the genesis block g: a, and b with c on top of it.    *)
(***************************************************************************)
EXTENDS MinedStatus, TLC

CONSTANTS g, a, b, c, t1, t2

MCParent == (a :> g) @@ (b :> g) @@ (c :> b)
MCChain == (g :> {g}) @@ (a :> {g, a}) @@ (b :> {g, b}) @@ (c :> {g, b, c})

\* b comes from a peer that sorts first, so it replaces a at the same work.
MCPeer == (g :> 0) @@ (a :> 2) @@ (b :> 1) @@ (c :> 1)

\* c mines what a has mined on the other branch
MCTxsOf == (g :> {}) @@ (a :> {t1}) @@ (b :> {t2}) @@ (c :> {t1})

\* c mines again what b has mined below it
MCTxsRepeat == (g :> {}) @@ (a :> {t1}) @@ (b :> {t2}) @@ (c :> {t2})
=============================================================================
