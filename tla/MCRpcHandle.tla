----------------------------- MODULE MCRpcHandle -----------------------------
(* One connection with two requests: r1 subscribes to any feed (MultiTxs  *)
(* or not, failing or not), r2 is any other method, unsubscribe of r1's   *)
(* subscription or of an unknown ID included.  n1 passes the tx filters, *)
(* n2 does not; a block has two onBlock calls / two txs.  Three           *)
(* notifications per subscription exceed the batch limit of two.         *)
EXTENDS RpcHandle, TLC

CONSTANTS r1, r2, n1, n2, j1, j2

Param(m, f, mu, e, t) == [method |-> m, feed |-> f, multi |-> mu, err |-> e, target |-> t]

(* Every feed plainly; MultiTxs on a tx feed and on another feed; one     *)
(* failing request (the other feeds fail the same way).                   *)
SubscribeParams ==
    {Param("subscribe", f, FALSE, FALSE, UnknownID) : f \in Feeds}
    \cup {Param("subscribe", f, TRUE, FALSE, UnknownID) : f \in {"newTxs", "onBlock"}}
    \cup {Param("subscribe", "newTxs", FALSE, TRUE, UnknownID)}

(* err matters only to unsubscribe and quota_usage.                        *)
OtherParams ==
    {Param("unsubscribe", "newTxs", FALSE, FALSE, t) : t \in {r1, UnknownID}}
    \cup {Param("unsubscribe", "newTxs", FALSE, TRUE, UnknownID)}
    \cup {Param(m, "newTxs", FALSE, FALSE, UnknownID) : m \in {"ping", "mev", "quota", "other"}}
    \cup {Param("quota", "newTxs", FALSE, TRUE, UnknownID)}

MCReqParams == (r1 :> SubscribeParams) @@ (r2 :> OtherParams)
MCRequests == {r1, r2}
MCItems == {n1, n2}
MCMatching == {n1}
MCJobs == {j1, j2}
=============================================================================
