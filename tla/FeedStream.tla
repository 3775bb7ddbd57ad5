----------------------------- MODULE FeedStream -----------------------------
(***************************************************************************)
(* What one subscription promises its client (spec 4.G "Subscription     *)
(* delivery loop" and 5 "Ordering"): the feed manager publishes          *)
(* notifications into the subscription's channel; the client receives,   *)
(* in notifies of at most Limit results each, the notifications its      *)
(* filter wants, strictly in the order they were published, never one    *)
(* twice and never one that was not published.  Delivery may stop at any *)
(* point (disconnect, unsubscribe), but it never skips a wanted one and  *)
(* goes on after it.                                                      *)
(***************************************************************************)
EXTENDS Sequences, SequencesExt

CONSTANTS
    Items,      \* notifications
    Limit       \* most results in one notify (50 in the code)

VARIABLES
    published,  \* notifications published to the subscription, in order
    delivered,  \* results the client received, in order
    wanted      \* the notifications the subscription's filter keeps

fsvars == <<published, delivered, wanted>>

Wanted == SelectSeq(published, LAMBDA n : n \in wanted)

Init ==
    /\ published = <<>>
    /\ delivered = <<>>
    /\ wanted \subseteq Items

Publish(n) ==
    /\ published' = Append(published, n)
    /\ UNCHANGED <<delivered, wanted>>

(* One notify carrying the next k wanted notifications.                   *)
Deliver(k) ==
    /\ Len(delivered) + k <= Len(Wanted)
    /\ delivered' = delivered \o SubSeq(Wanted, Len(delivered) + 1, Len(delivered) + k)
    /\ UNCHANGED <<published, wanted>>

Next ==
    \/ \E n \in Items : Publish(n)
    \/ \E k \in 1..Limit : Deliver(k)

Spec == Init /\ [][Next]_fsvars
=============================================================================
