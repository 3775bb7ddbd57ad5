------------------------------ MODULE RpcHandle ------------------------------
(***************************************************************************)
(* handlerObj.Handle of src/servers/clienthandler.go for the methods     *)
(* other than blxr_tx / blxr_batch_tx (those are TxSubmission): one      *)
(* websocket connection whose requests each run in their own goroutine.  *)
(* A subscribe request registers a subscription with the feed manager,   *)
(* replies its ID and then stays in its delivery loop: single            *)
(* notifications, MultiTxs batches (subscribeMultiTxs), or the per-block *)
(* fan-outs of txReceipts (errgroup) and onBlock (WaitGroup).  An         *)
(* unsubscribe request may end another request's subscription while its  *)
(* loop runs; the client may disconnect at any point.                    *)
(*                                                                         *)
(* The feed manager (outside src/) is the environment: it publishes into *)
(* a subscription's channel, may post on its error channel, and its       *)
(* Unsubscribe removes the subscription and closes the channel.  A        *)
(* request's subscription is identified with the request.                *)
(***************************************************************************)
EXTENDS Naturals, Sequences, SequencesExt, FiniteSets

CONSTANTS
    Requests,       \* the requests of the connection (each a goroutine)
    ReqParams,      \* ReqParams[r]: the parameter records r may carry
    Items,          \* notifications the feed manager publishes
    Matching,       \* the tx notifications the subscription filters keep
    Jobs,           \* onBlock calls / txs of a block: one goroutine each
    NoJob,
    UnknownID,      \* a subscription ID no subscription has
    Limit,          \* the MultiTxs batch limit (50 in the code)
    MaxPub,         \* most notifications published to one subscription
    Preconfigured   \* networkNum is Ropsten, Goerli or Mainnet

TxFeeds == {"newTxs", "pendingTxs"}
BlockFeeds == {"bdnBlocks", "newBlocks"}
FanOutFeeds == {"txReceipts", "onBlock"}
Feeds == TxFeeds \cup BlockFeeds \cup FanOutFeeds

Params == [method : {"subscribe", "unsubscribe", "ping", "mev", "quota", "other"},
           feed : Feeds, multi : BOOLEAN, err : BOOLEAN,
           target : Requests \cup {UnknownID}]

ASSUME /\ \A r \in Requests : ReqParams[r] \subseteq Params
       /\ Matching \subseteq Items
       /\ Limit \in Nat \ {0}

VARIABLES
    pc,           \* pc[r]: where r's Handle goroutine is
    prm,          \* prm[r]: r's method and parameters
    resp,         \* resp[r]: JSON-RPC responses (results, errors) sent for r
    subs,         \* subscriptions the feed manager holds
    closed,       \* subscriptions whose feed channel is closed
    errMsg,       \* subscriptions the feed manager posted an error for
    chan,         \* chan[s]: the notifications buffered in s's feed channel
    published,    \* published[s]: every notification published to s
    notes,        \* notes[s]: the results of each notify sent for s
    batch,        \* batch[r]: the MultiTxs batch being collected
    work,         \* work[r]: fan-out goroutines of the current block
    active,       \* active[r]: r's onBlock calls still active
    failed,       \* failed[r]: a txReceipts goroutine returned an error
    blk,          \* blk[r]: blocks r's fan-out loop has taken
    events,       \* events[s]: onBlock / txReceipts notifies for s
    disconnected  \* the client connection is gone

vars == <<pc, prm, resp, subs, closed, errMsg, chan, published, notes, batch,
          work, active, failed, blk, events, disconnected>>

Event == [kind : {"result", "disabled", "completed", "receipt"},
          job : Jobs \cup {NoJob}, blk : 1..MaxPub]

TypeOK ==
    /\ pc \in [Requests -> {"handle", "loop", "multi", "drain", "flush",
                            "fanout", "done"}]
    /\ prm \in [Requests -> Params]
    /\ subs \subseteq Requests /\ closed \subseteq Requests
    /\ subs \cap closed = {}
    /\ chan \in [Requests -> Seq(Items)]
    /\ notes \in [Requests -> Seq(Seq(Items))]
    /\ \A s \in Requests : \A i \in DOMAIN notes[s] : 1 <= Len(notes[s][i])
    /\ work \in [Requests -> SUBSET Jobs] /\ active \in [Requests -> SUBSET Jobs]
    /\ events \in [Requests -> Seq(Event)]

-----------------------------------------------------------------------------
(* Helpers *)

(* A reply or SendErrorMsg: on a broken connection the write fails and    *)
(* nothing reaches the client.                                            *)
Reply(r, k) == resp' = [resp EXCEPT ![r] = @ + (IF disconnected THEN 0 ELSE k)]

(* FeedManager.Unsubscribe (outside src/): removes the subscription and   *)
(* closes its feed channel; an unknown ID is an error and changes nothing. *)
FeedManagerUnsubscribe(s) ==
    /\ subs' = subs \ {s}
    /\ closed' = closed \cup (subs \cap {s})

(* The notifications the subscription keeps: sendTxNotification and       *)
(* filterAndInclude drop what the filter rejects; block feeds send all.  *)
Wanted(s) == IF prm[s].feed \in TxFeeds THEN Matching ELSE Items

(* Mutant of Return: the subscription is not released when Handle        *)
(* returns (the defer is missing).                                         *)
ReturnNoUnsubscribe(r) ==
    /\ pc' = [pc EXCEPT ![r] = "done"]
    /\ UNCHANGED <<subs, closed>>

(* Handle returns: the deferred FeedManager.Unsubscribe runs.             *)
Return(r) ==
    /\ pc' = [pc EXCEPT ![r] = "done"]
    /\ FeedManagerUnsubscribe(r)

(* The feeds a gateway without node websocket providers may serve.        *)
NoProviderFeeds == {"newTxs", "bdnBlocks"} \cup (IF Preconfigured THEN {"newBlocks"} ELSE {})

-----------------------------------------------------------------------------
(* subscribe, up to its delivery loop.  err stands for createClientReq or  *)
(* FeedManager.Subscribe failing: both answer InvalidParams and return.   *)
SubscribeStart(r) ==
    /\ pc[r] = "handle" /\ prm[r].method = "subscribe"
    /\ LET p == prm[r] IN
       \E providers \in BOOLEAN : \* len(nodeWSManager.Providers()) > 0
          \/ /\ \/ p.err
                \/ ~providers /\ p.feed \notin NoProviderFeeds
             /\ Reply(r, 1)
             /\ pc' = [pc EXCEPT ![r] = "done"]
             /\ UNCHANGED <<subs, closed>>
          \/ /\ ~p.err /\ (providers \/ p.feed \in NoProviderFeeds)
             /\ IF disconnected \/ (p.multi /\ p.feed \notin TxFeeds)
                \* the reply fails (its SendErrorMsg too), or MultiTxs is asked
                \* of another feed: an error after the ID reply; then return
                THEN /\ Reply(r, 2)
                     /\ pc' = [pc EXCEPT ![r] = "done"]
                     /\ closed' = closed \cup {r}
                     /\ UNCHANGED subs
                ELSE /\ Reply(r, 1)
                     /\ subs' = subs \cup {r}
                     /\ pc' = [pc EXCEPT ![r] = IF p.multi THEN "multi" ELSE "loop"]
                     /\ UNCHANGED closed
    /\ UNCHANGED <<prm, errMsg, chan, published, notes, batch, work, active,
                   failed, blk, events, disconnected>>

-----------------------------------------------------------------------------
(* The delivery loop: a select over disconnect, the error channel and the *)
(* feed channel.  Go picks among the ready cases at random.               *)

LoopDisconnect(r) ==
    /\ pc[r] = "loop" /\ disconnected
    /\ Return(r)
    /\ UNCHANGED <<prm, resp, errMsg, chan, published, notes, batch, work,
                   active, failed, blk, events, disconnected>>

LoopErrMsg(r) ==
    /\ pc[r] = "loop" /\ r \in errMsg
    /\ Reply(r, 1)
    /\ Return(r)
    /\ UNCHANGED <<prm, errMsg, chan, published, notes, batch, work, active,
                   failed, blk, events, disconnected>>

(* A closed channel: SubscriptionExists is false once the feed manager    *)
(* unsubscribed, so no error is sent.                                     *)
LoopClosed(r) ==
    /\ pc[r] = "loop" /\ r \in closed /\ chan[r] = <<>>
    /\ Return(r)
    /\ UNCHANGED <<prm, resp, errMsg, chan, published, notes, batch, work,
                   active, failed, blk, events, disconnected>>

(* conn.Notify of one result: on a broken connection it fails, and the    *)
(* loop returns.                                                           *)
NotifyOne(r, n) ==
    IF disconnected
    THEN /\ Return(r) /\ UNCHANGED notes
    ELSE /\ notes' = [notes EXCEPT ![r] = Append(@, <<n>>)]
         /\ UNCHANGED <<pc, subs, closed>>

(* A notification from the feed channel, dispatched on the feed.           *)
LoopNotification(r) ==
    /\ pc[r] = "loop" /\ chan[r] # <<>>
    /\ LET n == Head(chan[r])
           feed == prm[r].feed
       IN /\ chan' = [chan EXCEPT ![r] = Tail(@)]
          /\ \/ /\ feed \in TxFeeds /\ n \notin Matching
                /\ UNCHANGED <<pc, subs, closed, notes, work, blk>>
             \/ /\ feed \in BlockFeeds \/ (feed \in TxFeeds /\ n \in Matching)
                /\ NotifyOne(r, n) /\ UNCHANGED <<work, blk>>
             \* getSyncedWSProvider finds no synced node for the block
             \/ /\ feed \in FanOutFeeds
                /\ Return(r) /\ UNCHANGED <<notes, work, blk>>
             \/ /\ feed \in FanOutFeeds
                /\ work' = [work EXCEPT ![r] = Jobs]
                /\ blk' = [blk EXCEPT ![r] = @ + 1]
                /\ pc' = [pc EXCEPT ![r] = "fanout"]
                /\ UNCHANGED <<subs, closed, notes>>
    /\ UNCHANGED <<prm, resp, errMsg, published, batch, active, failed, events,
                   disconnected>>

-----------------------------------------------------------------------------
(* The per-block fan-out: one goroutine per onBlock call or per tx of the *)
(* block, then wg.Wait / g.Wait.                                           *)

(* An event notify of a fan-out goroutine; a failed notify is only logged *)
(* (onBlock) or becomes the goroutine's error (txReceipts).               *)
Emit(r, kind, j) ==
    events' = [events EXCEPT ![r] =
                 IF disconnected THEN @ ELSE Append(@, [kind |-> kind, job |-> j, blk |-> blk[r]])]

(* One onBlock call goroutine: an inactive call, or one whose payload     *)
(* cannot be built, returns at once; a CallRPC failing after its retries  *)
(* disables the call and notifies TaskDisabledEvent; else the result is   *)
(* notified.                                                               *)
OnBlockCall(r, j) ==
    /\ \/ /\ j \notin active[r]
          /\ UNCHANGED <<active, events>>
       \/ /\ j \in active[r]
          /\ \/ /\ active' = [active EXCEPT ![r] = @ \ {j}]
                /\ Emit(r, "disabled", j)
             \/ /\ Emit(r, "result", j)
                /\ UNCHANGED active
    /\ UNCHANGED failed

(* One txReceipts goroutine: FetchTransactionReceipt fails, or the receipt *)
(* is notified; either failure is the goroutine's error.                   *)
FetchReceipt(r, j) ==
    /\ \/ /\ failed' = [failed EXCEPT ![r] = TRUE]
          /\ UNCHANGED events
       \/ /\ failed' = [failed EXCEPT ![r] = @ \/ disconnected]
          /\ Emit(r, "receipt", j)
    /\ UNCHANGED active

FanOutJob(r, j) ==
    /\ j \in work[r]  \* a goroutine runs whatever its handler is doing
    /\ work' = [work EXCEPT ![r] = @ \ {j}]
    /\ IF prm[r].feed = "onBlock" THEN OnBlockCall(r, j) ELSE FetchReceipt(r, j)
    /\ UNCHANGED <<pc, prm, resp, subs, closed, errMsg, chan, published, notes,
                   batch, blk, disconnected>>

(* Mutant of FanOutWaited: the loop does not wait for its goroutines.     *)
FanOutNotWaited(r) == TRUE

(* wg.Wait() / g.Wait(): every goroutine of the block has returned.       *)
FanOutWaited(r) == work[r] = {}

(* After the wait: onBlock sends TaskCompletedEvent (returning if that    *)
(* fails); txReceipts returns if any goroutine failed.                    *)
FanOutDone(r) ==
    /\ pc[r] = "fanout" /\ FanOutWaited(r)
    /\ failed' = [failed EXCEPT ![r] = FALSE]
    /\ IF (prm[r].feed = "onBlock" /\ disconnected) \/ failed[r]
       THEN Return(r) /\ UNCHANGED events
       ELSE /\ IF prm[r].feed = "onBlock" THEN Emit(r, "completed", NoJob)
                                         ELSE UNCHANGED events
            /\ pc' = [pc EXCEPT ![r] = "loop"]
            /\ UNCHANGED <<subs, closed>>
    /\ UNCHANGED <<prm, resp, errMsg, chan, published, notes, batch, work,
                   active, blk, disconnected>>

-----------------------------------------------------------------------------
(* subscribeMultiTxs: take one notification, then drain what the channel  *)
(* holds until the batch reaches Limit or the channel is momentarily      *)
(* empty (the select's default), then notify the batch if it is not       *)
(* empty.  A disconnect returns nil into Handle's loop; a closed channel   *)
(* returns an error and Handle returns.                                   *)

(* The filtered notification n added to the batch.                        *)
Collect(r, n) == IF n \in Matching THEN Append(batch[r], n) ELSE batch[r]

MultiTake(r) ==
    /\ pc[r] = "multi"
    /\ \/ /\ disconnected
          /\ pc' = [pc EXCEPT ![r] = "loop"]
          /\ UNCHANGED <<subs, closed, chan, batch>>
       \/ /\ r \in closed /\ chan[r] = <<>>
          /\ Return(r)
          /\ UNCHANGED <<chan, batch>>
       \/ /\ chan[r] # <<>>
          /\ chan' = [chan EXCEPT ![r] = Tail(@)]
          /\ batch' = [batch EXCEPT ![r] = Collect(r, Head(chan[r]))]
          /\ pc' = [pc EXCEPT ![r] = "drain"]
          /\ UNCHANGED <<subs, closed>>
    /\ UNCHANGED <<prm, resp, errMsg, published, notes, work, active, failed,
                   blk, events, disconnected>>

(* Mutant of BatchFull: the batch is closed only past the limit.         *)
BatchFullPastLimit(b) == Len(b) > Limit

(* len(multiTxsResponse.Result) >= 50                                      *)
BatchFull(b) == Len(b) >= Limit

MultiDrain(r) ==
    /\ pc[r] = "drain"
    /\ \/ /\ disconnected
          /\ pc' = [pc EXCEPT ![r] = "loop"]
          /\ batch' = [batch EXCEPT ![r] = <<>>]
          /\ UNCHANGED <<subs, closed, chan>>
       \/ /\ r \in closed /\ chan[r] = <<>>
          /\ Return(r)
          /\ UNCHANGED <<chan, batch>>
       \/ /\ chan[r] # <<>>
          /\ chan' = [chan EXCEPT ![r] = Tail(@)]
          /\ batch' = [batch EXCEPT ![r] = Collect(r, Head(chan[r]))]
          /\ pc' = [pc EXCEPT ![r] = IF BatchFull(batch'[r]) THEN "flush" ELSE "drain"]
          /\ UNCHANGED <<subs, closed>>
       \/ /\ ~disconnected /\ chan[r] = <<>> /\ r \notin closed
          /\ pc' = [pc EXCEPT ![r] = "flush"]
          /\ UNCHANGED <<subs, closed, chan, batch>>
    /\ UNCHANGED <<prm, resp, errMsg, published, notes, work, active, failed,
                   blk, events, disconnected>>

(* Mutant of BatchToSend: an empty batch is notified as well.             *)
BatchToSendAlways(b) == TRUE

(* len(multiTxsResponse.Result) > 0                                        *)
BatchToSend(b) == Len(b) > 0

(* conn.Notify of a non-empty batch; its failure returns the error.       *)
MultiFlush(r) ==
    /\ pc[r] = "flush"
    /\ batch' = [batch EXCEPT ![r] = <<>>]
    /\ IF ~BatchToSend(batch[r]) THEN /\ pc' = [pc EXCEPT ![r] = "multi"]
                               /\ UNCHANGED <<subs, closed, notes>>
       ELSE IF disconnected THEN Return(r) /\ UNCHANGED notes
       ELSE /\ notes' = [notes EXCEPT ![r] = Append(@, batch[r])]
            /\ pc' = [pc EXCEPT ![r] = "multi"]
            /\ UNCHANGED <<subs, closed>>
    /\ UNCHANGED <<prm, resp, errMsg, chan, published, work, active, failed,
                   blk, events, disconnected>>

-----------------------------------------------------------------------------
(* The other methods.  err: params missing or not of length one.  An      *)
(* unknown subscription ID is answered "false" and then "true".           *)
HandleUnsubscribe(r) ==
    /\ pc[r] = "handle" /\ prm[r].method = "unsubscribe"
    /\ LET t == prm[r].target IN
       \/ /\ prm[r].err
          /\ Reply(r, 1)
          /\ UNCHANGED <<subs, closed>>
       \/ /\ ~prm[r].err /\ t \in subs
          /\ FeedManagerUnsubscribe(t)
          /\ Reply(r, 1)
       \/ /\ ~prm[r].err /\ t \notin subs
          /\ Reply(r, 2)
          /\ UNCHANGED <<subs, closed>>
    /\ pc' = [pc EXCEPT ![r] = "done"]
    /\ UNCHANGED <<prm, errMsg, chan, published, notes, batch, work, active,
                   failed, blk, events, disconnected>>

(* ping, blxr_mev_searcher (every one of its checks, and HandleMsg,       *)
(* answers an error, else the status reply), quota_usage (a failed        *)
(* getQuotaUsage sends an error and still the reply) and an unknown       *)
(* method (MethodNotFound).                                                *)
HandleOther(r) ==
    /\ pc[r] = "handle" /\ prm[r].method \in {"ping", "mev", "quota", "other"}
    /\ Reply(r, IF prm[r].method = "quota" /\ prm[r].err THEN 2 ELSE 1)
    /\ pc' = [pc EXCEPT ![r] = "done"]
    /\ UNCHANGED <<prm, subs, closed, errMsg, chan, published, notes, batch,
                   work, active, failed, blk, events, disconnected>>

-----------------------------------------------------------------------------
(* The environment: the feed manager and the connection.                  *)

FeedPublish(s, n) ==
    /\ s \in subs /\ Len(published[s]) < MaxPub
    /\ chan' = [chan EXCEPT ![s] = Append(@, n)]
    /\ published' = [published EXCEPT ![s] = Append(@, n)]
    /\ UNCHANGED <<pc, prm, resp, subs, closed, errMsg, notes, batch, work,
                   active, failed, blk, events, disconnected>>

FeedError(s) ==
    /\ s \in subs /\ s \notin errMsg
    /\ errMsg' = errMsg \cup {s}
    /\ UNCHANGED <<pc, prm, resp, subs, closed, chan, published, notes, batch,
                   work, active, failed, blk, events, disconnected>>

Disconnect ==
    /\ ~disconnected
    /\ disconnected' = TRUE
    /\ UNCHANGED <<pc, prm, resp, subs, closed, errMsg, chan, published, notes,
                   batch, work, active, failed, blk, events>>

-----------------------------------------------------------------------------
Init ==
    /\ pc = [r \in Requests |-> "handle"]
    /\ prm \in [Requests -> UNION {ReqParams[r] : r \in Requests}]
    /\ \A r \in Requests : prm[r] \in ReqParams[r]
    /\ resp = [r \in Requests |-> 0]
    /\ subs = {} /\ closed = {} /\ errMsg = {}
    /\ chan = [r \in Requests |-> <<>>]
    /\ published = [r \in Requests |-> <<>>]
    /\ notes = [r \in Requests |-> <<>>]
    /\ batch = [r \in Requests |-> <<>>]
    /\ work = [r \in Requests |-> {}]
    /\ active = [r \in Requests |-> Jobs]
    /\ failed = [r \in Requests |-> FALSE]
    /\ blk = [r \in Requests |-> 0]
    /\ events = [r \in Requests |-> <<>>]
    /\ disconnected = FALSE

(* The steps of r's Handle goroutine.                                     *)
HandlerStep(r) ==
    \/ SubscribeStart(r) \/ HandleUnsubscribe(r) \/ HandleOther(r)
    \/ LoopDisconnect(r) \/ LoopErrMsg(r) \/ LoopClosed(r) \/ LoopNotification(r)
    \/ FanOutDone(r)
    \/ MultiTake(r) \/ MultiDrain(r) \/ MultiFlush(r)

Next ==
    \/ \E r \in Requests : HandlerStep(r)
    \/ \E r \in Requests, j \in Jobs : FanOutJob(r, j)
    \/ \E s \in Requests, n \in Items : FeedPublish(s, n)
    \/ \E s \in Requests : FeedError(s)
    \/ Disconnect

(* Every goroutine that can run eventually runs: the handler goroutines   *)
(* and the fan-out goroutines.  The feed manager and the client owe       *)
(* nothing.                                                               *)
Fairness ==
    /\ \A r \in Requests : WF_vars(HandlerStep(r))
    /\ \A r \in Requests, j \in Jobs : WF_vars(FanOutJob(r, j))

Spec == Init /\ [][Next]_vars
FairSpec == Spec /\ Fairness

-----------------------------------------------------------------------------
(* Properties *)

(* Every JSON-RPC request is answered at most once (spec 4.G, 7): the    *)
(* unsubscribe and quota_usage branches of Handle must not write two      *)
(* responses with the same request ID, and a subscribe answered with its  *)
(* subscription ID gets a second response only when the feed manager      *)
(* posts an error for that subscription on its error channel.             *)
AtMostOneResponse ==
    \A r \in Requests :
        resp[r] <= 1 \/ (prm[r].method = "subscribe" /\ r \in errMsg)

(* The delivery loop and subscribeMultiTxs implement FeedStream for every *)
(* subscription: the notifies carry the wanted notifications in publish   *)
(* order, none skipped, none twice, at most Limit per notify -- however   *)
(* the feed manager's publishing, a concurrent unsubscribe and the        *)
(* disconnect interleave with the batching.                               *)
Stream(s) == INSTANCE FeedStream WITH published <- published[s],
                                      delivered <- FlattenSeq(notes[s]),
                                      wanted <- Wanted(s)

StreamsRefined ==
    /\ \A s \in Requests : Stream(s)!Init
    /\ [][\A s \in Requests : [Stream(s)!Next]_(Stream(s)!fsvars)]_vars

(* The onBlock / txReceipts barrier (spec 5 "Ordering"): a subscription's *)
(* events come block by block, and onBlock's TaskCompletedEvent for a     *)
(* block follows every call result of that block.                         *)
FanOutBarrier ==
    \A s \in Requests : \A i, j \in DOMAIN events[s] :
        i < j => /\ events[s][i].blk <= events[s][j].blk
                 /\ events[s][i].kind = "completed" => events[s][i].blk < events[s][j].blk

(* Spec 5 "Cancellation": once the client is gone, every subscription of *)
(* the connection is eventually unsubscribed -- each loop, batch drain    *)
(* and fan-out observes the disconnect and Handle's deferred Unsubscribe  *)
(* runs.                                                                   *)
DisconnectEndsSubscriptions ==
    \A s \in Requests : (disconnected /\ s \in subs) ~> s \notin subs
====
