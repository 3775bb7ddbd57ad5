---------------------------- MODULE TxSubmission ----------------------------
(***************************************************************************)
(* Transaction submission through the client handler                      *)
(* (src/servers/clienthandler.go): the blxr_tx and blxr_batch_tx methods,  *)
(* handleSingleTransaction, ValidateTxFromExternalSource and the           *)
(* next-validator router ProcessNextValidatorTx, with the BSC pending      *)
(* table and its fallback timers.                                          *)
(*                                                                         *)
(* Each request is a goroutine running Handle for one message.  The        *)
(* pending-next-validator mutex is held across decoding and validation;    *)
(* a fallback timer takes it around its check-delete-send; the feed        *)
(* manager's re-evaluation of pending txs (not in src/) takes it too.      *)
(* A region run under the mutex is one atomic step, enabled only while    *)
(* the mutex is free.                                                      *)
(***************************************************************************)
EXTENDS Naturals, Sequences, FiniteSets

CONSTANTS
    Requests,       \* handler goroutines, one message each
    Txs,            \* transaction hashes
    Messages,       \* the messages a client may send (see Message below)
    BlockInterval,  \* NetworkToBlockDuration[BSCMainnet] in ms
    Networks,       \* the networks the gateway may be configured for
    NodeAccounts,   \* the gateway's own account: "bloxroute" (the cloud proxy) or "other"
    Unlocked, NoFallback, NilTx,
    TimerHolder     \* a timer goroutine, as a holder of the mutex

(* One tx of a request: its hash and what its processing will meet: a     *)
(* decodable hex string, a tx that passes ValidateTxFromExternalSource's  *)
(* checks, the next_validator flag, the fallback in ms, and whether the   *)
(* node accepts it in HandleMsg.                                           *)
TxInput == [tx : Txs, hexOk : BOOLEAN, valid : BOOLEAN, nextValidator : BOOLEAN,
            fallback : Nat, handleOk : BOOLEAN]
(* blxr_tx carries one tx; blxr_batch_tx a list, with sendError false and *)
(* next_validator off.  What the checks before the txs meet: the          *)
(* connection's account equals the gateway's, the params unmarshal, and   *)
(* OriginalSenderAccountID is empty.                                       *)
Message == [kind : {"tx", "batch"}, txs : Seq(TxInput), accountMatch : BOOLEAN,
            paramsOk : BOOLEAN, senderEmpty : BOOLEAN]

ASSUME /\ Messages \subseteq Message
       /\ \A m \in Messages : m.kind = "batch" =>
            \A i \in DOMAIN m.txs : ~m.txs[i].nextValidator /\ m.txs[i].fallback = 0
       /\ Networks \subseteq {"BSC", "Polygon", "other"}
       /\ NodeAccounts \subseteq {"bloxroute", "other"}

VARIABLES
    nodeAccount,    \* h.FeedManager.accountModel.AccountID
    network,        \* h.FeedManager.networkNum
    nvCount,        \* entries in nextValidatorMap (newest-first), 0..2
    n1Accessible,   \* validatorStatusMap says the second-newest is accessible
    lock,           \* holder of the pending-next-validator mutex
    pc,             \* request -> "idle" | "loop" | "unlocked" | "done" | "crashed"
    kind,           \* request -> the method being handled
    todo,           \* request -> txs of the message not yet handled
    cur,            \* request -> the tx being handled
    res,            \* request -> ValidateTxFromExternalSource's outcome
    hashes,         \* request -> tx hashes collected for the reply
    responses,      \* request -> JSON-RPC responses (results and errors) sent
    pending,        \* pendingBSCNextValidatorTxHashToInfo: tx -> fallback
    armed,          \* requests whose fallback timer has not fired yet
    submitted,      \* tx -> times handleSingleTransaction validated it
    sends           \* log of node.HandleMsg calls

cfgVars == <<nodeAccount, network, nvCount, n1Accessible>>

vars == <<cfgVars, lock, pc, kind, todo, cur, res,
          hashes, responses, pending, armed, submitted, sends>>

Outcome == [err : BOOLEAN, pending : BOOLEAN, wallet : {"none", "n1", "n2", "n1n2"}]
Send == [tx : Txs \cup {NilTx}, nextValidator : BOOLEAN,
         wallet : {"none", "n1", "n2", "n1n2"}, via : {"direct", "timer", "reevaluate"}]

TypeOK ==
    /\ nodeAccount \in NodeAccounts
    /\ network \in Networks /\ nvCount \in 0..2 /\ n1Accessible \in BOOLEAN
    /\ lock \in Requests \cup {Unlocked}
    /\ pc \in [Requests -> {"idle", "loop", "unlocked", "done", "crashed"}]
    /\ kind \in [Requests -> {"none", "tx", "batch"}]
    /\ todo \in [Requests -> Seq(TxInput)]
    /\ cur \in [Requests -> TxInput \cup {NilTx}]
    /\ res \in [Requests -> Outcome]
    /\ hashes \in [Requests -> Nat]
    /\ responses \in [Requests -> Nat]
    /\ pending \in [Txs -> Nat \cup {NoFallback}]
    /\ armed \subseteq Requests
    /\ submitted \in [Txs -> Nat]
    /\ sends \in Seq(Send)

Init ==
    /\ nodeAccount \in NodeAccounts
    /\ network \in Networks /\ nvCount \in 0..2 /\ n1Accessible \in BOOLEAN
    /\ lock = Unlocked
    /\ pc = [r \in Requests |-> "idle"]
    /\ kind = [r \in Requests |-> "none"]
    /\ todo = [r \in Requests |-> <<>>]
    /\ cur = [r \in Requests |-> NilTx]
    /\ res = [r \in Requests |-> [err |-> FALSE, pending |-> FALSE, wallet |-> "none"]]
    /\ hashes = [r \in Requests |-> 0]
    /\ responses = [r \in Requests |-> 0]
    /\ pending = [t \in Txs |-> NoFallback]
    /\ armed = {}
    /\ submitted = [t \in Txs |-> 0]
    /\ sends = <<>>

-----------------------------------------------------------------------------
(* ProcessNextValidatorTx: the router's decision for a next_validator tx. *)
(* pending means the tx is stashed in the pending table.                   *)
ProcessNextValidatorTx(in) ==
    CASE network \notin {"BSC", "Polygon"} -> [err |-> TRUE, pending |-> FALSE, wallet |-> "none"]
      [] nvCount = 0 -> [err |-> TRUE, pending |-> FALSE, wallet |-> "none"]
      [] network = "BSC" /\ nvCount = 2 /\ n1Accessible ->
            [err |-> FALSE, pending |-> FALSE, wallet |-> "n1"]
      [] network = "BSC" /\ in.fallback # 0 /\ in.fallback < BlockInterval ->
            [err |-> FALSE, pending |-> FALSE, wallet |-> "none"]
      [] network = "BSC" -> [err |-> FALSE, pending |-> TRUE, wallet |-> "none"]
      [] nvCount = 2 -> [err |-> FALSE, pending |-> FALSE, wallet |-> "n1n2"]
      [] OTHER -> [err |-> FALSE, pending |-> FALSE, wallet |-> "n2"]

(* ValidateTxFromExternalSource: decoding, the chain-ID check and node    *)
(* validation (valid), then the router for next_validator txs.             *)
ValidateTxFromExternalSource(in) ==
    IF ~in.valid THEN [err |-> TRUE, pending |-> FALSE, wallet |-> "none"]
    ELSE IF in.nextValidator THEN ProcessNextValidatorTx(in)
    ELSE [err |-> FALSE, pending |-> FALSE, wallet |-> "none"]

-----------------------------------------------------------------------------
(* The checks blxr_tx and blxr_batch_tx make before their txs: the       *)
(* account check, the unmarshalling of the params, and for blxr_tx the    *)
(* refusal of a tx sent to the internal (cloud) gateway directly.          *)
Admitted(m) ==
    /\ m.accountMatch
    /\ m.paramsOk
    /\ ~(m.kind = "tx" /\ nodeAccount = "bloxroute" /\ m.senderEmpty)

(* An account mismatch only logs, with no error sent, for a batch and for *)
(* a tx at the cloud gateway; every other refusal sends an error.          *)
SilentRefusal(m) ==
    ~m.accountMatch /\ (m.kind = "batch" \/ nodeAccount = "bloxroute")

(* blxr_tx / blxr_batch_tx refused before any tx is handled. *)
RejectMessage(r, m) ==
    /\ pc[r] = "idle"
    /\ ~Admitted(m)
    /\ pc' = [pc EXCEPT ![r] = "done"]
    /\ kind' = [kind EXCEPT ![r] = m.kind]
    /\ responses' = [responses EXCEPT ![r] = IF SilentRefusal(m) THEN @ ELSE @ + 1]
    /\ UNCHANGED <<cfgVars, lock, todo, cur, res, hashes, pending, armed,
                   submitted, sends>>

(* blxr_tx / blxr_batch_tx: the request's params are unmarshalled and its *)
(* txs handed one by one to handleSingleTransaction.                       *)
ReceiveMessage(r, m) ==
    /\ pc[r] = "idle"
    /\ Admitted(m)
    /\ pc' = [pc EXCEPT ![r] = "loop"]
    /\ kind' = [kind EXCEPT ![r] = m.kind]
    /\ todo' = [todo EXCEPT ![r] = m.txs]
    /\ UNCHANGED <<cfgVars, lock, cur, res, hashes,
                   responses, pending, armed, submitted, sends>>

(* handleSingleTransaction up to UnlockPendingNextValidatorTxs.  A hex    *)
(* decoding error sends an InvalidParams error and returns with the mutex *)
(* still locked.                                                           *)
handleSingleTransactionLocked(r) ==
    /\ pc[r] = "loop"
    /\ todo[r] # <<>>
    /\ lock = Unlocked
    /\ LET in == Head(todo[r]) IN
       /\ cur' = [cur EXCEPT ![r] = in]
       /\ todo' = [todo EXCEPT ![r] = Tail(@)]
       /\ IF ~in.hexOk
          THEN /\ lock' = r
               /\ responses' = [responses EXCEPT ![r] = @ + 1]
               /\ pc' = [pc EXCEPT ![r] = IF kind[r] = "tx" THEN "done" ELSE "loop"]
               /\ UNCHANGED <<res, pending, submitted>>
          ELSE LET o == ValidateTxFromExternalSource(in) IN
               /\ res' = [res EXCEPT ![r] = o]
               /\ pending' = IF o.pending THEN [pending EXCEPT ![in.tx] = in.fallback]
                                          ELSE pending
               /\ submitted' = [submitted EXCEPT ![in.tx] = @ + 1]
               /\ pc' = [pc EXCEPT ![r] = "unlocked"]
               /\ UNCHANGED <<lock, responses>>
    /\ UNCHANGED <<cfgVars, kind, hashes, armed, sends>>

(* handleSingleTransaction returns (hash, ok): blxr_tx stops on !ok,      *)
(* the batch loop goes on and collects the hash on ok.                     *)
Return(r, ok) ==
    /\ pc' = [pc EXCEPT ![r] = IF kind[r] = "tx" /\ ~ok THEN "done" ELSE "loop"]
    /\ hashes' = [hashes EXCEPT ![r] = IF ok THEN @ + 1 ELSE @]

(* The rest of handleSingleTransaction, after the unlock: the error reply *)
(* (sendError is true for blxr_tx only), node.HandleMsg for a tx that is  *)
(* not pending -- with a nil tx when a batch tx failed validation -- or   *)
(* the fallback timer for a pending one.  On a nil tx that HandleMsg      *)
(* accepts, tx.Hash() dereferences nil.                                    *)
handleSingleTransactionUnlocked(r) ==
    /\ pc[r] = "unlocked"
    /\ LET o == res[r]
           in == cur[r]
       IN
       \/ /\ o.err /\ kind[r] = "tx"
          /\ responses' = [responses EXCEPT ![r] = @ + 1]
          /\ Return(r, FALSE)
          /\ UNCHANGED <<armed, sends>>
       \/ /\ ~(o.err /\ kind[r] = "tx")
          /\ o.pending
          /\ armed' = IF in.fallback # 0 THEN armed \cup {r} ELSE armed
          /\ Return(r, TRUE)
          /\ UNCHANGED <<responses, sends>>
       \/ /\ ~(o.err /\ kind[r] = "tx")
          /\ ~o.pending
          /\ sends' = Append(sends, [tx |-> IF o.err THEN NilTx ELSE in.tx,
                                     nextValidator |-> in.nextValidator /\ ~o.err,
                                     wallet |-> o.wallet, via |-> "direct"])
          /\ IF ~in.handleOk THEN Return(r, FALSE)
             ELSE IF o.err THEN /\ pc' = [pc EXCEPT ![r] = "crashed"]
                                /\ UNCHANGED hashes
             ELSE Return(r, TRUE)
          /\ UNCHANGED <<responses, armed>>
    /\ UNCHANGED <<cfgVars, lock, kind, todo, cur, res,
                   pending, submitted>>

(* The end of blxr_tx / blxr_batch_tx: the reply with the hashes, or for  *)
(* a batch with none the error "all transactions are invalid".            *)
Finish(r) ==
    /\ pc[r] = "loop"
    /\ todo[r] = <<>>
    /\ responses' = [responses EXCEPT ![r] = @ + 1]
    /\ pc' = [pc EXCEPT ![r] = "done"]
    /\ UNCHANGED <<cfgVars, lock, kind, todo, cur, res,
                   hashes, pending, armed, submitted, sends>>

(* Mutant of FallbackTimer: the existence check is dropped.               *)
FallbackTimerUnchecked(r) ==
    /\ r \in armed
    /\ lock = Unlocked
    /\ armed' = armed \ {r}
    /\ pending' = [pending EXCEPT ![cur[r].tx] = NoFallback]
    /\ sends' = Append(sends, [tx |-> cur[r].tx, nextValidator |-> FALSE,
                               wallet |-> "none", via |-> "timer"])
    /\ UNCHANGED <<cfgVars, lock, pc, kind, todo, cur,
                   res, hashes, responses, submitted>>

(* Mutant of FallbackTimer: the lookup uses a key the table is not       *)
(* indexed by (another rendering of the tx hash), so exists is always     *)
(* false and the timer neither deletes nor sends.                          *)
FallbackTimerWrongKey(r) ==
    /\ r \in armed
    /\ lock = Unlocked
    /\ armed' = armed \ {r}
    /\ UNCHANGED <<cfgVars, lock, pc, kind, todo, cur,
                   res, hashes, responses, pending, submitted, sends>>

(* Mutant of FallbackTimer: the deferred unlock is missing.               *)
FallbackTimerNoUnlock(r) ==
    /\ r \in armed
    /\ lock = Unlocked
    /\ armed' = armed \ {r}
    /\ lock' = TimerHolder
    /\ IF pending[cur[r].tx] # NoFallback
       THEN /\ pending' = [pending EXCEPT ![cur[r].tx] = NoFallback]
            /\ sends' = Append(sends, [tx |-> cur[r].tx, nextValidator |-> FALSE,
                                       wallet |-> "none", via |-> "timer"])
       ELSE UNCHANGED <<pending, sends>>
    /\ UNCHANGED <<cfgVars, pc, kind, todo, cur,
                   res, hashes, responses, submitted>>

(* The time.AfterFunc callback: under the mutex, if the tx is still       *)
(* pending, delete it, clear TFNextValidator and send it as a normal tx.  *)
FallbackTimer(r) ==
    /\ r \in armed
    /\ lock = Unlocked
    /\ armed' = armed \ {r}
    /\ IF pending[cur[r].tx] # NoFallback
       THEN /\ pending' = [pending EXCEPT ![cur[r].tx] = NoFallback]
            /\ sends' = Append(sends, [tx |-> cur[r].tx, nextValidator |-> FALSE,
                                       wallet |-> "none", via |-> "timer"])
       ELSE UNCHANGED <<pending, sends>>
    /\ UNCHANGED <<cfgVars, lock, pc, kind, todo, cur,
                   res, hashes, responses, submitted>>

(* The feed manager's re-evaluation of a pending tx once the next         *)
(* validator is known (outside src/): under the mutex, remove it from the *)
(* table and send it to the validator.                                     *)
Reevaluate(t) ==
    /\ lock = Unlocked
    /\ pending[t] # NoFallback
    /\ pending' = [pending EXCEPT ![t] = NoFallback]
    /\ sends' = Append(sends, [tx |-> t, nextValidator |-> TRUE,
                               wallet |-> "n1", via |-> "reevaluate"])
    /\ UNCHANGED <<cfgVars, lock, pc, kind, todo, cur,
                   res, hashes, responses, armed, submitted>>

Next ==
    \/ \E r \in Requests, m \in Messages : ReceiveMessage(r, m) \/ RejectMessage(r, m)
    \/ \E r \in Requests : \/ handleSingleTransactionLocked(r)
                           \/ handleSingleTransactionUnlocked(r)
                           \/ Finish(r)
                           \/ FallbackTimer(r)
    \/ \E t \in Txs : Reevaluate(t)

(* The handler goroutines and the timers are the code's own: a goroutine  *)
(* that can run eventually does, and one waiting on the mutex eventually  *)
(* gets it (sync.Mutex hands it to a waiter starved for over 1ms).  No    *)
(* fairness for clients or for the re-evaluation, which lie outside.     *)
Fairness ==
    \A r \in Requests :
        /\ SF_vars(handleSingleTransactionLocked(r))
        /\ WF_vars(handleSingleTransactionUnlocked(r))
        /\ WF_vars(Finish(r))
        /\ SF_vars(FallbackTimer(r))

Spec == Init /\ [][Next]_vars
FairSpec == Spec /\ Fairness

-----------------------------------------------------------------------------
(* Properties *)

NumSent(t) == Cardinality({i \in DOMAIN sends : sends[i].tx = t})

(* The mutex around the pending table prevents double sends (spec 4.G):  *)
(* the fallback timer and the re-evaluation never both send a stashed tx, *)
(* so a tx reaches HandleMsg at most once per time it was submitted.      *)
NoDoubleSend == \A t \in Txs : NumSent(t) <= submitted[t]

(* A tx stashed with an armed fallback timer leaves the pending table    *)
(* eventually -- and is sent as it leaves -- even if its next validator   *)
(* never becomes known: the timer fires and takes the mutex.              *)
FallbackTxEventuallySent ==
    \A r \in Requests, t \in Txs :
        (r \in armed /\ cur[r] # NilTx /\ cur[r].tx = t /\ pending[t] # NoFallback)
            ~> pending[t] = NoFallback

(* JSON-RPC 2.0 answers every request that carries an ID exactly once,   *)
(* and spec 4.G step 8 has blxr_tx return the hash: every blxr_tx and     *)
(* blxr_batch_tx handler eventually ends, having sent exactly one         *)
(* response -- the reply or an error.                                      *)
EveryRequestAnsweredOnce ==
    \A r \in Requests : pc[r] /= "idle" ~> (pc[r] = "done" /\ responses[r] = 1)

=============================================================================
