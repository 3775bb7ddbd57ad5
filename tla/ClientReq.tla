------------------------------ MODULE ClientReq ------------------------------
(***************************************************************************)
(* createClientReq and validateFeed (src/servers/clienthandler.go): how a *)
(* subscribe request becomes a clientReq -- its feed, the fields it will  *)
(* deliver, its filter and, for onBlock, its named RPC calls -- or an     *)
(* error, which Handle sends back as InvalidParams.                        *)
(*                                                                         *)
(* The JSON decoding is abstracted to whether it succeeds.  A filter is a *)
(* bare-dialect filter tree of FilterRewrite, rewritten by its            *)
(* ParseFilterRewrite; whether the conditions parser accepts the result   *)
(* and EvaluateFilters passes are inputs, and expr.Args() is the set of   *)
(* fields the filter names.  The account's                                 *)
(* per-feed entitlement to whether its ExpireDate lies in the past, its   *)
(* AllowFiltering flag and its AvailableFields.  The node websocket        *)
(* manager's tables of RPC methods and payload fields are constants.       *)
(***************************************************************************)
EXTENDS Integers, Sequences, SequencesExt, FiniteSets, Strconv

CONSTANTS
    ValidRPCCallMethods,        \* nodeWSManager.ValidRPCCallMethods()
    ValidRPCCallPayloadFields,  \* nodeWSManager.ValidRPCCallPayloadFields()
    RequiredPayloadFields,      \* method -> required fields; its domain is
                                \* where RequiredPayloadFieldsForRPCMethod is ok
    Requests,                   \* the subscribe requests enumerated
    NilInclude,                 \* an absent "Include" (a nil slice)
    NilCall,                    \* a null entry of "Call-Params"
    EmptyFilters                \* an empty "Filters" string

(* The rewrite of the bare filter dialect, as operators. *)
FR == INSTANCE FilterRewrite WITH Fields <- {}, Ops <- {}, Values <- {},
                                  NestValue <- "", filter <- EmptyFilters

(* The field catalogues of the package (lines 195-232). *)
txContentFields ==
    {"tx_contents.nonce", "tx_contents.tx_hash", "tx_contents.gas_price",
     "tx_contents.gas", "tx_contents.to", "tx_contents.value",
     "tx_contents.input", "tx_contents.v", "tx_contents.r", "tx_contents.s",
     "tx_contents.from", "tx_contents.type", "tx_contents.access_list",
     "tx_contents.chain_id", "tx_contents.max_priority_fee_per_gas",
     "tx_contents.max_fee_per_gas"}
validTxParams == txContentFields \cup {"tx_contents", "tx_hash", "local_region", "time", "raw_tx"}
validBlockParams == txContentFields \cup {"hash", "header", "transactions", "uncles", "future_validator_info"}
validOnBlockParams == {"name", "response", "block_height", "tag"}
validBeaconBlockParams == {"hash", "header", "slot", "body"}
validTxReceiptParams ==
    {"block_hash", "block_number", "contract_address", "cumulative_gas_used",
     "effective_gas_price", "from", "gas_used", "logs", "logs_bloom", "status",
     "to", "transaction_hash", "transaction_index", "type"}
defaultTxParams == txContentFields \cup {"tx_hash", "local_region", "time"}

TxFeeds == {"newTxs", "pendingTxs"}
BlockFeeds == {"bdnBlocks", "newBlocks"}
BeaconFeeds == {"newBeaconBlocks", "bdnBeaconBlocks"}
availableFeeds == TxFeeds \cup BlockFeeds \cup BeaconFeeds \cup {"onBlock", "txReceipts"}

validParams ==
    [f \in availableFeeds |->
        CASE f \in TxFeeds     -> validTxParams
          [] f \in BlockFeeds  -> validBlockParams
          [] f \in BeaconFeeds -> validBeaconBlockParams
          [] f = "onBlock"     -> validOnBlockParams
          [] f = "txReceipts"  -> validTxReceiptParams]

(* The account's BDNFeedService consulted for a feed (lines 1163-1174). *)
StreamOf(feed) ==
    CASE feed = "newTxs"     -> "NewTransactionStreaming"
      [] feed = "pendingTxs" -> "PendingTransactionStreaming"
      [] feed = "onBlock"    -> "OnBlockFeed"
      [] feed = "txReceipts" -> "TransactionReceiptFeed"
      [] OTHER               -> "NewBlockStreaming"

-----------------------------------------------------------------------------
(* The fields of an empty "Include": every block feed, beacon ones        *)
(* included, gets validBlockParams.                                        *)
DefaultFields(feed) ==
    CASE feed \in BlockFeeds \cup BeaconFeeds -> validBlockParams
      [] feed \in TxFeeds                     -> defaultTxParams
      [] OTHER                                -> validParams[feed]

(* "tx_contents" brings every tx_contents.* field along with itself. *)
Expand(param) == IF param = "tx_contents" THEN txContentFields \cup {param} ELSE {param}

RequestedFields(q) ==
    IF q.include = <<>> THEN DefaultFields(q.feed)
    ELSE UNION {Expand(p) : p \in Range(q.include)}

RECURSIVE FilterFields(_)
(* expr.Args(): the fields a parsed filter names. *)
FilterFields(e) ==
    CASE e.kind = "clause" -> {e.f}
      [] e.kind = "paren"  -> FilterFields(e.e)
      [] e.kind = "bin"    -> FilterFields(e.l) \cup FilterFields(e.r)

FilterArgs(q) == IF q.filter = EmptyFilters THEN {} ELSE FilterFields(q.filter.tree)

(* The expression handed to the conditions parser: ParseFilter's rewrite *)
(* of the client's tokens. *)
FilterExpr(q) ==
    IF q.filter = EmptyFilters THEN <<>> ELSE FR!ParseFilterRewrite(FR!Bare(q.filter.tree))

(* Mutant of validateFeed: the shortcut is taken when the account has    *)
(* all fields OR may filter.                                               *)
validateFeedEither(s, includes, filters) ==
    CASE s.expired                                -> FALSE
      [] s.allowFiltering \/ "all" \in s.fields   -> TRUE
      [] ~(includes \subseteq s.fields)           -> FALSE
      [] ~s.allowFiltering /\ filters /= {}       -> FALSE
      [] OTHER                                    -> TRUE

(* validateFeed: TRUE when the account may receive these fields with this *)
(* filter.  An unparsable ExpireDate is the zero time, hence expired.     *)
validateFeed(s, includes, filters) ==
    CASE s.expired                                -> FALSE
      [] s.allowFiltering /\ "all" \in s.fields   -> TRUE
      [] ~(includes \subseteq s.fields)           -> FALSE
      [] ~s.allowFiltering /\ filters /= {}       -> FALSE
      [] OTHER                                    -> TRUE

-----------------------------------------------------------------------------
(* One entry of "Call-Params", a map from parameter to value, checked and *)
(* added to calls under its name: the "name" parameter, else its index.   *)
(* The loop over the map's keys runs in random order, but every check     *)
(* reads only the entry and the calls added before it, so the outcome is  *)
(* the same in every order.                                                *)
AddCall(cp, idx, calls) ==
    IF cp = NilCall THEN [err |-> TRUE, calls |-> calls]
    ELSE
    LET has(k) == k \in DOMAIN cp
        method == IF has("method") THEN cp["method"] ELSE ""
        name == IF has("name") THEN cp["name"] ELSE Itoa(idx)
        payload == DOMAIN cp \ {"method", "tag", "name"}
        bad ==
            \/ has("method") /\ method \notin ValidRPCCallMethods
            \/ has("tag") /\ cp["tag"] /= "latest"
                          /\ (~AtoiOk(cp["tag"]) \/ AtoiPositive(cp["tag"]))
            \/ has("name") /\ cp["name"] \in DOMAIN calls
            \/ payload \ ValidRPCCallPayloadFields /= {}
            \/ method \notin DOMAIN RequiredPayloadFields
            \/ ~(RequiredPayloadFields[method] \subseteq payload)
    IN  IF bad THEN [err |-> TRUE, calls |-> calls]
        ELSE [err |-> FALSE,
              calls |-> (name :> [method |-> method, payload |-> payload]) @@ calls]

RECURSIVE CallsLoop(_, _, _)
(* The loop over "Call-Params" from entry i on; it stops at an error. *)
CallsLoop(cps, i, acc) ==
    IF i > Len(cps) \/ acc.err THEN acc
    ELSE CallsLoop(cps, i + 1, AddCall(cps[i], i - 1, acc.calls))

NoCalls == [err |-> FALSE, calls |-> <<>>]

-----------------------------------------------------------------------------
(* createClientReq: the checks in the order the code makes them; the      *)
(* first that fails is the error returned.                                 *)
createClientReq(q) ==
    LET fields == RequestedFields(q)
        cr == IF q.feed = "onBlock" THEN CallsLoop(q.callParams, 1, NoCalls) ELSE NoCalls
        Error == [err |-> TRUE]
    IN
    CASE ~q.paramsOk \/ q.nParams < 2                               -> Error
      [] q.feed \notin availableFeeds                               -> Error
      [] ~q.accountMatch /\ q.feed \in {"onBlock", "txReceipts"}    -> Error
      [] q.include = NilInclude                                     -> Error
      [] \E p \in Range(q.include) : p \notin validParams[q.feed]   -> Error
      [] q.filter /= EmptyFilters /\ ~(q.filter.parseOk /\ q.filter.evalOk) -> Error
      [] ~validateFeed(q.account[StreamOf(q.feed)], fields, FilterArgs(q)) -> Error
      [] cr.err                                                     -> Error
      [] OTHER -> [err |-> FALSE, feed |-> q.feed, includes |-> fields,
                   expr |-> FilterExpr(q), filters |-> FilterArgs(q),
                   calls |-> cr.calls]

VARIABLE request

Init == request \in Requests

Next == UNCHANGED request

Spec == Init /\ [][Next]_request

-----------------------------------------------------------------------------
(* Spec 4.G: a subscription is registered only for an account entitled   *)
(* to the feed and to filtering: its entitlement has not expired, every   *)
(* field it will deliver -- defaults and tx_contents expansion included -- *)
(* is one the account may see (or it may see all), it filters only if     *)
(* allowed, and onBlock and txReceipts come only from the gateway's own    *)
(* account.                                                                *)
SubscriptionEntitled ==
    LET res == createClientReq(request)
        s == request.account[StreamOf(request.feed)]
    IN  ~res.err =>
            /\ ~s.expired
            /\ \A f \in res.includes : f \in s.fields \/ "all" \in s.fields
            /\ res.filters /= {} => s.allowFiltering
            /\ res.feed \in {"onBlock", "txReceipts"} => request.accountMatch

(* Spec 4.G: the account's entitlement as the spec states it -- not       *)
(* expired, every field allowed ("all" allowing every field), and         *)
(* filtering allowed if the request filters.                               *)
SpecEntitled(s, includes, filters) ==
    /\ ~s.expired
    /\ "all" \in s.fields \/ includes \subseteq s.fields
    /\ filters /= {} => s.allowFiltering

(* The subscription registered is the one requested (spec 4.G, 4.H, 6): *)
(* validateFeed refuses only an account that is not entitled to the      *)
(* feed's fields or to filtering; an accepted request delivers only       *)
(* fields of its feed's catalogue (an empty Include meaning the feed's    *)
(* full list), filters with the braced form of the client's filter, and   *)
(* for onBlock runs one named call per Call-Params entry.                  *)
ClientReqAsRequested ==
    LET res == createClientReq(request)
        s == request.account[StreamOf(request.feed)]
    IN  /\ request.feed \in availableFeeds /\ request.include /= NilInclude =>
               (SpecEntitled(s, RequestedFields(request), FilterArgs(request)) =>
                    validateFeed(s, RequestedFields(request), FilterArgs(request)))
        /\ ~res.err =>
            /\ res.includes \subseteq validParams[res.feed]
            /\ request.filter /= EmptyFilters =>
                   res.expr = FR!Braced(request.filter.tree)
            /\ res.feed = "onBlock" => Cardinality(DOMAIN res.calls) = Len(request.callParams)

=============================================================================
