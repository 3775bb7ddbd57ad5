-------------------------- MODULE MCPureOperators --------------------------
(***************************************************************************)
(* The gateway's pure conversions checked in one run: the beacon length   *)
(* of a transaction (BeaconTxLength), the rewrite of a bare subscription  *)
(* filter (FilterRewrite), the making of a clientReq from a subscribe     *)
(* request (ClientReq) and the admission of a websocket client (WSAuth).  *)
(* The initial states are the union of the four modules' inputs, each with the others' variables at a fixed neutral   *)
(* value; no step changes anything.                                       *)
(***************************************************************************)
EXTENDS BeaconTxLength, TLC

CONSTANTS Fields, Ops, Values, NestValue,
          NilInclude, NilCall, EmptyFilters

VARIABLES filter, request, conn

F == INSTANCE FilterRewrite

NoFilter == [kind |-> "none"]
NoRequest == [feed |-> "none"]

-----------------------------------------------------------------------------
(* The node websocket manager's RPC tables: eth_call needs "data". *)
MCValidRPCCallMethods == {"eth_call", "eth_blockNumber"}
MCValidRPCCallPayloadFields == {"data", "to"}
MCRequiredPayloadFields == ("eth_call" :> {"data"}) @@ ("eth_blockNumber" :> {})

\* Entitlements: all fields with or without filtering, expired, a short
\* field list, and a short list with filtering.
Streams == {"NewTransactionStreaming", "PendingTransactionStreaming",
            "NewBlockStreaming", "OnBlockFeed", "TransactionReceiptFeed"}
Entitlements ==
    {[expired |-> FALSE, allowFiltering |-> TRUE,  fields |-> {"all"}],
     [expired |-> FALSE, allowFiltering |-> FALSE, fields |-> {"all"}],
     [expired |-> TRUE,  allowFiltering |-> TRUE,  fields |-> {"all"}],
     [expired |-> FALSE, allowFiltering |-> FALSE, fields |-> {"tx_hash", "hash", "slot"}],
     [expired |-> FALSE, allowFiltering |-> TRUE,  fields |-> {"tx_hash", "tx_contents"}]}
Account(s) == [x \in Streams |-> s]
AllOf == Account([expired |-> FALSE, allowFiltering |-> TRUE, fields |-> {"all"}])

GasOver == F!Clause("gas", ">", <<"21000">>)
Filters(vs) ==
    {EmptyFilters}
    \cup {[tree |-> F!Clause("gas", ">", <<v>>), parseOk |-> TRUE, evalOk |-> TRUE] : v \in vs}
    \cup {[tree |-> GasOver, parseOk |-> p, evalOk |-> ~p] : p \in BOOLEAN}
Includes == {NilInclude, <<>>, <<"tx_hash">>, <<"tx_contents">>, <<"hash">>,
             <<"slot">>, <<"name">>}

\* The tables of ClientReq, before any request is enumerated.
C0 == INSTANCE ClientReq WITH ValidRPCCallMethods <- MCValidRPCCallMethods,
        ValidRPCCallPayloadFields <- MCValidRPCCallPayloadFields,
        RequiredPayloadFields <- MCRequiredPayloadFields, Requests <- {}

Base(feed, inc, match, flt, acct, cps) ==
    [paramsOk |-> TRUE, nParams |-> 2, feed |-> feed, accountMatch |-> match,
     include |-> inc, filter |-> flt, callParams |-> cps, account |-> acct]

\* Call-Params entries: valid ones with and without a name (one named "1",
\* the default name of the second entry), and one of each error.
Entries ==
    {NilCall,
     "method" :> "eth_blockNumber",
     ("method" :> "eth_blockNumber") @@ ("name" :> "1"),
     ("method" :> "eth_call") @@ ("data" :> "d") @@ ("tag" :> "-1"),
     ("method" :> "eth_call") @@ ("tag" :> "latest"),
     ("method" :> "eth_blockNumber") @@ ("tag" :> "1"),
     ("method" :> "eth_blockNumber") @@ ("name" :> "a") @@ ("gas" :> "g"),
     "method" :> "eth_send",
     "name" :> "a"}
CallLists == {<<>>} \cup {<<e>> : e \in Entries} \cup {<<e, d>> : e, d \in Entries}

\* Every feed (and an unknown one) with every include, account match,
\* filter outcome and entitlement; malformed params; onBlock with every
\* Call-Params list of up to two entries.
MCRequests(vs) ==
    {Base(feed, inc, m, flt, Account(s), <<>>)
        : feed \in C0!availableFeeds \cup {"bogus"}, inc \in Includes,
          m \in BOOLEAN, flt \in Filters(vs), s \in Entitlements}
    \cup {[Base("newTxs", <<>>, TRUE, EmptyFilters, AllOf, <<>>) EXCEPT !.paramsOk = FALSE],
          [Base("newTxs", <<>>, TRUE, EmptyFilters, AllOf, <<>>) EXCEPT !.nParams = 1]}
    \cup {Base("onBlock", <<>>, TRUE, EmptyFilters, AllOf, cps) : cps \in CallLists}

C == INSTANCE ClientReq WITH ValidRPCCallMethods <- MCValidRPCCallMethods,
        ValidRPCCallPayloadFields <- MCValidRPCCallPayloadFields,
        RequiredPayloadFields <- MCRequiredPayloadFields,
        Requests <- MCRequests(Values)

-----------------------------------------------------------------------------
(* Client IDs and hashes: the gateway's own, a customer's, and empty.   *)
MCGatewayAccount == [id |-> "gw", secret |-> "g", tier |-> "Enterprise"]

A == INSTANCE WSAuth WITH Ids <- {"gw", "cust", ""}, Hashes <- {"g", "c", ""},
                          Tiers <- {"Developer", "Enterprise"},
                          EnterpriseTiers <- {"Enterprise", "EnterpriseElite", "Ultra"},
                          EliteTier <- "EnterpriseElite",
                          GatewayAccount <- MCGatewayAccount

NoConn == [header |-> "none"]

PureInit ==
    \/ Init /\ filter = NoFilter /\ request = NoRequest /\ conn = NoConn
    \/ len = 0 /\ first = 0 /\ F!Init /\ request = NoRequest /\ conn = NoConn
    \/ len = 0 /\ first = 0 /\ filter = NoFilter /\ C!Init /\ conn = NoConn
    \/ len = 0 /\ first = 0 /\ filter = NoFilter /\ request = NoRequest /\ A!Init

PureNext == UNCHANGED <<len, first, filter, request, conn>>

PureSpec == PureInit /\ [][PureNext]_<<len, first, filter, request, conn>>

(* ParseFilter turns every bare filter of the input set into its braced   *)
(* form (FilterRewrite!RewriteMatchesBraced).                              *)
FilterMatchesBraced == filter /= NoFilter => F!RewriteMatchesBraced

(* createClientReq registers a subscription only for an entitled account *)
(* (ClientReq!SubscriptionEntitled).                                       *)
ClientReqEntitled == request /= NoRequest => C!SubscriptionEntitled

(* createClientReq registers the subscription requested                  *)
(* (ClientReq!ClientReqAsRequested).                                       *)
ClientReqFaithful == request /= NoRequest => C!ClientReqAsRequested

(* wsHandler admits exactly the clients spec 4.G admits, under the       *)
(* account model it names (WSAuth!AuthAsSpecified).                        *)
WSClientAdmission == conn /= NoConn => A!AuthAsSpecified

=============================================================================
