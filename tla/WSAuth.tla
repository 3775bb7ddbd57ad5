------------------------------- MODULE WSAuth -------------------------------
(***************************************************************************)
(* The admission of a websocket client (src/servers/clienthandler.go):    *)
(* getAccountIDSecretHashFromReq reads the account ID and secret hash a   *)
(* client presents, and NewWSServer's wsHandler decides under which       *)
(* account model the connection is served, or closes it with a delay     *)
(* (errorWithDelay).                                                       *)
(*                                                                         *)
(* The Authorization header is abstracted to what base64 decoding and     *)
(* SplitN(":", 2) make of it: no header, undecodable, no colon, or an     *)
(* (id, hash) pair; the client certificate to whether it carries the bx   *)
(* account extension; the SDN's answer to getCustomerAccountModel to an   *)
(* account model, an error the 401 test recognises, or another error.     *)
(***************************************************************************)
EXTENDS Naturals

CONSTANTS
    Ids,                \* account IDs a client may present ("" included)
    Hashes,             \* secret hashes ("" included)
    Tiers,              \* account tiers
    EnterpriseTiers,    \* the tiers TierName.IsEnterprise() accepts
    EliteTier,          \* the tier of sdnmessage.GetDefaultEliteAccount
    GatewayAccount      \* feedManager.accountModel: [id, secret, tier]

Headers == [kind : {"none", "badBase64", "noColon"}, id : {""}, hash : {""}]
           \cup [kind : {"pair"}, id : Ids, hash : Hashes]
Certs == [kind : {"none", "noExt"}, id : {""}] \cup [kind : {"ext"}, id : Ids]
SdnAnswers == [kind : {"unauthorized", "error"}, tier : {""}, secret : {""}]
              \cup [kind : {"account"}, tier : Tiers, secret : Hashes]

Requests == [header : Headers, tlsEnabled : BOOLEAN, cert : Certs, sdn : SdnAnswers]

Rejected == [admitted |-> FALSE]
Admit(acct) == [admitted |-> TRUE, account |-> acct]

-----------------------------------------------------------------------------
(* getAccountIDSecretHashFromReq: the header when present, else (with TLS) *)
(* the certificate's extension; no account ID at the end is an error.      *)
getAccountIDSecretHashFromReq(q) ==
    LET Err == [err |-> TRUE]
        got == CASE q.header.kind = "pair" -> [err |-> FALSE, id |-> q.header.id, hash |-> q.header.hash]
                 [] q.header.kind # "none" -> Err
                 [] q.tlsEnabled /\ q.cert.kind = "noExt" -> Err
                 [] q.tlsEnabled /\ q.cert.kind = "ext" -> [err |-> FALSE, id |-> q.cert.id, hash |-> ""]
                 [] OTHER -> [err |-> FALSE, id |-> "", hash |-> ""]
    IN  IF ~got.err /\ got.id = "" THEN Err ELSE got

(* The account model wsHandler settles on for an account other than the   *)
(* gateway's: the SDN's, or on an error the 401 test does not match the    *)
(* default elite account carrying the client's ID and hash.                *)
CustomerAccountModel(q, c) ==
    IF q.sdn.kind = "account"
    THEN [id |-> c.id, secret |-> q.sdn.secret, tier |-> q.sdn.tier]
    ELSE [id |-> c.id, secret |-> c.hash, tier |-> EliteTier]

(* Mutant of SecretHashRejected: the hash is compared even when the       *)
(* client sent none.                                                       *)
SecretHashRejectedAlways(acct, c) == acct.secret # c.hash

(* connectionAccountModel.SecretHash != connectionSecretHash &&           *)
(* connectionSecretHash != ""                                              *)
SecretHashRejected(acct, c) == acct.secret # c.hash /\ c.hash # ""

(* wsHandler: every early return is errorWithDelay.                        *)
wsHandler(q) ==
    LET c == getAccountIDSecretHashFromReq(q)
        own == ~c.err /\ c.id = GatewayAccount.id
        acct == IF own THEN GatewayAccount ELSE CustomerAccountModel(q, c)
    IN  CASE c.err                                            -> Rejected
          [] ~own /\ q.sdn.kind = "unauthorized"              -> Rejected
          [] ~own /\ acct.tier \notin EnterpriseTiers         -> Rejected
          [] SecretHashRejected(acct, c)                      -> Rejected
          [] OTHER                                            -> Admit(acct)

-----------------------------------------------------------------------------
(* Spec 4.G, read on its own: the (ID, hash) a client presents -- the     *)
(* decoded "accountID:secretHash" header, or with TLS and no header the   *)
(* certificate's account ID -- the account models the SDN step allows for  *)
(* it, and of those the ones the tier and secret-hash rules keep.          *)
Presented(q) ==
    CASE q.header.kind = "pair" -> {<<q.header.id, q.header.hash>>}
      [] q.header.kind = "none" /\ q.tlsEnabled /\ q.cert.kind = "ext" -> {<<q.cert.id, "">>}
      [] OTHER -> {}

SpecAccounts(q, id, hash) ==
    IF id = GatewayAccount.id THEN {GatewayAccount}
    ELSE CASE q.sdn.kind = "unauthorized" -> {}
           [] q.sdn.kind = "error" -> {[id |-> id, secret |-> hash, tier |-> EliteTier]}
           [] OTHER -> {a \in {[id |-> id, secret |-> q.sdn.secret, tier |-> q.sdn.tier]} :
                            a.tier \in EnterpriseTiers}

SpecSessions(q) ==
    {a \in UNION {SpecAccounts(q, p[1], p[2]) : p \in {p \in Presented(q) : p[1] # ""}} :
        \A p \in Presented(q) : p[2] = "" \/ p[2] = a.secret}

VARIABLE conn

Init == conn \in Requests
Next == UNCHANGED conn
Spec == Init /\ [][Next]_conn

(* Spec 4.G: a websocket client is served exactly when the spec's         *)
(* authorization admits it, and under the account model the spec names:  *)
(* the gateway's own for its own ID, else the SDN's, or the default elite *)
(* profile when the SDN fails for a reason other than unauthorized; an    *)
(* account below enterprise, an SDN refusal, a missing or undecodable      *)
(* credential, and a mismatched non-empty secret hash are closed.          *)
AuthAsSpecified ==
    wsHandler(conn) = IF SpecSessions(conn) = {} THEN Rejected
                      ELSE Admit(CHOOSE a \in SpecSessions(conn) : TRUE)

=============================================================================
