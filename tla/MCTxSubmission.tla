--------------------------- MODULE MCTxSubmission ---------------------------
(* Instantiates TxSubmission for TLC.  BlockInterval stands for BSC's     *)
(* 3000 ms block time and the fallbacks for 0, a value below it and one at *)
(* it, the three classes ProcessNextValidatorTx and handleSingleTransaction *)
(* tell apart; all requests carry the same tx hash, so resubmissions,     *)
(* overwrites of the pending entry and double sends can happen.           *)
EXTENDS TxSubmission, TLC

CONSTANTS r1, r2, x1

MCBlockInterval == 3
Fallbacks == {0, 1, 3}

\* The hex strings a run's clients send: well-formed only, or also not.
CONSTANT HexOk

TxInputs == [tx : {x1}, hexOk : HexOk, valid : BOOLEAN, nextValidator : BOOLEAN,
             fallback : Fallbacks, handleOk : BOOLEAN]
BatchInputs == {in \in TxInputs : ~in.nextValidator /\ in.fallback = 0}

MCSymmetry == Permutations({r1, r2})

\* Requests that pass the checks before their txs.
Admissible(k, txs) ==
    [kind |-> k, txs |-> txs, accountMatch |-> TRUE, paramsOk |-> TRUE,
     senderEmpty |-> FALSE]

\* One plain tx, and the requests carrying it that a check before the txs
\* may refuse: a foreign account, bad params, an empty original sender.
PlainTx == [tx |-> x1, hexOk |-> TRUE, valid |-> TRUE, nextValidator |-> FALSE,
            fallback |-> 0, handleOk |-> TRUE]
Refusable ==
    {[kind |-> k, txs |-> <<PlainTx>>, accountMatch |-> c[1], paramsOk |-> c[2],
      senderEmpty |-> c[3]]
        : k \in {"tx", "batch"},
          c \in {<<FALSE, TRUE, FALSE>>, <<TRUE, FALSE, FALSE>>, <<TRUE, TRUE, TRUE>>}}

MCMessages ==
    {Admissible("tx", <<in>>) : in \in TxInputs}
    \cup {Admissible("batch", <<a, b>>) : a, b \in BatchInputs}
    \cup Refusable
=============================================================================
