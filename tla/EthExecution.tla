---------------------------- MODULE EthExecution ---------------------------
(***************************************************************************)
(* monad-rpc/src/handlers: one request that runs transactions on the       *)
(* execution engine (eth_call, eth_estimateGas, eth_fillTransaction,       *)
(* eth_createAccessList, eth_simulateV1, debug_traceCall, replayed         *)
(* traces), or that walks blocks for eth_feeHistory.  A step is what        *)
(* happens between two awaits that can see different heads of the chain.    *)
(***************************************************************************)
EXTENDS CallFrames

CONSTANTS
  Requests, Executors,  \* requests that may come, engines that may serve them
  MaxBlock,             \* bound: the newest block
  Retained,             \* triedb has the states of this many blocks
  BufferDrift,          \* bound: blocks between the buffer's latest and triedb's
  ProviderCall, ProviderEstimate, ProviderSimulate, \* limits on gas
  MaxCalls, MaxBlocks,                              \* limits of a simulation
  MaxResponse,          \* limit on the answer of a trace, in frames
  CallStipend, TransferGas,
  BlockTxs              \* transactions of block n: [gas, cap, tip]

\* A transfer fits in every limit; base fees are 64 bits wide.
ASSUME LimitAssumption ==
  /\ TransferGas \in Nat \ {0} /\ CallStipend \in Nat /\ BufferDrift \in Nat /\ MaxBlock \in Nat /\ 2 <= MaxBlock
  /\ ProviderCall \in Nat /\ ProviderEstimate \in Nat /\ ProviderSimulate \in Nat
  /\ TransferGas <= ProviderCall /\ TransferGas <= ProviderEstimate
  /\ \A n \in 0..MaxBlock : /\ BaseFee[n] \in 0..U64Max /\ Balance[n] \in Nat
                            /\ GasLimit[n] \in Nat /\ TransferGas <= GasLimit[n]

\* A run needs the gas of a transfer or more, and what it uses in the end (gas
\* is given back for cleared storage) is not more than it needed on the way.
ASSUME EngineAssumption ==
  \A e \in Executors :
    /\ DOMAIN e = {"need", "used", "refund", "out", "touches"}
    /\ e.need \in Nat /\ e.used \in Nat /\ e.refund \in Nat /\ e.touches \in SUBSET Slots
    /\ TransferGas <= e.need /\ e.used <= e.need
    /\ e.out \in {"Success", "ExecutionError", "OtherError", "ReserveBalanceViolation"}

\* A reference is a number, or one of these tags.
Latest       == -2
FinalizedTag == -3
References   == Nat \cup {Latest, FinalizedTag}

\* What the handlers get after parsing.
ASSUME RequestAssumption ==
  \A r \in Requests :
    /\ r.m \in {"call", "trace", "traceBlock", "accessList", "estimate", "fill", "simulate", "replay",
                 "gasPrice", "feeHistory"}
    /\ r.m \in {"call", "trace", "accessList", "estimate", "fill"} =>
         r.tx \in RequestType /\ r.ref \in References /\ r.over \in Optional
    /\ r.m = "simulate" =>
         /\ r.ref \in References /\ r.over \in Optional /\ r.blocks \in Seq(Seq(RequestType))
    /\ r.m = "replay" => r.ref \in Nat
    /\ r.m = "feeHistory" => r.ref \in References /\ r.count \in Nat

VARIABLES
  head,  \* latest block
  req,
  exec,  \* the engine: gas it needs, gas used and refunded, what it ends in
  pc, loc,
  log,   \* history variable: the executions of this request
  ans

executionVars == <<head, req, exec, pc, loc, log, ans>>

Fresh == [key |-> None, header |-> Header(0), tx |-> CallRequest, original |-> 0,
          lo |-> 0, hi |-> 0, used |-> 0, list |-> {}]

ExecutionInit == /\ head = 2 /\ req \in Requests /\ exec \in Executors
        /\ pc = "begin" /\ loc = Fresh /\ log = << >> /\ ans = [kind |-> "none"]

Advance == head < MaxBlock /\ head' = head + 1 /\ UNCHANGED <<req, exec, pc, loc, log, ans>>

Goto(p, l)  == pc' = p /\ loc' = l /\ UNCHANGED <<head, req, exec, log, ans>>
Answer(a)   == pc' = "done" /\ ans' = a /\ UNCHANGED <<head, req, exec, loc, log>>
Reject(e)   == Answer([kind |-> "error", err |-> e])
With(r, F(_)) == IF r.ok THEN F(r.v) ELSE Reject(r.err)

(***************************************************************************)
(* Triedb: the key of a reference, and the block behind a key while it is  *)
(* retained.                                                               *)
(***************************************************************************)
Stored(n) == n \in 0..head /\ n + Retained > head
get_block_key_from_tag_or_hash(ref) ==
  CASE ref = Latest -> head
    [] ref = FinalizedTag -> head - 1
    [] OTHER -> IF ref <= head THEN ref ELSE None

(***************************************************************************)
(* DataProvider: the numbers of the blocks whose header a reference may be *)
(* answered with.  The block buffer is asked first; its latest block can   *)
(* be ahead of triedb's or behind it.  None when no source has the block   *)
(* or reading it fails.                                                    *)
(***************************************************************************)
get_block_header(ref) ==
  LET Near(n) == (n - BufferDrift)..(n + BufferDrift) IN
    {None} \cup (0..MaxBlock \cap CASE ref = Latest -> Near(head)
                                   [] ref = FinalizedTag -> Near(head - 1)
                                   [] OTHER -> {ref} \cap 0..(head + BufferDrift))

(***************************************************************************)
(* The engine: with too little gas it ends out of gas.                     *)
(***************************************************************************)
eth_call(env) ==
  IF env.gas < exec.need THEN [code |-> "OutOfGas", used |-> env.gas, refund |-> 0]
  ELSE [code |-> exec.out, used |-> exec.used, refund |-> exec.refund]

Execution(env) ==
  [key |-> loc.key, num |-> loc.header.num, gas |-> env.gas, list |-> env.list]
Executed(env, p, l) == /\ pc' = p /\ loc' = l /\ log' = Append(log, Execution(env))
                       /\ UNCHANGED <<head, req, exec, ans>>
ExecutedLast(env, a) == /\ pc' = "done" /\ ans' = a /\ log' = Append(log, Execution(env))
                        /\ UNCHANGED <<head, req, exec, loc>>

\* From<EthCallError> for CallResult, From<FailureCallResult> for JsonRpcError
Failure(result) ==
  [kind |-> "error",
   err |-> CASE result.code = "ExecutionError" -> "execution_reverted"
             [] result.code = "OutOfGas" -> "out_of_gas"
             [] OTHER -> "eth_call_error"]
OutOfGas(provider, limit, original, e) ==
  [kind |-> "error", err |-> IF provider < limit /\ provider < original THEN "provider_limit" ELSE e]

(***************************************************************************)
(* prepare_eth_call_at_block, up to the execution.                         *)
(***************************************************************************)
capped == req.m = "accessList"    \* OutOfGasHandling::ReturnAsCallFailure

prepare_eth_call_at_block(next) ==
  With(merge_input(loc.tx), LAMBDA t :
    IF t.gas > ProviderCall /\ ~capped THEN Reject("gas_exceeds_provider_limit")
    ELSE IF ~Stored(loc.key) THEN Reject("block_not_found")
    ELSE LET tx     == [t EXCEPT !.gas = IF @ > ProviderCall THEN ProviderCall ELSE @]
             header == Header(loc.key)
             limit  == Smaller(ProviderCall, header.limit)
         IN With(fill_gas_params(tx, loc.key, header, req.over, limit), LAMBDA f :
              With(Then(check_chain_id(f.tx), LAMBDA c : check_value_transfer_balance(c, loc.key, req.over)),
                LAMBDA c : Goto(next, [loc EXCEPT !.tx = c, !.header = f.header,
                                                  !.original = OrElse(tx.gas, header.limit)]))))

\* prepare_eth_call: the block is named once
prepare_eth_call(next) ==
  LET key == get_block_key_from_tag_or_hash(req.ref) IN
    IF key = None THEN Reject("block_not_found")
    ELSE Goto(next, [loc EXCEPT !.key = key, !.tx = req.tx])

CallOutOfGas == OutOfGas(Smaller(ProviderCall, GasLimit[loc.key]), GasLimit[loc.key], loc.original, "out_of_gas")

monad_eth_call ==
  \/ pc = "begin" /\ prepare_eth_call("prepare")
  \/ pc = "prepare" /\ prepare_eth_call_at_block("execute")
  \/ /\ pc = "execute"
     /\ With(try_from(loc.tx), LAMBDA env :
          LET r == eth_call(env) IN
            ExecutedLast(env, CASE r.code = "Success" -> [kind |-> "output"]
                                [] r.code = "OutOfGas" -> CallOutOfGas
                                [] OTHER -> Failure(r)))

\* a revert still has a trace; the tracer and its frames come with the request
monad_debug_traceCall ==
  \/ pc = "begin" /\ prepare_eth_call("prepare")
  \/ pc = "prepare" /\ prepare_eth_call_at_block("execute")
  \/ /\ pc = "execute"
     /\ With(try_from(loc.tx), LAMBDA env :
          LET r    == eth_call(env)
              tree == decode_call_frame(req.frames, req.tracer)
          IN ExecutedLast(env,
               CASE r.code = "OutOfGas" -> CallOutOfGas
                 [] r.code \notin {"Success", "ExecutionError", "OutOfGas"} -> Failure(r)
                 [] r.code \in {"Success", "ExecutionError"} ->
                      IF ~tree.ok THEN [kind |-> "error", err |-> tree.err]
                      ELSE IF tree.v # << >> /\ TreeSize(tree.v[1]) > MaxResponse
                      THEN [kind |-> "error", err |-> "response_too_large"]
                      ELSE [kind |-> "tree", tree |-> tree.v]))

\* debug_traceBlockByHash, debug_traceBlockByNumber: traces that are stored
monad_debug_traceBlock ==
  /\ pc = "begin"
  /\ With(decode_block_call_frames(req.txs, req.traces, req.tracer, MaxResponse), LAMBDA trees :
       Answer([kind |-> "trees", trees |-> trees]))

(***************************************************************************)
(* eth_createAccessList: one traced run, then a run with the list.         *)
(***************************************************************************)
from_follow_up_call_result(r) ==
  IF r.code = "OtherError" THEN Failure(r)
  ELSE [kind |-> "accessList", list |-> loc.list, used |-> r.used, failed |-> r.code # "Success"]

\* Mutant: the second run is on the block that is latest by then.
FollowUpAnywhere ==
  \/ pc = "begin" /\ prepare_eth_call("prepare")
  \/ pc = "prepare" /\ prepare_eth_call_at_block("trace")
  \/ /\ pc = "trace"
     /\ With(try_from(loc.tx), LAMBDA env :
          Executed(env, "again", [loc EXCEPT !.list = exec.touches,
             !.tx = [req.tx EXCEPT !.list = merge_access_lists(exec.touches, req.tx), !.listed = TRUE]]))
  \/ pc = "again" /\ Goto("followUp", [loc EXCEPT !.key = get_block_key_from_tag_or_hash(req.ref)])
  \/ pc = "followUp" /\ prepare_eth_call_at_block("execute")
  \/ /\ pc = "execute"
     /\ With(try_from(loc.tx), LAMBDA env : ExecutedLast(env, from_follow_up_call_result(eth_call(env))))

monad_createAccessList ==
  \/ pc = "begin" /\ prepare_eth_call("prepare")
  \/ pc = "prepare" /\ prepare_eth_call_at_block("trace")
  \/ /\ pc = "trace"
     /\ With(try_from(loc.tx), LAMBDA env :
          LET r == eth_call(env) IN
            IF r.code \in {"OutOfGas", "OtherError", "ReserveBalanceViolation"}
            THEN ExecutedLast(env, Failure(r))
            ELSE Executed(env, "followUp", [loc EXCEPT !.list = exec.touches,
                   !.tx = [req.tx EXCEPT !.list = merge_access_lists(exec.touches, req.tx), !.listed = TRUE]]))
  \/ pc = "followUp" /\ prepare_eth_call_at_block("execute")
  \/ /\ pc = "execute"
     /\ With(try_from(loc.tx), LAMBDA env : ExecutedLast(env, from_follow_up_call_result(eth_call(env))))

(***************************************************************************)
(* eth_estimateGas and the estimate of eth_fillTransaction.                *)
(***************************************************************************)
Estimated(tx, gas) ==
  IF req.m = "estimate" THEN Answer([kind |-> "gas", gas |-> gas])
  ELSE With(build_unsigned_transaction([tx EXCEPT !.gas = gas]), LAMBDA f :
         Answer([kind |-> "filled", gas |-> gas, tx |-> f.tx, raw |-> f.raw]))

build_tx(tx) == IF req.m = "fill" THEN build_fill_transaction_envelope(tx) ELSE try_from(tx)

\* the first run, and the bounds when no second run is needed
EstimateFirst ==
  /\ pc = "first"
  /\ With(build_tx(loc.tx), LAMBDA env :
       LET r    == eth_call(env)
           next == [loc.tx EXCEPT !.gas = ((r.used + r.refund + CallStipend) * 64) \div 63]
           l    == [loc EXCEPT !.tx = next, !.hi = env.gas, !.lo = r.used - 1]
           limit == GasLimit[loc.header.num]
       IN CASE r.code = "Success" -> Executed(env, IF next.gas < env.gas THEN "second" ELSE "search", l)
            [] r.code = "OutOfGas" ->
                 ExecutedLast(env, OutOfGas(Smaller(ProviderEstimate, limit), limit, loc.original, "out_of_gas"))
            [] OTHER -> ExecutedLast(env, Failure(r)))

\* Mutant: takes the guess for an upper bound whatever came of it.
SecondUnchecked ==
  /\ pc = "second"
  /\ With(build_tx(loc.tx), LAMBDA env : Executed(env, "search", [loc EXCEPT !.hi = env.gas]))

EstimateSecond ==
  /\ pc = "second"
  /\ With(build_tx(loc.tx), LAMBDA env :
       LET r == eth_call(env) IN
         Executed(env, "search", IF r.code = "Success" THEN [loc EXCEPT !.lo = r.used - 1, !.hi = env.gas]
                                 ELSE [loc EXCEPT !.lo = env.gas]))

\* to within 1.5 percent
EstimateSearch ==
  /\ pc = "search"
  /\ IF loc.hi - loc.lo <= 1 \/ (loc.hi - loc.lo) * 1000 < loc.hi * 15
     THEN Estimated(loc.tx, loc.hi)
     ELSE LET mid == (loc.hi + loc.lo) \div 2 IN
       With(build_tx([loc.tx EXCEPT !.gas = mid]), LAMBDA env :
         Executed(env, "search", IF eth_call(env).code = "Success" THEN [loc EXCEPT !.hi = mid, !.tx.gas = mid]
                                 ELSE [loc EXCEPT !.lo = mid, !.tx.gas = mid]))

estimate_gas_with_builder == EstimateFirst \/ EstimateSecond \/ EstimateSearch

\* A transfer is tried with the gas of a transfer first.
monad_eth_estimateGas ==
  \/ /\ pc = "begin"
     /\ With(merge_input(req.tx), LAMBDA t :
          LET key == get_block_key_from_tag_or_hash(req.ref) IN
            IF t.gas > ProviderEstimate THEN Reject("gas_exceeds_provider_limit")
            ELSE IF key = None THEN Reject("block_not_found")
            ELSE Goto("header", [loc EXCEPT !.key = key, !.tx = t]))
  \/ /\ pc = "header"
     /\ IF ~Stored(loc.key) THEN Reject("block_not_found")
        ELSE LET header == Header(loc.key)
                 limit  == Smaller(ProviderEstimate, header.limit)
             IN With(fill_gas_params(loc.tx, loc.key, header, req.over, limit), LAMBDA f :
                  With(check_chain_id(f.tx), LAMBDA c :
                    Goto("transfer", [loc EXCEPT !.tx = c, !.header = f.header,
                                                 !.original = OrElse(loc.tx.gas, header.limit)])))
  \/ /\ pc = "transfer"
     /\ IF loc.tx.to = None \/ OrElse(loc.tx.input, 0) # 0 \/ req.code \/ ~Stored(loc.key)
        THEN Goto("first", loc)
        ELSE With(try_from([loc.tx EXCEPT !.gas = TransferGas]), LAMBDA env :
               IF eth_call(env).code = "Success" THEN ExecutedLast(env, [kind |-> "gas", gas |-> TransferGas])
               ELSE Executed(env, "first", loc))
  \/ estimate_gas_with_builder

\* fill_transaction_with_provider: the header is the latest of the buffer, the
\* block of the run the latest of triedb, each at its own time
monad_eth_fillTransaction ==
  \/ /\ pc = "begin"
     /\ With(normalize_fill_transaction_request(req.tx), LAMBDA t :
          IF t.from = None THEN Reject("invalid_params")
          ELSE Goto("header", [loc EXCEPT !.tx = [t EXCEPT !.value = OrElse(@, 0), !.chain = ChainId]]))
  \/ /\ pc = "header"
     /\ \E n \in get_block_header(Latest) :
          IF n = None THEN Reject("block_not_found") ELSE Goto("key", [loc EXCEPT !.header = Header(n)])
  \/ pc = "key" /\ Goto("nonce", [loc EXCEPT !.key = get_block_key_from_tag_or_hash(Latest)])
  \/ /\ pc = "nonce"
     /\ IF loc.tx.nonce = None /\ ~Stored(loc.key) THEN Reject("internal_error")
        ELSE LET base == loc.header.base
                 tx   == [loc.tx EXCEPT !.nonce = OrElse(@, loc.key)]
                 fill == IF tx.legacy THEN base ELSE Smaller(3 * base, U256Max) \div 2
             IN With(fill_transaction_gas_price_details(tx, base, fill, IF tx.legacy THEN 0 ELSE TipSuggestion),
                  LAMBDA t :
                    IF t.gas # None THEN Estimated(t, t.gas)
                    ELSE Goto("first", [loc EXCEPT !.tx = [t EXCEPT !.gas = Smaller(ProviderEstimate, loc.header.limit)],
                                                   !.original = loc.header.limit]))
  \/ estimate_gas_with_builder

(***************************************************************************)
(* eth_simulateV1: blocks of calls on top of a block.  The price of a call *)
(* that names none also holds for the later calls of its block.            *)
(***************************************************************************)
SimulateCall(r, call, key) ==
  Then(r, LAMBDA acc :
    Then(fill_gas_params(merge_input(call).v, key, acc.header, req.over, ProviderCall), LAMBDA f :
      IF acc.gas + f.tx.gas > ProviderSimulate THEN Err("simulation_gas_limit")
      ELSE Ok([gas |-> acc.gas + f.tx.gas, header |-> f.header, txs |-> Append(acc.txs, f.tx)])))

SimulateBlock(r, calls, key) ==
  LET Filled[i \in 0..Len(calls)] ==
        IF i = 0 THEN Then(r, LAMBDA acc : Ok([acc EXCEPT !.header = Header(key)]))
        ELSE SimulateCall(Filled[i - 1], calls[i], key)
  IN Filled[Len(calls)]

SimulateFill(key) ==
  LET Filled[i \in 0..Len(req.blocks)] ==
        IF i = 0 THEN Ok([gas |-> 0, header |-> Header(key), txs |-> << >>])
        ELSE SimulateBlock(Filled[i - 1], req.blocks[i], key)
  IN Filled[Len(req.blocks)]

monad_simulate_v1 ==
  LET calls == FlattenSeq(req.blocks)
      key   == get_block_key_from_tag_or_hash(req.ref)
  IN \/ /\ pc = "begin"
        /\ CASE ~req.validation -> Reject("not_supported")
             [] req.validation /\ Len(req.blocks) > MaxBlocks -> Reject("too_many_blocks")
             [] req.validation /\ Len(req.blocks) <= MaxBlocks /\ Len(calls) > MaxCalls -> Reject("too_many_calls")
             [] OTHER -> IF key = None THEN Reject("block_not_found")
                         ELSE Goto("header", [loc EXCEPT !.key = key])
     \/ /\ pc = "header"
        /\ IF ~Stored(loc.key) THEN Reject("block_not_found")
           ELSE IF \E b \in DOMAIN req.blocks : \E i \in DOMAIN req.blocks[b] : ~merge_input(req.blocks[b][i]).ok
           THEN Reject("invalid_params")
           ELSE With(SimulateFill(loc.key), LAMBDA f :
                  IF \E i \in DOMAIN f.txs : ~check_chain_id(f.txs[i]).ok THEN Reject("invalid_chain_id")
                  ELSE IF \E i \in DOMAIN f.txs : ~try_from(f.txs[i]).ok THEN Reject("invalid_params")
                  ELSE Goto("execute", [loc EXCEPT !.header = Header(loc.key), !.original = f.gas]))
     \/ pc = "execute" /\ loc.key > 0 /\ Reject("block_not_found")  \* triedb has no key of the parent
     \/ /\ pc = "execute"
        /\ ExecutedLast([gas |-> loc.original, list |-> {}],
                        IF exec.out = "OtherError" THEN [kind |-> "error", err |-> "simulate_error"]
                        ELSE [kind |-> "output"])

(***************************************************************************)
(* debug_replay.rs: traces of the prestateTracer run the block again, on   *)
(* the state of its parent.  A hash is looked up in the latest block.  The *)
(* keys of the parent and of its parent may be missing from triedb.        *)
(***************************************************************************)
monad_debug_trace_replay ==
  \/ /\ pc = "begin"
     /\ LET key == get_block_key_from_tag_or_hash(IF req.hashed THEN Latest ELSE req.ref) IN
          IF key = None THEN Reject("internal_error") ELSE Goto("locate", [loc EXCEPT !.key = key])
  \/ /\ pc = "locate"
     /\ IF req.hashed /\ ~(Stored(loc.key) /\ req.ref <= loc.key) THEN Reject("block_not_found")
        ELSE Goto("replay", [loc EXCEPT !.key = IF req.hashed THEN req.ref ELSE @])
  \/ /\ pc = "replay"
     /\ IF loc.key = 0 THEN Reject("cannot_trace_the_genesis_block")
        ELSE \E parent, grandparent \in BOOLEAN :
          IF ~Stored(loc.key) \/ ~parent \/ (loc.key > 1 /\ ~grandparent) THEN Reject("internal_error")
          ELSE /\ pc' = "done"
               /\ log' = Append(log, [key |-> loc.key, num |-> loc.key, gas |-> 0, list |-> {}])
               /\ ans' = IF exec.out = "OtherError" THEN [kind |-> "error", err |-> "eth_call_error"]
                         ELSE IF Len(req.frames) > MaxResponse THEN [kind |-> "error", err |-> "response_too_large"]
                         ELSE [kind |-> "output"]
               /\ UNCHANGED <<head, req, exec, loc>>

(***************************************************************************)
(* eth_gasPrice and eth_feeHistory.                                        *)
(***************************************************************************)
monad_eth_gasPrice ==
  /\ pc = "begin"
  /\ \E n \in get_block_header(Latest) :
       IF n = None THEN Reject("internal_error")
       ELSE Answer([kind |-> "price", price |-> Smaller(BaseFee[n] + TipSuggestion, U64Max)])

effective_tip_per_gas(tx, base) == IF tx.cap < base THEN 0 ELSE Smaller(tx.tip, tx.cap - base)

GasOf(txs) == FoldLeft(LAMBDA n, tx : n + tx.gas, 0, txs)

\* Mutant: takes the transactions in the order of the block.
UnsortedRewards(txs, base, percentiles) ==
  LET Step(acc, pct) ==
        LET threshold == (GasOf(txs) * pct + 50) \div 100
            idx == Min({j \in acc.idx..Len(txs) : j = Len(txs) \/ GasOf(SubSeq(txs, 1, j)) >= threshold})
        IN [idx |-> idx,
            out |-> Append(acc.out, effective_tip_per_gas(txs[Smaller(idx + 1, Len(txs))], base))]
  IN IF txs = << >> THEN [i \in DOMAIN percentiles |-> 0]
     ELSE FoldLeft(Step, [idx |-> 0, out |-> << >>], percentiles).out

\* For each percentile, on through the transactions in the order of their tips
\* until so much of the gas is behind; the next transaction names the reward.
calculate_fee_history_rewards(txs, base, percentiles) ==
  LET Tip(i)  == effective_tip_per_gas(txs[i], base)
      order   == SetToSortSeq(DOMAIN txs, LAMBDA i, j : Tip(i) < Tip(j) \/ (Tip(i) = Tip(j) /\ i < j))
      Gas(j)  == GasOf([k \in 1..j |-> txs[order[k]]])
      Step(acc, pct) ==
        LET threshold == (GasOf(txs) * pct + 50) \div 100
            idx == Min({j \in acc.idx..Len(txs) : j = Len(txs) \/ Gas(j) >= threshold})
        IN [idx |-> idx, out |-> Append(acc.out, Tip(order[Smaller(idx + 1, Len(txs))]))]
  IN IF txs = << >> THEN [i \in DOMAIN percentiles |-> 0]
     ELSE FoldLeft(Step, [idx |-> 0, out |-> << >>], percentiles).out

\* the base fee of the block after the last one; None when it cannot be read
get_next_block_base_fee(previous) ==
  LET BaseFees(ref) == {IF n = None THEN None ELSE BaseFee[n] : n \in get_block_header(ref)} IN
    CASE req.ref = Latest -> {previous}
      [] req.ref = FinalizedTag -> BaseFees(Latest)
      [] OTHER -> IF req.ref + 1 > head THEN {previous} ELSE BaseFees(req.ref + 1)

\* Blocks and receipts of the range are read by number; any read may fail.
monad_eth_feeHistory ==
  \/ /\ pc = "begin"
     /\ LET pct == req.percentiles
            refused == Len(pct) > 100 \/ \E i \in DOMAIN pct : pct[i] > 100 \/ (i > 1 /\ pct[i - 1] > pct[i])
        IN CASE req.count = 0 -> Answer([kind |-> "history", oldest |-> 0, base |-> << >>, rewards |-> << >>])
             [] req.count > 1024 -> Reject("block_count")
             [] OTHER -> \E newest \in get_block_header(req.ref) :
                  IF newest = None THEN Reject("internal_error")
                  ELSE IF refused THEN Reject("percentiles")
                  ELSE Goto("blocks", [loc EXCEPT !.key = newest, !.lo = Larger(newest - (req.count - 1), 0)])
  \/ pc = "blocks" /\ (Goto("next", loc) \/ Reject("internal_error"))
  \/ /\ pc = "next"
     /\ LET range == [i \in 1..loc.key - loc.lo + 1 |-> loc.lo + i - 1]
            Rewards(b) == calculate_fee_history_rewards(BlockTxs[b], BaseFee[b], req.percentiles)
        IN \E next \in get_next_block_base_fee(BaseFee[loc.key]) :
             IF next = None THEN Reject("internal_error")
             ELSE Answer([kind |-> "history", oldest |-> loc.lo,
                          base |-> Append([i \in DOMAIN range |-> BaseFee[range[i]]], next),
                          rewards |-> IF req.percentiles = << >> THEN << >>
                                      ELSE [i \in DOMAIN range |-> Rewards(range[i])]])

Done == pc = "done" /\ UNCHANGED executionVars

ExecutionNext ==
  \/ Advance
  \/ req.m = "call" /\ monad_eth_call
  \/ req.m = "trace" /\ monad_debug_traceCall
  \/ req.m = "traceBlock" /\ monad_debug_traceBlock
  \/ req.m = "accessList" /\ monad_createAccessList
  \/ req.m = "estimate" /\ monad_eth_estimateGas
  \/ req.m = "fill" /\ monad_eth_fillTransaction
  \/ req.m = "simulate" /\ monad_simulate_v1
  \/ req.m = "replay" /\ monad_debug_trace_replay
  \/ req.m = "gasPrice" /\ monad_eth_gasPrice
  \/ req.m = "feeHistory" /\ monad_eth_feeHistory
  \/ Done

ExecutionSpec == ExecutionInit /\ [][ExecutionNext]_executionVars

-----------------------------------------------------------------------------
\* An estimate succeeds on the engine, and nothing 1.5 percent below it does.
EstimateExact ==
  ans.kind \in {"gas", "filled"} /\ log # << >> =>
    /\ exec.out = "Success" /\ exec.need <= ans.gas
    /\ exec.need = ans.gas \/ exec.need * 1000 > ans.gas * 985

\* The rewards of eth_feeHistory rise with the percentiles, and at least that
\* share of the gas of the block was paid at most the reward.
RewardsExact ==
  ans.kind = "history" => \A i \in DOMAIN ans.rewards :
    LET txs  == BlockTxs[ans.oldest + i - 1]
        base == BaseFee[ans.oldest + i - 1]
        Paid(reward) == GasOf(SelectSeq(txs, LAMBDA tx : effective_tip_per_gas(tx, base) <= reward))
    IN \A k \in DOMAIN req.percentiles :
         /\ Paid(ans.rewards[i][k]) * 100 + 50 >= GasOf(txs) * req.percentiles[k]
         /\ k > 1 => ans.rewards[i][k - 1] <= ans.rewards[i][k]

\* All runs of a request are on one block and with one header, however far the
\* chain goes on between them, and none has more gas than the provider allows.
\* The header is that of the block, except that eth_fillTransaction reads its
\* header from the buffer and its block from triedb, which can be apart by any
\* number of blocks in either direction.
PinnedBlock ==
  \A i \in DOMAIN log :
    /\ log[i].key = log[1].key /\ log[i].num = log[1].num
    /\ req.m # "fill" => log[i].num = log[i].key
    /\ log[i].gas <= CASE req.m \in {"estimate", "fill"} -> ProviderEstimate
                       [] req.m = "simulate" -> ProviderSimulate
                       [] OTHER -> ProviderCall

\* eth_fillTransaction answers with a transaction that can be signed and
\* included now: it pays the base fee it saw, its tip fits its cap, no cap of
\* the user was lowered, and raw and tx agree.
FilledSignable ==
  ans.kind = "filled" =>
    /\ ans.raw.cap >= loc.header.base
    /\ ~ans.tx.legacy => /\ ans.tx.tip <= ans.tx.cap
                         /\ ans.tx.cap >= req.tx.cap
    /\ ans.raw.gas = ans.gas /\ ans.raw.gas > 0
    /\ ans.tx.type # None => ans.tx.type = ans.raw.type
    /\ req.tx.listed => ans.raw.list = req.tx.list

PreOrder(root) ==
  LET Ordered[frame \in Within(root)] ==
        <<frame>> \o FlattenSeq([c \in DOMAIN frame.calls |-> Ordered[frame.calls[c]]])
  IN Ordered[root]

\* Where a log belongs: before the call its frame makes next, and after the
\* logs of the frames that end there.
LogPlace(frames, i, k) ==
  LET inside == {j \in DOMAIN frames : j > i /\ \A x \in i + 1..j : frames[x].depth > frames[i].depth}
      calls  == {j \in inside : frames[j].depth = frames[i].depth + 1}
      later  == {j \in calls : Cardinality({x \in calls : x < j}) >= frames[i].logs[k]}
  IN <<IF later = {} THEN i + Cardinality(inside) + 1 ELSE Min(later), -frames[i].depth, k>>

Before(p, q) == \/ p[1] < q[1]
                \/ p[1] = q[1] /\ p[2] < q[2]
                \/ p[1] = q[1] /\ p[2] = q[2] /\ p[3] < q[3]

TreeOf(f, tree) ==
  LET flat == PreOrder(tree)
      logs == {x \in (DOMAIN f) \X (1..3) : x[2] \in DOMAIN f[x[1]].logs}
  IN /\ [i \in DOMAIN flat |-> flat[i].id] = [i \in DOMAIN f |-> f[i].id]
     /\ \A i \in DOMAIN flat : \A c \in DOMAIN flat[i].calls :
          flat[i].calls[c].depth = flat[i].depth + 1
     /\ req.tracer.log => \A x \in logs :
          flat[x[1]].logs[x[2]].index =
            1 + Cardinality({y \in logs : Before(LogPlace(f, y[1], y[2]), LogPlace(f, x[1], x[2]))})

\* The tree of a trace has the frames in the order of the calls, each under
\* the frame that made the call, and numbers the logs in the order they were
\* emitted; a block has one tree for each of its transactions.
CallTree ==
  /\ ans.kind = "tree" /\ ans.tree # << >> /\ ~req.tracer.top => TreeOf(req.frames, ans.tree[1])
  /\ ans.kind = "trees" => /\ Len(ans.trees) = req.txs
                           /\ \A i \in DOMAIN ans.trees : TreeOf(req.traces[i], ans.trees[i])

\* What is computed from blocks alone is exact: the rewards of eth_feeHistory
\* and the trees of traces.
ReadingsExact == RewardsExact /\ CallTree
=============================================================================
