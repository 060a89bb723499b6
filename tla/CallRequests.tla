---------------------------- MODULE CallRequests ---------------------------
(***************************************************************************)
(* monad-rpc/src/handlers/eth/call.rs and gas.rs: what becomes of the      *)
(* CallRequest of eth_call, eth_estimateGas, eth_fillTransaction and their *)
(* relatives before it is executed.  A result is Ok(value) or Err(code).   *)
(* Bytes are their length, an access list is a set of slots.               *)
(***************************************************************************)
EXTENDS Integers, Sequences, FiniteSetsExt

CONSTANTS
  U64Max, U128Max, U256Max,  \* the widths that numbers are converted between
  ChainId,
  MaxCodeSize,
  TipSuggestion,             \* what the server suggests as priority fee
  BaseFee,                   \* base fee and gas limit of block n
  GasLimit,
  Balance,                   \* of the sender after block n
  Slots                      \* what access lists name

ASSUME WidthAssumption ==
  /\ U64Max \in Nat /\ U128Max \in Nat /\ U256Max \in Nat
  /\ 2 * U64Max <= U128Max /\ 2 * U128Max <= U256Max
  /\ ChainId \in Nat /\ MaxCodeSize \in Nat /\ TipSuggestion \in Nat

None == -1
Optional == Nat \cup {None}
OrElse(x, d) == IF x = None THEN d ELSE x
Smaller(x, y) == IF x < y THEN x ELSE y
Larger(x, y)  == IF x < y THEN y ELSE x

Ok(v)   == [ok |-> TRUE, v |-> v]
Err(e)  == [ok |-> FALSE, err |-> e]
Then(r, F(_)) == IF r.ok THEN F(r.v) ELSE r

\* The request with every field left out.  legacy says that gasPrice is given.
CallRequest ==
  [from |-> None, to |-> 1, gas |-> None, legacy |-> FALSE, price |-> 0, cap |-> None, tip |-> None,
   value |-> None, input |-> None, data |-> None, nonce |-> None, chain |-> None,
   list |-> {}, listed |-> FALSE, auth |-> FALSE, blob |-> FALSE, type |-> None]

RequestType ==
  [from : Optional, to : Optional, gas : Optional, legacy : BOOLEAN, price : Nat, cap : Optional, tip : Optional,
   value : Optional, input : Optional, data : Optional, nonce : Optional, chain : Optional,
   list : SUBSET Slots, listed : BOOLEAN, auth : BOOLEAN, blob : BOOLEAN, type : Optional]

max_fee_per_gas(tx) == IF tx.legacy THEN tx.price ELSE tx.cap

fill_gas_prices(tx, base) ==
  LET effective == base + OrElse(tx.tip, 0) IN
    IF tx.legacy THEN Ok([tx EXCEPT !.price = Larger(@, base)])
    ELSE IF effective > U256Max THEN Err("tip_too_high")
    ELSE IF tx.cap = None THEN Ok([tx EXCEPT !.cap = effective])
    ELSE IF tx.cap < base THEN Err("max_fee_below_base_fee")
    ELSE IF tx.tip # None /\ tx.cap < tx.tip THEN Err("invalid_params")
    ELSE Ok([tx EXCEPT !.cap = Smaller(@, effective)])

\* go-ethereum's two names of the same field
merge_input(tx) ==
  IF tx.input # None /\ tx.data # None /\ tx.input # tx.data THEN Err("invalid_params")
  ELSE Ok([tx EXCEPT !.input = IF @ = None THEN tx.data ELSE @, !.data = None])

check_contract_creation_size(tx) ==
  IF tx.to = None /\ OrElse(tx.input, 0) > 2 * MaxCodeSize THEN Err("code_too_large") ELSE Ok(tx)

FitsWidths(tx, gasDefault) ==
  /\ OrElse(tx.gas, gasDefault) <= U64Max
  /\ IF tx.legacy THEN tx.price <= U128Max
     ELSE OrElse(tx.cap, 0) <= U128Max /\ OrElse(tx.tip, 0) <= U128Max

Envelope(type, tx, gas) ==
  [type |-> type, gas |-> gas, list |-> IF type = 0 THEN {} ELSE tx.list,
   cap |-> OrElse(max_fee_per_gas(tx), 0), tip |-> IF tx.legacy THEN tx.price ELSE OrElse(tx.tip, 0)]

\* TryFrom<CallRequest> for TxEnvelope.  A legacy envelope has no access list.
try_from(tx) ==
  LET gas == OrElse(tx.gas, U64Max) IN
    IF ~FitsWidths(tx, U64Max) \/ (~tx.legacy /\ tx.auth /\ tx.to = None) THEN Err("invalid_params")
    ELSE IF ~tx.legacy /\ tx.auth THEN Ok(Envelope(4, tx, gas))
    ELSE Then(check_contract_creation_size(tx),
              LAMBDA t : Ok(Envelope(IF t.legacy THEN 0 ELSE 2, t, gas)))

merge_access_lists(generated, tx) == IF tx.listed THEN generated \cup tx.list ELSE generated

(***************************************************************************)
(* The chain as triedb shows it: block n is the block a key names.         *)
(***************************************************************************)
Header(n) == [num |-> n, base |-> BaseFee[n], limit |-> GasLimit[n]]

resolve_sender_balance(n, over) == OrElse(over, Balance[n])

sender_gas_allowance(tx, n, header, over) ==
  LET price   == max_fee_per_gas(tx)
      balance == resolve_sender_balance(n, over)
  IN IF tx.from = None \/ price \in {None, 0} THEN Ok(header.limit)
     ELSE IF balance = 0 \/ balance < OrElse(tx.value, 0) THEN Err("insufficient_funds")
     ELSE Ok(LET gas == (balance - OrElse(tx.value, 0)) \div price IN
               IF gas > U64Max THEN header.limit ELSE Smaller(gas, header.limit))

\* The transaction with gas and prices, and the header it is executed on: a
\* call that names no price pays none.
fill_gas_params(tx, n, header, over, limit) ==
  IF max_fee_per_gas(tx) \notin {None, 0}
  THEN Then(fill_gas_prices(tx, header.base), LAMBDA t :
         IF t.gas # None THEN Ok([tx |-> t, header |-> header])
         ELSE Then(sender_gas_allowance(t, n, header, over), LAMBDA gas :
                Ok([tx |-> [t EXCEPT !.gas = Smaller(gas, limit)], header |-> header])))
  ELSE Then(fill_gas_prices(tx, 0), LAMBDA t :
         Ok([tx |-> [t EXCEPT !.gas = OrElse(@, Smaller(header.limit, limit))],
             header |-> [header EXCEPT !.base = 0]]))

check_value_transfer_balance(tx, n, over) ==
  IF OrElse(tx.value, 0) # 0 /\ resolve_sender_balance(n, over) < tx.value
  THEN Err("insufficient_funds") ELSE Ok(tx)

check_chain_id(tx) ==
  IF tx.chain \in {None, ChainId} THEN Ok([tx EXCEPT !.chain = ChainId]) ELSE Err("invalid_chain_id")

(***************************************************************************)
(* eth_fillTransaction.                                                    *)
(***************************************************************************)
requires_eip2930_encoding(tx) ==
  tx.legacy /\ IF tx.type # None THEN tx.type = 1 ELSE tx.listed

validate_fill_transaction_type(tx) ==
  LET expected == CASE tx.legacy /\ tx.listed -> 1
                    [] tx.legacy /\ ~tx.listed -> 0
                    [] ~tx.legacy /\ tx.auth -> 4
                    [] OTHER -> 2
  IN IF tx.type \in {None, expected} THEN Ok(tx) ELSE Err("invalid_params")

normalize_fill_transaction_request(tx) ==
  Then(merge_input(tx), LAMBDA t :
    IF t.type = 3 \/ t.blob THEN Err("invalid_params")
    ELSE IF t.legacy /\ t.auth THEN Err("invalid_params")
    ELSE validate_fill_transaction_type([t EXCEPT !.gas = IF @ = 0 THEN None ELSE @]))

\* Mutant: clamps the cap of the user to what is needed now.
ClampedCap(tx, base, fillBase, suggestion) ==
  fill_gas_prices([tx EXCEPT !.cap = IF @ = 0 THEN None ELSE @, !.tip = OrElse(@, suggestion)], fillBase)

\* A cap of the user is only ever raised; without one it follows the default.
fill_transaction_gas_price_details(tx, base, fillBase, suggestion) ==
  LET tip == OrElse(tx.tip, suggestion) IN
    IF tx.legacy THEN fill_gas_prices(tx, fillBase)
    ELSE IF tx.cap \notin {None, 0}
    THEN Ok([tx EXCEPT !.cap = Larger(@, Larger(base, tip)), !.tip = tip])
    ELSE fill_gas_prices([tx EXCEPT !.cap = None, !.tip = tip], fillBase)

build_fill_transaction_eip2930(tx) ==
  Then(check_contract_creation_size(tx), LAMBDA t :
    IF FitsWidths(t, 0) THEN Ok(Envelope(1, t, OrElse(t.gas, 0))) ELSE Err("invalid_params"))

build_fill_transaction_envelope(tx) ==
  IF requires_eip2930_encoding(tx) THEN build_fill_transaction_eip2930(tx) ELSE try_from(tx)

\* what is signed, and the request that describes it
build_unsigned_transaction(tx) ==
  LET gas  == OrElse(tx.gas, 0)
      type == CASE tx.legacy -> 0 [] ~tx.legacy /\ tx.auth -> 4 [] OTHER -> 2
      raw  == IF requires_eip2930_encoding(tx) THEN build_fill_transaction_eip2930(tx)
              ELSE IF ~FitsWidths(tx, 0) \/ (type = 4 /\ tx.to = None) THEN Err("invalid_params")
              ELSE Ok(Envelope(type, tx, gas))
  IN Then(raw, LAMBDA e :
       Ok([raw |-> e,
           tx |-> [tx EXCEPT !.gas = gas, !.nonce = OrElse(@, 0), !.value = OrElse(@, 0),
                             !.chain = OrElse(@, ChainId),
                             !.type = IF requires_eip2930_encoding(tx) THEN 1 ELSE @]]))
=============================================================================
