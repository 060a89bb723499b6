------------------------------ MODULE RpcServer ------------------------------
(***************************************************************************)
(* monad-rpc's request path: a body arrives over HTTP or a WebSocket, is   *)
(* checked and split into calls, each call is dispatched to its method,    *)
(* the calls of a batch run some at a time and are answered in order, and  *)
(* the answer is cut at the response size.  Calls that execute the EVM     *)
(* hold a permit and an entry in the statistics until their future is      *)
(* finished or dropped.                                                    *)
(*                                                                         *)
(* What a method computes is left to the other modules: here a call is     *)
(* its method, whether its parameters parse, and how long its result is.   *)
(***************************************************************************)
EXTENDS RpcTypes, FiniteSets

CONSTANTS
  Conn,                 \* HTTP connections and WebSocket sessions
  WebSockets,           \* the sessions among them
  Body,                 \* the bodies clients send
  ResultLen,            \* lengths of results
  Resources,            \* resources the server was started with
  SupportedChain,       \* the chain id is one the executor knows
  MaxConcurrentPermits, \* max_concurrent_permits
  FeeHistoryPermits,    \* feehistory_max_concurrent_requests
  Fibers,               \* pool_low.num_fibers
  BatchRequestLimit,    \* batch_request_limit
  BatchConcurrentLimit, \* batch_concurrent_limit
  MaxResponseSize,      \* max_response_size
  MaxRequests           \* bound: requests sent in a behaviour

ASSUME ServerAssumption ==
  /\ MaxConcurrentPermits \in Nat /\ FeeHistoryPermits \in Nat /\ Fibers \in Nat
  /\ BatchConcurrentLimit \in Nat \ {0} /\ MaxResponseSize \in Nat

(* A body is one call, a list of calls, or cannot be read. *)
ASSUME BodyAssumption ==
  \A body \in Body :
    /\ body.kind \in {"single", "batch", "unreadable"}
    /\ body.calls \in Seq(Range(body.calls))
    /\ body.kind = "single" => Len(body.calls) = 1

VARIABLES
  conn,       \* the request each connection works on
  permits,    \* free permits of the eth_call rate limiter
  feePermits, \* free permits of the feehistory limiter
  active,     \* active_requests: request ids in the statistics
  stats,      \* CumulativeStats
  requests    \* requests received so far, and the last request id given out

serverVars == <<conn, permits, feePermits, active, stats, requests>>

-----------------------------------------------------------------------------
(* Errors and responses. *)
Error(code, message) == [code |-> code, message |-> message, data |-> None]
ParseError == Error(-32700, "Parse error")
InvalidRequest == Error(-32600, "Invalid request")
MethodNotFound == Error(-32601, "Method not found")
InvalidParams == Error(-32602, "Invalid params")
BatchTooLong == Error(-32000, "number of requests in batch request exceeds limit")
SizeExceeded == Error(-32000, "response exceeds size limit")
NoPermits == Error(-32603, "Internal error: concurrent requests limit")
NoFeePermits == Error(-32603, "Internal error: exceed feehistory max concurrent requests")
ChainError == [code |-> -32000, message |-> "unsupported chain id", data |-> Some(7)]
Reverted == [code |-> 3, message |-> "execution reverted", data |-> Some(4)]
BadEncoding == Error(400, "content encoding")

NullId == [kind |-> "null"]
FromError(e) == [result |-> None, error |-> Some(e), id |-> NullId]
FromResult(id, result) == [result |-> Some(result), error |-> None, id |-> id]
FromFailure(id, e) == [result |-> None, error |-> Some(e), id |-> id]

-----------------------------------------------------------------------------
(* The methods: the resources each asks for, whether it reads parameters,  *)
(* and the limiter it holds while it runs.                                 *)
RawMethods == {"debug_getRawBlock", "debug_getRawHeader", "debug_getRawReceipts",
               "debug_getRawTransaction"}
ReplayMethods == {"debug_traceBlockByHash", "debug_traceBlockByNumber",
                  "debug_traceTransaction"}
CallMethods == {"eth_call", "eth_simulateV1"}
TransactionMethods == {"eth_fillTransaction", "eth_createAccessList"}
ExecutionMethods ==
  {"debug_traceCall", "eth_estimateGas"} \cup CallMethods \cup TransactionMethods
LookupMethods == {"eth_getLogs", "eth_getTransactionByHash", "eth_getBlockByHash",
  "eth_getBlockByNumber", "eth_getTransactionByBlockHashAndIndex",
  "eth_getTransactionByBlockNumberAndIndex", "eth_getBlockTransactionCountByHash",
  "eth_getBlockTransactionCountByNumber"}
StateMethods == {"eth_getBalance", "eth_getCode", "eth_getStorageAt",
                 "eth_getTransactionCount"}
ReceiptMethods == {"eth_getTransactionReceipt", "eth_getBlockReceipts"}
TipMethods == {"eth_blockNumber", "eth_gasPrice"}
NodeMethods == {"eth_chainId", "eth_syncing", "eth_maxPriorityFeePerGas", "net_version",
                "web3_clientVersion"}
SendMethods == {"eth_sendRawTransaction", "eth_sendRawTransactionSync"}
TxPoolMethods == SendMethods \cup {"txpool_statusByHash", "txpool_statusByAddress"}
EnabledMethods ==
  {"admin_ethCallStatistics", "eth_feeHistory"} \cup RawMethods \cup ReplayMethods
    \cup ExecutionMethods \cup LookupMethods \cup StateMethods \cup ReceiptMethods
    \cup TipMethods \cup NodeMethods \cup TxPoolMethods

Needs(method) ==
  CASE method = "admin_ethCallStatistics" -> {"eth_call", "statistics"}
    [] method = "eth_simulateV1" -> {"simulate", "data", "eth_call"}
    [] method \in ExecutionMethods \ {"eth_simulateV1"} -> {"data", "eth_call"}
    [] method = "eth_sendRawTransactionSync" -> {"txpool", "events"}
    [] method \in TxPoolMethods \ {"eth_sendRawTransactionSync"} -> {"txpool"}
    [] method \in NodeMethods -> {}
    [] OTHER -> {"data"}
ReadsParams(method) ==
  method \notin NodeMethods \cup TipMethods \cup {"admin_ethCallStatistics"}

(* Everything a method refuses before it takes a permit, in its order. *)
Refusal(call) ==
  IF call.method \notin EnabledMethods \/ ~(Needs(call.method) \subseteq Resources)
    THEN Some(MethodNotFound)
  ELSE IF ReadsParams(call.method) /\ ~call.params THEN Some(InvalidParams)
  ELSE IF call.method \in ReplayMethods /\ call.replay /\ "eth_call" \notin Resources
    THEN Some(MethodNotFound)
  ELSE None

Limiter(call) ==
  IF call.method \in ExecutionMethods \/ (call.method \in ReplayMethods /\ call.replay)
    THEN "eth_call"
  ELSE IF call.method = "eth_feeHistory" THEN "feehistory"
  ELSE "none"

-----------------------------------------------------------------------------
(* A connection's request: its calls, the futures started so far, and the  *)
(* responses that have been taken from the buffer.                         *)
Running(limiter) == [state |-> "running", limiter |-> limiter]
Done(response) == [state |-> "done", response |-> response]

Idle == [stage |-> "idle"]
Answer(calls, wrapper) == [stage |-> "answered", calls |-> calls, reply |-> wrapper]
Single(response) == [batch |-> FALSE, responses |-> <<response>>]
Batch(responses) == [batch |-> TRUE, responses |-> responses]

Holds(slot, limiter) == slot.state = "running" /\ slot.limiter = limiter
HeldBy(c, limiter) ==
  IF conn[c].stage # "running" THEN {}
  ELSE {i \in DOMAIN conn[c].slots : Holds(conn[c].slots[i], limiter)}

(* EthCallStatsTracker: the requests of a batch share one id. *)
record_request_start(id) ==
  /\ active' = active \cup {id}
  /\ stats' = [stats EXCEPT !.total_requests = @ + 1]
record_request_dropped(id) == active' = active \ {id} /\ UNCHANGED stats
record_request_complete(id, success) ==
  /\ active' = active \ {id}
  /\ stats' = IF success THEN stats ELSE [stats EXCEPT !.total_errors = @ + 1]
record_queue_rejection ==
  /\ stats' = [stats EXCEPT !.queue_rejections = @ + 1,
                            !.total_requests = @ + 1, !.total_errors = @ + 1]
  /\ UNCHANGED active

(* Dropping a future drops its permit; one that had not finished leaves    *)
(* the statistics without a verdict.                                       *)
DropForgotten(c) ==
  /\ permits' = permits + Cardinality(HeldBy(c, "eth_call"))
  /\ feePermits' = feePermits + Cardinality(HeldBy(c, "feehistory"))
  /\ UNCHANGED <<active, stats>>
DropFutures(c) ==
  /\ permits' = permits + Cardinality(HeldBy(c, "eth_call"))
  /\ feePermits' = feePermits + Cardinality(HeldBy(c, "feehistory"))
  /\ IF HeldBy(c, "eth_call") = {} THEN UNCHANGED <<active, stats>>
     ELSE record_request_dropped(conn[c].id)

-----------------------------------------------------------------------------
(* A body arrives.  Over HTTP it passes the decompression guard and is     *)
(* given a request id by the timing middleware; it is one call or a list   *)
(* of them, and an unreadable body, an unreadable call or an empty or too  *)
(* long list is refused.  A WebSocket message is one call.                 *)
DecompressionGuard(body) ==
  IF body.encoding \notin {"none", "identity"} THEN Some(BadEncoding) ELSE None
from_raw_value(call) == IF call.readable THEN None ELSE Some(InvalidRequest)
HttpRefusal(body) ==
  IF DecompressionGuard(body) # None THEN DecompressionGuard(body)
  ELSE IF body.kind = "unreadable" THEN Some(ParseError)
  ELSE IF body.kind = "single" /\ from_raw_value(body.calls[1]) # None
    THEN from_raw_value(body.calls[1])
  ELSE IF body.kind = "batch" /\ body.calls = <<>> THEN Some(InvalidRequest)
  ELSE IF body.kind = "batch" /\ Len(body.calls) > BatchRequestLimit THEN Some(BatchTooLong)
  ELSE None
parse_request(body) ==
  IF body.kind = "single" /\ from_raw_value(body.calls[1]) = None THEN None
  ELSE Some(InvalidParams)
TimingRequestId == requests + 1

Receive(c, body) ==
  LET refusal == IF c \in WebSockets THEN parse_request(body) ELSE HttpRefusal(body) IN
  /\ requests < MaxRequests
  /\ conn[c] = Idle
  /\ requests' = TimingRequestId
  /\ conn' = [conn EXCEPT ![c] =
       IF refusal # None THEN Answer(body.calls, Single(FromError(refusal[1])))
       ELSE [stage |-> "running", id |-> TimingRequestId, batch |-> body.kind = "batch",
             calls |-> body.calls, slots |-> <<>>, taken |-> <<>>, len |-> 0]]
  /\ UNCHANGED <<permits, feePermits, active, stats>>

(* The next call starts while fewer than the limit are in the buffer.  Its *)
(* future runs up to its first await: it is refused, or rejected by its    *)
(* limiter, or answered at once, or left running.                          *)
StartAllowed(c) == Len(conn[c].slots) - Len(conn[c].taken) < BatchConcurrentLimit

Push(c, slot) == conn' = [conn EXCEPT ![c].slots = Append(@, slot)]

(* EthCallHandler::acquire *)
Acquire(c, call) ==
  IF permits = 0
    THEN /\ record_queue_rejection
         /\ Push(c, Done(FromFailure(call.id, NoPermits)))
         /\ UNCHANGED permits
    ELSE IF call.method \in ReplayMethods /\ ~SupportedChain
      THEN /\ stats' = [stats EXCEPT !.total_requests = @ + 1]
           /\ active' = active \ {conn[c].id}
           /\ Push(c, Done(FromFailure(call.id, ChainError)))
           /\ UNCHANGED permits
    ELSE /\ record_request_start(conn[c].id)
         /\ permits' = permits - 1
         /\ Push(c, Running("eth_call"))

(* monad_admin_ethCallStatistics: the length stands for the answer, whose  *)
(* counts are computed from the free permits without going below zero.     *)
Statistics ==
  LET running == MaxConcurrentPermits - permits IN
  [inactive |-> Saturating(Fibers - running), queued |-> Saturating(running - Fibers),
   ages |-> active # {}, stats |-> stats]
StatisticsLen == 20 + IntLen(Statistics.inactive) + IntLen(Statistics.queued)

StartCall(c) ==
  /\ conn[c].stage = "running"
  /\ Len(conn[c].slots) < Len(conn[c].calls)
  /\ StartAllowed(c)
  /\ LET call == conn[c].calls[Len(conn[c].slots) + 1] IN
       \/ /\ from_raw_value(call) # None
          /\ Push(c, Done(FromError(from_raw_value(call)[1])))
          /\ UNCHANGED <<permits, feePermits, active, stats>>
       \/ /\ from_raw_value(call) = None /\ Refusal(call) # None
          /\ Push(c, Done(FromFailure(call.id, Refusal(call)[1])))
          /\ UNCHANGED <<permits, feePermits, active, stats>>
       \/ /\ from_raw_value(call) = None /\ Refusal(call) = None /\ Limiter(call) = "eth_call"
          /\ Acquire(c, call)
          /\ UNCHANGED feePermits
       \/ /\ from_raw_value(call) = None /\ Refusal(call) = None /\ Limiter(call) = "feehistory"
          /\ IF feePermits = 0
               THEN Push(c, Done(FromFailure(call.id, NoFeePermits))) /\ UNCHANGED feePermits
               ELSE Push(c, Running("feehistory")) /\ feePermits' = feePermits - 1
          /\ UNCHANGED <<permits, active, stats>>
       \/ /\ from_raw_value(call) = None /\ Refusal(call) = None /\ Limiter(call) = "none"
          /\ IF call.method = "admin_ethCallStatistics"
               THEN Push(c, Done(FromResult(call.id, StatisticsLen)))
               ELSE Push(c, Running("none"))
          /\ UNCHANGED <<permits, feePermits, active, stats>>
  /\ UNCHANGED requests

(* A call ends: its permit is dropped with the verdict. *)
FinishCall(c, i, response) ==
  /\ conn[c].stage = "running"
  /\ i \in DOMAIN conn[c].slots
  /\ conn[c].slots[i].state = "running"
  /\ LET slot == conn[c].slots[i] IN
       /\ permits' = IF Holds(slot, "eth_call") THEN permits + 1 ELSE permits
       /\ feePermits' = IF Holds(slot, "feehistory") THEN feePermits + 1 ELSE feePermits
       /\ IF Holds(slot, "eth_call") THEN record_request_complete(conn[c].id, response.error = None)
          ELSE UNCHANGED <<active, stats>>
  /\ conn' = [conn EXCEPT ![c].slots[i] = Done(response)]
  /\ UNCHANGED requests

Outcomes(c, i) ==
  LET id == conn[c].calls[i].id IN
  {FromResult(id, n) : n \in ResultLen} \cup {FromFailure(id, Reverted)}

(* The whole answer is serialized and replaced by an error if it is too    *)
(* long; a WebSocket error keeps the id of the request.                    *)
SerializedLen(wrapper) ==
  IF wrapper.batch THEN WrittenArray([i \in DOMAIN wrapper.responses |->
                                        WrittenResponse(wrapper.responses[i])])
  ELSE WrittenResponse(wrapper.responses[1])
serialize_with_size_limit(c, wrapper) ==
  IF SerializedLen(wrapper) <= MaxResponseSize THEN wrapper
  ELSE IF c \in WebSockets
    THEN Single(FromFailure(wrapper.responses[1].id, SizeExceeded))
  ELSE Single(FromError(SizeExceeded))

(* The buffer hands responses over in the order of the calls.  The running *)
(* total of their lengths may not pass the limit: the stream ends there,   *)
(* the futures still running are dropped, and the batch is an error.       *)
FirstDone(c) ==
  {i \in DOMAIN conn[c].slots : i > Len(conn[c].taken) /\ conn[c].slots[i].state = "done"}
NextOfStarted(c) ==
  {i \in DOMAIN conn[c].slots :
     /\ i = Len(conn[c].taken) + 1 /\ conn[c].slots[i].state = "done"
     /\ Len(conn[c].slots) = Len(conn[c].calls)}
NextDone(c) ==
  {i \in DOMAIN conn[c].slots : i = Len(conn[c].taken) + 1 /\ conn[c].slots[i].state = "done"}

Take(c, i) ==
  LET response == conn[c].slots[i].response
      len == conn[c].len + ResponseLen(response)
      taken == Append(conn[c].taken, response)
  IN
  /\ IF conn[c].batch /\ len > MaxResponseSize
       THEN /\ conn' = [conn EXCEPT ![c] = Answer(conn[c].calls, Single(FromError(SizeExceeded)))]
            /\ DropFutures(c)
       ELSE /\ conn' = [conn EXCEPT ![c] =
                 IF Len(taken) < Len(conn[c].calls)
                   THEN [conn[c] EXCEPT !.taken = taken, !.len = len]
                   ELSE Answer(conn[c].calls, serialize_with_size_limit(c,
                          IF conn[c].batch THEN Batch(taken) ELSE Single(taken[1])))]
            /\ UNCHANGED <<permits, feePermits, active, stats>>
  /\ UNCHANGED requests

Collect(c) ==
  /\ conn[c].stage = "running"
  /\ \E i \in NextDone(c) : Take(c, i)

(* An HTTP client goes away: the handler's future is dropped where it      *)
(* waits.  A WebSocket session notices only after the call it handles.     *)
Disconnect(c) ==
  /\ c \notin WebSockets
  /\ conn[c].stage = "running"
  /\ conn' = [conn EXCEPT ![c] = Idle]
  /\ DropFutures(c)
  /\ UNCHANGED requests

(* The answer is sent and the connection is free. *)
Send(c) ==
  /\ conn[c].stage = "answered"
  /\ conn' = [conn EXCEPT ![c] = Idle]
  /\ UNCHANGED <<permits, feePermits, active, stats, requests>>

ServerInit ==
  /\ conn = [c \in Conn |-> Idle]
  /\ permits = MaxConcurrentPermits /\ feePermits = FeeHistoryPermits
  /\ active = {} /\ requests = 0
  /\ stats = [total_requests |-> 0, total_errors |-> 0, queue_rejections |-> 0]

Work(c) ==
  \/ StartCall(c)
  \/ \E i \in DOMAIN conn[c].slots : \E r \in Outcomes(c, i) : FinishCall(c, i, r)
  \/ Collect(c)
ServerNext ==
  \E c \in Conn :
    \/ \E body \in Body : Receive(c, body)
    \/ conn[c].stage = "running" /\ Work(c)
    \/ Disconnect(c)
    \/ Send(c)
ServerSpec == ServerInit /\ [][ServerNext]_serverVars

(* A future that can go on is polled again, the executor answers or times  *)
(* out, and a response that is ready is taken.                             *)
Fairness == \A c \in Conn : WF_serverVars(conn[c].stage = "running" /\ Work(c))
FairSpec == ServerSpec /\ Fairness

-----------------------------------------------------------------------------
(* PROPERTIES *)

Held(limiter) == UNION {{c} \X HeldBy(c, limiter) : c \in Conn}

(* Every permit is with a running call or free, whether calls finished,    *)
(* failed, were cut off with their batch or abandoned by their client      *)
(* (EthCallPermit's drop, the feehistory limiter).  The statistics hold no *)
(* request that no longer runs, hold every request that is a single call,  *)
(* and count at most one error for each request.                           *)
CallAccounting ==
  /\ permits + Cardinality(Held("eth_call")) = MaxConcurrentPermits
  /\ feePermits + Cardinality(Held("feehistory")) = FeeHistoryPermits
  /\ \A id \in active : \E c \in Conn : HeldBy(c, "eth_call") # {} /\ conn[c].id = id
  /\ \A c \in Conn : HeldBy(c, "eth_call") # {} /\ ~conn[c].batch => conn[c].id \in active
  /\ stats.total_errors <= stats.total_requests

(* An answered batch has one response for every call of the list, each     *)
(* with the id of its call and in the place of its call, although the      *)
(* calls ran side by side and ended in any order; no answer but an error   *)
(* is longer than the limit.                                               *)
BatchExact ==
  \A c \in Conn :
    conn[c].stage = "answered" /\ conn[c].reply.batch =>
      LET responses == conn[c].reply.responses IN
      /\ Len(responses) = Len(conn[c].calls)
      /\ \A i \in DOMAIN responses :
           responses[i].id = IF conn[c].calls[i].readable THEN conn[c].calls[i].id ELSE NullId
      /\ SerializedLen(conn[c].reply) <= MaxResponseSize

(* Every request is answered, or its client goes away: no batch waits for  *)
(* a call that is never started, and no call waits for a permit.           *)
RequestsAnswered ==
  \A c \in Conn : conn[c].stage = "running" ~> conn[c].stage # "running"
=============================================================================
