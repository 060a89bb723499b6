-------------------------- MODULE MCEthExecution ---------------------------
EXTENDS EthExecution

MCBaseFee  == [n \in 0..4 |-> <<10, 12, 8, 15>>[(n % 4) + 1]]
MCGasLimit == [n \in 0..4 |-> IF n = 3 THEN 120000 ELSE 200000]
MCBalance  == [n \in 0..4 |-> IF n = 1 THEN 0 ELSE 900000]
MCCodeAt(a) == 7
MCBlockTxs ==
  LET t(g, c, p) == [gas |-> g, cap |-> c, tip |-> p] IN
    << <<t(21, 14, 2), t(60, 30, 9), t(19, 12, 1)>>, << >>, <<t(50, 11, 5), t(50, 20, 1)>>,
       <<t(10, 5, 5), t(30, 40, 9), t(40, 90, 3), t(20, 17, 9)>> >>
MCTxsOf == [n \in 0..4 |-> MCBlockTxs[(n % 4) + 1]]

Plain == [CallRequest EXCEPT !.from = 2, !.value = 5]
Legacy(t, p)  == [t EXCEPT !.legacy = TRUE, !.price = p]
Capped(t, c, p) == [t EXCEPT !.cap = c, !.tip = p]

Priced == {Plain} \cup {Legacy(Plain, p) : p \in {0, 5, 20}}
            \cup {Capped(Plain, c, p) : c \in {None, 0, 5, 20}, p \in {None, 3, 30, U256Max}}
Txs == {[t EXCEPT !.gas = g] : t \in Priced, g \in {None, 0, 40000, 160000, 500000}}
         \cup {[Plain EXCEPT !.input = 4], [Plain EXCEPT !.data = 4], [Plain EXCEPT !.input = 4, !.data = 5],
               [Plain EXCEPT !.value = 2000000], [Plain EXCEPT !.chain = 9], [Plain EXCEPT !.from = None],
               [Plain EXCEPT !.to = None, !.input = 9], [Plain EXCEPT !.to = None, !.input = 2],
               [Plain EXCEPT !.auth = TRUE, !.type = 4], [Plain EXCEPT !.auth = TRUE, !.to = None],
               [Plain EXCEPT !.blob = TRUE], [Plain EXCEPT !.type = 3], [Plain EXCEPT !.type = 1],
               [Legacy(Plain, 20) EXCEPT !.auth = TRUE],
               [Plain EXCEPT !.list = {"s"}, !.listed = TRUE],
               [Legacy(Plain, 20) EXCEPT !.list = {"s"}, !.listed = TRUE],
               [Legacy(Plain, 20) EXCEPT !.list = {"s"}, !.listed = TRUE, !.type = 1],
               [Legacy(Plain, 20) EXCEPT !.list = {"s"}, !.listed = TRUE, !.to = None, !.input = 9]}

Call(m, t, ref, over) == [m |-> m, tx |-> t, ref |-> ref, over |-> over, code |-> FALSE]
Calls == {Call(m, t, Latest, None) : m \in {"call", "accessList", "estimate", "fill"}, t \in Txs}
           \cup {Call(m, t, ref, over) : m \in {"call", "accessList", "estimate"}, t \in {Plain, Legacy(Plain, 20)},
                                         ref \in {0, 1, 2, 9}, over \in {None, 100000000, 3000000}}
           \cup {[Call("estimate", Plain, Latest, None) EXCEPT !.code = TRUE]}

Depths == {<<0>>, <<0, 1>>, <<0, 1, 1>>, <<0, 1, 2>>, <<0, 1, 2, 1>>, <<0, 1, 1, 2>>, <<0, 1, 2, 2>>,
           <<0, 1, 2, 3>>, <<0, 1, 1, 1>>, <<0, 1, 2, 3, 1>>}
Children(d, i) == Cardinality({j \in i + 1..Len(d) : d[j] = d[i] + 1 /\ \A x \in i + 1..j : d[x] > d[i]})
Frame(d, i, logs) ==
  [id |-> i, depth |-> d[i], kind |-> "call", status |-> 0, to |-> 1, output |-> None, nologs |-> FALSE,
   logs |-> IF i \notin logs THEN << >>
            ELSE IF Children(d, i) > 1 THEN <<0, 1, Children(d, i)>> ELSE <<0, Children(d, i)>>]
Trees == {[i \in DOMAIN d |-> Frame(d, i, logs)] : d \in Depths, logs \in SUBSET (1..5)}
Trace(frames, tracer) == [m |-> "trace", tx |-> Plain, ref |-> Latest, over |-> None, frames |-> frames, tracer |-> tracer]
Odd(f) == <<[Frame(<<0>>, 1, {}) EXCEPT !.kind = f.kind, !.status = f.status, !.to = f.to, !.nologs = f.nologs]>>
Traces == {Trace(f, Tracer(FALSE, FALSE, TRUE)) : f \in Trees}
            \cup {Trace(Odd(f), Tracer(t, FALSE, l)) : t \in BOOLEAN, l \in BOOLEAN,
                    f \in [kind : {"create", "selfdestruct"}, status : {0, 2}, to : {None, 1}, nologs : BOOLEAN]}
            \cup {Trace(<< >>, Tracer(FALSE, d, FALSE)) : d \in BOOLEAN}
            \cup {Trace([i \in 1..6 |-> Frame(<<0, 1, 1, 1, 1, 1>>, i, {})], Tracer(t, FALSE, FALSE)) : t \in BOOLEAN}

Two == [i \in 1..2 |-> Frame(<<0, 1>>, i, {1, 2})]
TraceBlock(n, traces) == [m |-> "traceBlock", txs |-> n, traces |-> traces, tracer |-> Tracer(FALSE, FALSE, TRUE)]
BlockTraces == {TraceBlock(n, t) : n \in {0, 2}, t \in {<< >>, <<Two, Two>>, <<Two, << >> >>, <<Two, Two \o Two>>}}

Simulate(blocks, ref, valid) == [m |-> "simulate", blocks |-> blocks, ref |-> ref, over |-> None, validation |-> valid]
Gassed(g) == [Plain EXCEPT !.gas = g]
Simulations ==
  {Simulate(b, ref, TRUE) : ref \in {Latest, 1, 9},
     b \in {<< >>, << <<Gassed(40000), Legacy(Plain, 20)>>, <<Plain>> >>, << <<Gassed(40000)>>, <<Gassed(60000)>> >>,
            << <<Plain, Plain, Plain>> >>, << <<Gassed(1)>>, <<Gassed(1), Gassed(1)>>, << >> >>,
            << <<Gassed(1), Gassed(1), Gassed(1), Gassed(1)>> >>,
            << <<[Plain EXCEPT !.input = 4, !.data = 5]>> >>, << <<[Plain EXCEPT !.chain = 9]>> >>,
            << <<[Plain EXCEPT !.to = None, !.data = 9]>> >>}}
    \cup {Simulate(<< >>, Latest, FALSE)}

Others ==
  {[m |-> "replay", ref |-> n, hashed |-> h, frames |-> [i \in 1..k |-> 0]] : n \in {0, 2, 4}, h \in BOOLEAN, k \in {1, 9}}
    \cup {[m |-> "gasPrice"]}
    \cup {[m |-> "feeHistory", count |-> c, ref |-> ref, percentiles |-> p] : c \in {0, 1, 3, 2000},
            ref \in {Latest, FinalizedTag, 2, 9}, p \in {<< >>, <<0, 10, 50, 75, 100>>, <<30, 20>>, <<101>>, [i \in 1..101 |-> 50]}}

MCRequests == Calls \cup Traces \cup BlockTraces \cup Simulations \cup Others

Engine(need, used, refund, out) ==
  [need |-> need, used |-> used, refund |-> refund, out |-> out, touches |-> {"t"}]
MCExecutors == {Engine(21000, 21000, 0, "Success"), Engine(60000, 50000, 8000, "Success"),
                Engine(100000, 50000, 0, "Success"), Engine(119000, 119000, 0, "Success"),
                Engine(250000, 50000, 0, "Success"), Engine(30000, 25000, 0, "ExecutionError"),
                Engine(30000, 25000, 0, "OtherError"), Engine(30000, 25000, 0, "ReserveBalanceViolation")}
=============================================================================
