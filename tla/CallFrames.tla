----------------------------- MODULE CallFrames ----------------------------
(***************************************************************************)
(* monad-rpc/src/handlers/debug.rs: the tree of calls of a transaction.    *)
(* The execution engine leaves a flat list of call frames in the order the *)
(* calls were made, each with its depth and its logs; a log knows only how *)
(* many calls its frame had made before it.  The answer of the callTracer  *)
(* is the tree, its logs numbered in the order they were emitted.          *)
(***************************************************************************)
EXTENDS CallRequests, SequencesExt

CONSTANTS
  CodeAt(_),  \* code of a contract that was created, as triedb has it
  MaxDepth    \* no call is nested deeper

\* A stored frame: id, depth, kind ("call", "create", "selfdestruct"), status
\* (0 when it succeeded), to and output (None when absent), and the position
\* of each log; nologs when it was stored without its logs.
Tracer(only_top_call, diff_mode, with_log) ==
  [top |-> only_top_call, diff |-> diff_mode, log |-> with_log]

\* Historical traces have no logs for SELFDESTRUCT.
keep_logs(frame, tracer) ==
  IF ~tracer.log THEN Ok([frame EXCEPT !.logs = << >>, !.nologs = TRUE])
  ELSE IF ~frame.nologs \/ frame.kind = "selfdestruct"
  THEN Ok([frame EXCEPT !.nologs = FALSE])
  ELSE Err("logs_not_found_in_call_frame")

\* Historical traces leave out the code of a contract that was created.
include_code_output(frame) ==
  IF frame.output # None \/ frame.kind # "create" THEN Ok(frame)
  ELSE IF frame.to = None
  THEN IF frame.status = 0 THEN Err("contract_address_not_found") ELSE Ok(frame)
  ELSE Ok([frame EXCEPT !.output = CodeAt(frame.to)])

\* From<CallFrame> for MonadCallFrame
MonadCallFrame(frame) ==
  [id |-> frame.id, depth |-> frame.depth, output |-> frame.output,
   to |-> IF frame.status # 0 /\ frame.kind = "create" THEN None ELSE frame.to,
   logs |-> [k \in DOMAIN frame.logs |-> [pos |-> frame.logs[k], index |-> k]],
   calls |-> << >>]

AddCall(parent, frame) == [parent EXCEPT !.calls = Append(@, frame)]

\* Mutant: a frame is not complete when its sibling comes.
DeeperOnly(frame, depth) == frame.depth > depth

pop_if(frame, depth) == frame.depth >= depth

\* Frames that are complete when the next frame has this depth move to their
\* parents: the frame below them, or the root.
complete(t, depth) ==
  LET Pop(u, top) ==
        LET rest == Front(u.open) IN
          IF u.open = << >> \/ ~pop_if(Last(u.open), depth) THEN u
          ELSE IF rest = << >> THEN [root |-> AddCall(u.root, Last(u.open)), open |-> rest]
          ELSE [u EXCEPT !.open = Append(Front(rest), AddCall(Last(rest), Last(u.open)))]
  IN FoldLeft(Pop, t, t.open)

\* A frame and the frames under it.
Within(frame) ==
  LET Upto[n \in 0..MaxDepth] ==
        IF n = 0 THEN {frame} ELSE {frame} \cup UNION {Range(f.calls) : f \in Upto[n - 1]}
  IN Upto[MaxDepth]

\* The logs of a frame in the order of emission, as <<frame, log>>: before a
\* child, the next logs while their positions are not beyond the child; the
\* others at the end.
extend_logs_by_emit_order(root) ==
  LET Taken(frame, c) == Cardinality({k \in DOMAIN frame.logs : \A j \in 1..k : frame.logs[j].pos < c})
      Own(frame, from, to) == [k \in 1..to - from |-> <<frame.id, frame.logs[from + k].index>>]
      Emitted[frame \in Within(root)] ==
        FlattenSeq([c \in DOMAIN frame.calls |->
                      Own(frame, Taken(frame, c - 1), Taken(frame, c)) \o Emitted[frame.calls[c]]])
          \o Own(frame, Taken(frame, Len(frame.calls)), Len(frame.logs))
  IN Emitted[root]

number_logs(root, order) ==
  LET Place(frame, k) == CHOOSE i \in DOMAIN order : order[i] = <<frame.id, k>>
      Numbered[frame \in Within(root)] ==
        [frame EXCEPT !.logs = [k \in DOMAIN @ |-> [@[k] EXCEPT !.index = Place(frame, k)]],
                      !.calls = [c \in DOMAIN @ |-> Numbered[@[c]]]]
  IN Numbered[root]

build_call_tree(frames) ==
  LET Push(t, f) == [complete(t, f.depth) EXCEPT !.open = Append(@, MonadCallFrame(f))]
      built      == FoldLeft(Push, [root |-> MonadCallFrame(frames[1]), open |-> << >>], Tail(frames))
      root       == complete(built, 0).root
  IN number_logs(root, extend_logs_by_emit_order(root))

\* None, as << >>, when there are no frames.
decode_call_frame(frames, tracer) ==
  LET logged == [i \in DOMAIN frames |-> keep_logs(frames[i], tracer)]
      kept   == [i \in DOMAIN frames |-> logged[i].v]
      coded  == [i \in DOMAIN frames |-> IF tracer.top /\ i > 1 THEN Ok(kept[i]) ELSE include_code_output(kept[i])]
      Failing(rs) == {i \in DOMAIN rs : ~rs[i].ok}
  IN IF Failing(logged) # {} THEN logged[Min(Failing(logged))]
     ELSE IF tracer.diff THEN Err("method_not_supported")
     ELSE IF frames = << >> THEN Ok(<< >>)
     ELSE IF Failing(coded) # {} THEN coded[Min(Failing(coded))]
     ELSE LET tree == build_call_tree([i \in DOMAIN frames |-> coded[i].v]) IN
       Ok(<<IF tracer.top THEN [tree EXCEPT !.calls = << >>] ELSE tree>>)

\* decode_block_call_frames: one answer for each transaction, up to the size
\* limit; sizes are counted in frames.
TreeSize(root) ==
  LET Size[frame \in Within(root)] == 1 + FoldLeft(LAMBDA n, f : n + Size[f], 0, frame.calls)
  IN Size[root]

decode_block_call_frames(txs, traces, tracer, maxSize) ==
  LET Step(r, frames) == Then(r, LAMBDA acc :
        Then(decode_call_frame(frames, tracer), LAMBDA tree :
          IF tree = << >> THEN Err("traces_not_found")
          ELSE IF acc.size + TreeSize(tree[1]) > maxSize THEN Err("response_too_large")
          ELSE Ok([size |-> acc.size + TreeSize(tree[1]), trees |-> acc.trees \o tree])))
  IN IF Len(traces) # txs THEN Err("invalid_block_callframe_input")
     ELSE Then(FoldLeft(Step, Ok([size |-> 0, trees |-> << >>]), traces), LAMBDA acc : Ok(acc.trees))
=============================================================================
