------------------------------- MODULE RpcWire -------------------------------
(***************************************************************************)
(* The JSON forms of call traces, whose frames contain frames, and what    *)
(* the forms of RpcTypes and these have to satisfy beside the server.      *)
(***************************************************************************)
EXTENDS RpcServer

CONSTANT SampleFrame   \* frames the forms are compared on

CallFrameLogLen(log) ==
  Len("{'address':,'topics':,'data':,'position':,'index':}")
    + FixedLen(AddressBytes) + VecLen(HashLen, log.topics) + DataLen(log.data)
    + HexIntLen(log.position) + HexIntLen(log.index)
WrittenFrameLog(log) ==
  WrittenObject(<<<<"address", WrittenBytes(AddressBytes)>>,
                  <<"topics", WrittenArray([i \in DOMAIN log.topics |-> WrittenBytes(HashBytes)])>>,
                  <<"data", WrittenBytes(log.data)>>,
                  <<"position", WrittenHex(log.position)>>, <<"index", WrittenHex(log.index)>>>>)

(* A frame: its fields that may be absent, and the frames it calls. *)
AddressLen(address) == FixedLen(AddressBytes)
RECURSIVE CallFrameLen(_)
CallFrameLen(f) ==
  LET FieldOf(present, key, len) == IF present THEN <<Len(key) + 3 + len>> ELSE <<>>
      segments ==
        FieldOf(TRUE, "type", 2 + Len(f.typ))
        \o FieldOf(TRUE, "from", FixedLen(AddressBytes))
        \o FieldOf(f.to # None, "to", FixedLen(AddressBytes))
        \o FieldOf(f.value # None, "value", IF f.value = None THEN 0 ELSE HexIntLen(f.value[1]))
        \o FieldOf(TRUE, "gas", HexIntLen(f.gas))
        \o FieldOf(TRUE, "gasUsed", HexIntLen(f.gas_used))
        \o FieldOf(TRUE, "input", DataLen(f.input))
        \o FieldOf(f.output # 0, "output", DataLen(f.output))
        \o FieldOf(f.error # None, "error", IF f.error = None THEN 0 ELSE StringLen(f.error[1]))
        \o FieldOf(f.revert_reason # None, "revertReason",
                   IF f.revert_reason = None THEN 0 ELSE StringLen(f.revert_reason[1]))
        \o FieldOf(f.calls # <<>>, "calls", VecLen(CallFrameLen, f.calls))
        \o FieldOf(f.logs # <<>>, "logs", VecLen(CallFrameLogLen, f.logs))
  IN 2 + SumOf(segments) + Saturating(Len(segments) - 1)
RECURSIVE WrittenFrame(_)
WrittenFrame(f) ==
  LET Written(seq, Op(_)) == WrittenArray([i \in DOMAIN seq |-> Op(seq[i])]) IN
  WrittenObject(
    <<<<"type", 2 + Len(f.typ)>>, <<"from", WrittenBytes(AddressBytes)>>>>
    \o OptionalField("to", f.to, AddressLen)
    \o OptionalField("value", f.value, WrittenHex)
    \o <<<<"gas", WrittenHex(f.gas)>>, <<"gasUsed", WrittenHex(f.gas_used)>>,
         <<"input", WrittenBytes(f.input)>>>>
    \o (IF f.output = 0 THEN <<>> ELSE <<<<"output", WrittenBytes(f.output)>>>>)
    \o OptionalField("error", f.error, WrittenString)
    \o OptionalField("revertReason", f.revert_reason, WrittenString)
    \o (IF f.calls = <<>> THEN <<>> ELSE <<<<"calls", Written(f.calls, WrittenFrame)>>>>)
    \o (IF f.logs = <<>> THEN <<>> ELSE <<<<"logs", Written(f.logs, WrittenFrameLog)>>>>))

TraceBlockLen(r) == Len("{'txHash':,'result':}") + HashLen(r.tx_hash) + CallFrameLen(r.result)
WrittenTraceBlock(r) ==
  WrittenObject(<<<<"txHash", WrittenBytes(HashBytes)>>, <<"result", WrittenFrame(r.result)>>>>)

-----------------------------------------------------------------------------
(* PROPERTIES *)

(* The estimate of every log, trace and request id is the length serde     *)
(* writes, at each width of a number, kind of character and absent field   *)
(* (impl JsonSerializedLen).  A quantity is read back from its own text    *)
(* and decode_quantity accepts no other text for it than one that differs  *)
(* in case, Quantity's own deserializer agrees wherever decode_quantity    *)
(* accepts, bytes are read back from their text, and text that is a block  *)
(* tag is never taken for a hash.  The forms do not depend on the state    *)
(* and are compared once, before the first request; from then on the total *)
(* that cuts a batch is the length of what would be written.               *)
WireExact ==
  /\ requests = 0 =>
       /\ \A log \in SampleLog : LogLen(log) = WrittenLog(log)
       /\ \A f \in SampleFrame :
            TraceBlockLen([tx_hash |-> 0, result |-> f]) = WrittenTraceBlock([tx_hash |-> 0, result |-> f])
       /\ \A id \in SampleId : RequestIdLen(id) = WrittenId(id)
       /\ \A n \in 0..(16 ^ HexDigits64 - 1) :
            /\ decode_quantity(QuantityText(n)) = Ok(n)
            /\ HexIntLen(n) = 2 + Len(QuantityText(n))
            /\ FixedFrom(encode_bytes(<<n % 256>>), 1) = Ok(<<n % 256>>)
       /\ \A s \in SampleText :
            /\ decode_quantity(s).ok =>
                 /\ Len(s) = Len(QuantityText(decode_quantity(s).value))
                 /\ QuantityFrom(s) = decode_quantity(s)
            /\ UnformattedFrom(s).ok => Len(encode_bytes(UnformattedFrom(s).value)) = Len(s)
            /\ Tag(s).ok /\ HashBytes > HexDigits64 \div 2 => ~FixedFrom(s, HashBytes).ok
  /\ \A c \in Conn : conn[c].stage = "running" =>
       conn[c].len = SumOf([i \in DOMAIN conn[c].taken |-> WrittenResponse(conn[c].taken[i])])
=============================================================================
