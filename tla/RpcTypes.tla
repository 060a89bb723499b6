------------------------------- MODULE RpcTypes -------------------------------
(***************************************************************************)
(* The JSON forms of monad-rpc.  JsonSerializedLen computes how long a     *)
(* value will be once it is serialized, without serializing it; batches,   *)
(* log queries and traces are cut by that number.  Here each estimate      *)
(* stands beside the length of what serde writes.                          *)
(*                                                                         *)
(* The second half is the parsing of hexadecimal text.  A text is a        *)
(* sequence of one-character strings.                                      *)
(***************************************************************************)
EXTENDS Integers, Sequences, SequencesExt, FiniteSetsExt, TLC

CONSTANTS
  HexDigits64,     \* hexadecimal digits of the machine word, 16 in the code
  HashBytes,       \* bytes of a hash, 32 in the code
  AddressBytes,    \* bytes of an address, 20 in the code
  SampleLog, SampleId, SampleText   \* values the forms are compared on

ASSUME WidthAssumption ==
  HexDigits64 \in Nat \ {0} /\ HashBytes \in Nat \ {0} /\ AddressBytes \in Nat \ {0}

Absent == -1
None == <<>>                 \* an absent optional field
Some(v) == <<v>>
SumOf(seq) ==
  LET Upto[i \in Nat] == IF i = 0 THEN 0 ELSE Upto[i - 1] + seq[i] IN Upto[Len(seq)]
Lens(Op(_), seq) == SumOf([i \in DOMAIN seq |-> Op(seq[i])])
Saturating(n) == IF n > 0 THEN n ELSE 0

-----------------------------------------------------------------------------
(* What serde writes: the length of numbers, texts, arrays and objects.  An *)
(* object is a sequence of <<key, length of the value>>.                   *)
Decimal(n) == Len(ToString(n))
HexText(n) ==
  LET Places[k \in Nat] == IF k < 16 THEN 1 ELSE 1 + Places[k \div 16] IN Places[n]
WrittenHex(n) == 2 + 2 + HexText(n)
WrittenArray(lens) == 2 + SumOf(lens) + (IF lens = <<>> THEN 0 ELSE Len(lens) - 1)
WrittenObject(fields) ==
  WrittenArray([i \in DOMAIN fields |-> Len(fields[i][1]) + 3 + fields[i][2]])
WrittenBytes(n) == 2 + 2 + 2 * n
OptionalField(key, opt, Op(_)) == IF opt = None THEN <<>> ELSE <<<<key, Op(opt[1])>>>>

(* Kinds of characters that serde escapes differently: control characters  *)
(* with a short escape, the others, and text of one to four bytes.         *)
CharKind == {"quote", "backslash", "backspace", "tab", "newline", "vtab", "formfeed",
             "return", "nul", "unit_separator", "ascii", "two_bytes", "three_bytes",
             "four_bytes"}
WrittenChar(c) ==
  CASE c \in {"quote", "backslash", "backspace", "tab", "newline", "formfeed", "return"} -> 2
    [] c \in {"vtab", "nul", "unit_separator"} -> 6
    [] c = "ascii" -> 1 [] c = "two_bytes" -> 2 [] c = "three_bytes" -> 3
    [] c = "four_bytes" -> 4
WrittenString(s) == 2 + SumOf([i \in DOMAIN s |-> WrittenChar(s[i])])

-----------------------------------------------------------------------------
(* JsonSerializedLen. *)
Scalar(c) ==
  CASE c = "nul" -> 0 [] c = "backspace" -> 8 [] c = "tab" -> 9 [] c = "newline" -> 10
    [] c = "vtab" -> 11 [] c = "formfeed" -> 12 [] c = "return" -> 13
    [] c = "unit_separator" -> 31 [] c = "quote" -> 34 [] c = "ascii" -> 65
    [] c = "backslash" -> 92 [] c = "two_bytes" -> 233 [] c = "three_bytes" -> 8364
    [] c = "four_bytes" -> 128512
LenUtf8(n) == IF n < 128 THEN 1 ELSE IF n < 2048 THEN 2 ELSE IF n < 65536 THEN 3 ELSE 4

EscapedLen(n) ==
  CASE n \in {34, 92} -> 2
    [] n = 11 -> 6
    [] n \in 8..13 /\ n # 11 -> 2
    [] n \in 0..31 \ (8..13) -> 6
    [] OTHER -> LenUtf8(n)
StringLen(s) == 2 + SumOf([i \in DOMAIN s |-> EscapedLen(Scalar(s[i]))])

Ilog10(n) ==
  LET Log[k \in Nat] == IF k < 10 THEN 0 ELSE 1 + Log[k \div 10] IN Log[n]
IntLen(n) ==
  (IF n < 0 THEN 1 ELSE 0) + 1 + Ilog10(IF n < 0 THEN -n ELSE n)

BoolLen(b) == IF b THEN 4 ELSE 5
OptionLen(Op(_), opt) == IF opt = None THEN 4 ELSE Op(opt[1])
VecLen(Op(_), seq) == 2 + Lens(Op, seq) + Saturating(Len(seq) - 1)
RawLen(raw) == raw
FixedLen(n) == 2 + 2 + 2 * n
HashLen(hash) == FixedLen(HashBytes)

BitLen(n) ==
  LET Bits[k \in Nat] == IF k = 0 THEN 0 ELSE 1 + Bits[k \div 2] IN Bits[n]
AtLeastOne(n) == IF n < 1 THEN 1 ELSE n
HexIntLen(n) == 2 + 2 + AtLeastOne((BitLen(n) + 3) \div 4)
DataLen(n) == 2 + 2 + 2 * n

-----------------------------------------------------------------------------
(* The structures.  A raw value and a byte string are their length.        *)

LogBase ==
  Len("{'address':'0x','blockHash':,'blockNumber':,'data':'0x','logIndex':,'removed':,'topics':[],'transactionHash':,'transactionIndex':}")
    + 2 * AddressBytes
LogLen(log) ==
  LogBase
    + OptionLen(HashLen, log.block_hash)
    + OptionLen(HexIntLen, log.block_number)
    + (IF log.block_timestamp = None THEN 0
       ELSE Len("'blockTimestamp':,") + HexIntLen(log.block_timestamp[1]))
    + 2 * log.data
    + OptionLen(HexIntLen, log.log_index)
    + BoolLen(log.removed)
    + log.topics * FixedLen(HashBytes) + Saturating(log.topics - 1)
    + OptionLen(HashLen, log.transaction_hash)
    + OptionLen(HexIntLen, log.transaction_index)
WrittenOption(Op(_), opt) == IF opt = None THEN Len("null") ELSE Op(opt[1])
WrittenHash(hash) == WrittenBytes(HashBytes)
WrittenLog(log) ==
  WrittenObject(
    <<<<"address", WrittenBytes(AddressBytes)>>,
      <<"topics", WrittenArray([i \in 1..log.topics |-> WrittenBytes(HashBytes)])>>,
      <<"data", WrittenBytes(log.data)>>,
      <<"blockHash", WrittenOption(WrittenHash, log.block_hash)>>,
      <<"blockNumber", WrittenOption(WrittenHex, log.block_number)>>>>
    \o OptionalField("blockTimestamp", log.block_timestamp, WrittenHex)
    \o <<<<"transactionHash", WrittenOption(WrittenHash, log.transaction_hash)>>,
         <<"transactionIndex", WrittenOption(WrittenHex, log.transaction_index)>>,
         <<"logIndex", WrittenOption(WrittenHex, log.log_index)>>,
         <<"removed", IF log.removed THEN Len("true") ELSE Len("false")>>>>)

RequestIdLen(id) ==
  CASE id.kind = "number" -> IntLen(id.value)
    [] id.kind = "string" -> StringLen(id.value)
    [] id.kind = "null" -> 4
WrittenId(id) ==
  CASE id.kind = "number" -> Decimal(id.value)
    [] id.kind = "string" -> WrittenString(id.value)
    [] id.kind = "null" -> Len("null")

(* The message of an error is plain text, its data a raw value. *)
ErrorLen(e) ==
  Len("{'code':,'message':}") + IntLen(e.code) + (2 + Len(e.message))
    + (IF e.data = None THEN 0 ELSE Len("'data':,") + RawLen(e.data[1]))
WrittenError(e) ==
  WrittenObject(<<<<"code", Decimal(e.code)>>, <<"message", 2 + Len(e.message)>>>>
                \o OptionalField("data", e.data, RawLen))

ResponseLen(r) ==
  Len("{'jsonrpc':,'id':}") + (2 + Len("2.0"))
    + (IF r.result = None THEN 0 ELSE Len("'result':,") + RawLen(r.result[1]))
    + (IF r.error = None THEN 0 ELSE Len("'error':,") + ErrorLen(r.error[1]))
    + RequestIdLen(r.id)
WrittenResponse(r) ==
  WrittenObject(<<<<"jsonrpc", 2 + Len("2.0")>>>>
                \o OptionalField("result", r.result, RawLen)
                \o OptionalField("error", r.error, WrittenError)
                \o <<<<"id", WrittenId(r.id)>>>>)

-----------------------------------------------------------------------------
(* Hexadecimal text. *)
Digit == <<"0", "1", "2", "3", "4", "5", "6", "7", "8", "9", "a", "b", "c", "d", "e", "f">>
Upper == <<"0", "1", "2", "3", "4", "5", "6", "7", "8", "9", "A", "B", "C", "D", "E", "F">>
IsHex(c) == \E i \in 1..16 : c \in {Digit[i], Upper[i]}
HexValue(c) == (CHOOSE i \in 1..16 : c \in {Digit[i], Upper[i]}) - 1

Prefixed(s) == Len(s) >= 2 /\ s[1] = "0" /\ s[2] = "x"
NoPrefix(s) == SubSeq(s, 3, Len(s))
Ok(v) == [ok |-> TRUE, value |-> v]
Err(e) == [ok |-> FALSE, error |-> e]
ValueOf(digits) == FoldLeft(LAMBDA a, c : 16 * a + HexValue(c), 0, digits)

(* u64::from_str_radix(_, 16): one plus sign is accepted, overflow is not. *)
FromStrRadix(s) ==
  LET digits == IF s # <<>> /\ s[1] = "+" THEN Tail(s) ELSE s IN
  IF digits = <<>> \/ \E i \in DOMAIN digits : ~IsHex(digits[i]) THEN Err("ParseErr")
  ELSE IF ValueOf(digits) >= 16 ^ HexDigits64 THEN Err("ParseErr")
  ELSE Ok(ValueOf(digits))

decode_quantity_signed(s) ==
  IF s = <<>> THEN Err("InvalidLen")
  ELSE IF ~Prefixed(s) \/ NoPrefix(s) = <<>> THEN Err("ParseErr")
  ELSE IF NoPrefix(s)[1] = "0"
    THEN IF Len(NoPrefix(s)) = 1 THEN Ok(0) ELSE Err("ParseErr")
  ELSE FromStrRadix(NoPrefix(s))
decode_quantity(s) ==
  IF s = <<>> THEN Err("InvalidLen")
  ELSE IF ~Prefixed(s) \/ NoPrefix(s) = <<>> THEN Err("ParseErr")
  ELSE IF NoPrefix(s)[1] = "0"
    THEN IF Len(NoPrefix(s)) = 1 THEN Ok(0) ELSE Err("ParseErr")
  ELSE IF NoPrefix(s)[1] \in {"+", "-"} THEN Err("ParseErr")
  ELSE FromStrRadix(NoPrefix(s))

(* Quantity::deserialize of a text with the prefix. *)
QuantityFrom(s) == FromStrRadix(NoPrefix(s))

decode_bytes(s) ==
  IF s = <<>> THEN Err("InvalidLen")
  ELSE IF ~Prefixed(s) THEN Err("ParseErr")
  ELSE IF Len(NoPrefix(s)) % 2 = 1 THEN Err("InvalidLen")
  ELSE IF \E i \in DOMAIN NoPrefix(s) : ~IsHex(NoPrefix(s)[i]) THEN Err("ParseErr")
  ELSE Ok([i \in 1..(Len(NoPrefix(s)) \div 2) |->
             16 * HexValue(NoPrefix(s)[2 * i - 1]) + HexValue(NoPrefix(s)[2 * i])])
encode_bytes(bytes) ==
  <<"0", "x">> \o FlattenSeq([i \in DOMAIN bytes |->
                     <<Digit[(bytes[i] \div 16) + 1], Digit[(bytes[i] % 16) + 1]>>])

UnformattedFrom(s) == decode_bytes(s)
FixedFrom(s, n) ==
  LET d == decode_bytes(s) IN
  IF d.ok /\ Len(d.value) # n THEN Err("InvalidLen") ELSE d

(* BlockTags: the five names, or a quantity; text is a name or a sequence. *)
Tag(s) ==
  CASE s = <<"earliest">> -> Ok(0)
    [] s \in {<<"latest">>, <<"pending">>} -> Ok("Latest")
    [] s = <<"safe">> -> Ok("Safe")
    [] s = <<"finalized">> -> Ok("Finalized")
    [] OTHER -> decode_quantity(s)

(* BlockTagOrHash: a tag, a hash, or an object with exactly one of the two. *)
TagOrHash(json) ==
  IF "text" \in DOMAIN json
    THEN IF Tag(json.text).ok THEN [tag |-> Tag(json.text).value]
         ELSE IF FixedFrom(json.text, HashBytes).ok
           THEN [hash |-> FixedFrom(json.text, HashBytes).value]
         ELSE [error |-> "no variant"]
  ELSE LET tagBad == json.tags # None /\ ~Tag(json.tags[1]).ok
           hashBad == json.hash # None /\ ~FixedFrom(json.hash[1], HashBytes).ok IN
       IF tagBad \/ hashBad THEN [error |-> "no variant"]
       ELSE IF json.tags # None /\ json.hash # None THEN [error |-> "both"]
       ELSE IF json.tags # None THEN [tag |-> Tag(json.tags[1]).value]
       ELSE IF json.hash # None THEN [hash |-> FixedFrom(json.hash[1], HashBytes).value]
       ELSE [error |-> "neither"]

(* Serialize for Quantity. *)
QuantityText(n) ==
  LET Digits[k \in Nat] ==
        IF k < 16 THEN <<Digit[k + 1]>> ELSE Append(Digits[k \div 16], Digit[(k % 16) + 1])
  IN <<"0", "x">> \o Digits[n]
=============================================================================
