-------------------------------- MODULE Wire --------------------------------
(***************************************************************************)
(* The messages of the protocol and their encoding (src/src/protocol.cpp,  *)
(* src/include/mr/core/serialization.hpp).  A byte string is a sequence of *)
(* digits below Radix, least significant first; the widths of the integer  *)
(* types are parameters that keep them apart.  Identities, generations and *)
(* counts are numbers, a text is a sequence of bytes.                      *)
(***************************************************************************)
EXTENDS Naturals, Sequences, SequencesExt

CONSTANTS
  Radix,      \* values of a byte
  Width,      \* bytes of "u8", "u32", "u64" and "uid"
  MaxCount    \* the longest list a decoder accepts (1 << 20)

ASSUME WireAssumption ==
  /\ Radix \in Nat \ {0, 1}
  /\ Width \in [{"u8", "u32", "u64", "uid"} -> Nat \ {0}]
  /\ MaxCount \in Nat

Byte == 0..(Radix - 1)

\* What a byte counts for behind n others: n bytes hold the numbers below it.
Place[n \in Nat] == IF n = 0 THEN 1 ELSE Radix * Place[n - 1]

\* BinWriter::push of an unsigned number and BinReader::read_le32 and its
\* siblings: the bytes as they lie in memory, which is least significant first on
\* the little-endian hosts the program runs on.
Digits(v, w) == [i \in 1..w |-> (v \div Place[i - 1]) % Radix]

Number(bytes) ==
  LET value[n \in 0..Len(bytes)] ==
        IF n = 0 THEN 0 ELSE value[n - 1] + bytes[n] * Place[n - 1]
  IN  value[Len(bytes)]

-----------------------------------------------------------------------------
(* The fields of the messages.  A name has one type in all of them.        *)

\* MsgKind.  CoordShutdown has no payload and no sender; the payload of
\* ControlStateReply is a text and takes the whole frame.
KindNumber ==
  [RegisterWorker |-> 1, WorkerRegistered |-> 2, WorkerReport |-> 3, CoordLoad |-> 4,
   WorkerLoadResult |-> 5, CoordEvict |-> 6, WorkerEvictResult |-> 7, RegisterModel |-> 9,
   RegisterDomain |-> 10, ControlLoad |-> 11, ControlLoadReply |-> 12, ControlState |-> 13,
   WorkerHello |-> 15]

Kind == DOMAIN KindNumber

ASSUME KindAssumption == \A kind \in Kind : KindNumber[kind] < Place[Width["u32"]]

FieldType(field) ==
  CASE field \in {"worker", "boot", "node", "residency", "model", "revision", "domain",
                  "device"} -> "uid"
    [] field \in {"lifecycle", "validity", "readiness"} -> "u8"
    [] field = "protocol_version" -> "u32"
    [] field = "success" -> "bool"
    [] field = "error" -> "string"
    [] field = "devices" -> "uids"
    [] field = "device_generations" -> "u64s"
    [] OTHER -> "u64"

\* Slip: a report is written with two generations in each other's place.
WrittenReportSwapped ==
  <<"worker", "boot", "residency", "lifecycle", "validity", "readiness", "generation",
    "artifact_generation", "model_generation", "adapter_generation", "device_generation",
    "epoch">>

\* encode_worker_report.
WrittenReport ==
  <<"worker", "boot", "residency", "lifecycle", "validity", "readiness", "generation",
    "model_generation", "artifact_generation", "adapter_generation", "device_generation",
    "epoch">>

\* What the other encoders write, in their order.
Written(kind) ==
  CASE kind = "RegisterWorker" ->
         <<"worker", "boot", "node", "protocol_version", "devices", "device_generations">>
    [] kind = "WorkerRegistered" -> <<"epoch", "error">>
    [] kind = "WorkerHello" -> <<"worker", "boot">>
    [] kind = "WorkerReport" -> WrittenReport
    [] kind = "CoordLoad" -> <<"model", "revision", "domain", "device", "required_bytes">>
    [] kind \in {"WorkerLoadResult", "ControlLoadReply"} ->
         <<"success", "residency", "bytes", "error">>
    [] kind = "CoordEvict" -> <<"residency">>
    [] kind = "WorkerEvictResult" -> <<"success", "error">>
    [] kind = "RegisterModel" -> <<"model", "revision", "required_bytes">>
    [] kind = "RegisterDomain" -> <<"domain", "device", "node", "governed_bytes">>
    [] kind = "ControlLoad" -> <<"model", "revision">>
    [] kind = "ControlState" -> << >>

\* decode_worker_report.
ReadReport ==
  <<"worker", "boot", "residency", "lifecycle", "validity", "readiness", "generation",
    "model_generation", "artifact_generation", "adapter_generation", "device_generation",
    "epoch">>

\* What the other decoders read, in their order.
Read(kind) ==
  CASE kind = "RegisterWorker" ->
         <<"worker", "boot", "node", "protocol_version", "devices", "device_generations">>
    [] kind = "WorkerRegistered" -> <<"epoch", "error">>
    [] kind = "WorkerHello" -> <<"worker", "boot">>
    [] kind = "WorkerReport" -> ReadReport
    [] kind = "CoordLoad" -> <<"model", "revision", "domain", "device", "required_bytes">>
    [] kind \in {"WorkerLoadResult", "ControlLoadReply"} ->
         <<"success", "residency", "bytes", "error">>
    [] kind = "CoordEvict" -> <<"residency">>
    [] kind = "WorkerEvictResult" -> <<"success", "error">>
    [] kind = "RegisterModel" -> <<"model", "revision", "required_bytes">>
    [] kind = "RegisterDomain" -> <<"domain", "device", "node", "governed_bytes">>
    [] kind = "ControlLoad" -> <<"model", "revision">>
    [] kind = "ControlState" -> << >>

-----------------------------------------------------------------------------
(* Encoding.                                                               *)

ItemWidth(type) == IF type = "uids" THEN Width["uid"] ELSE Width["u64"]

\* What a field of a message can be: a value of its type in the program, a text
\* whose length a u32 holds, a list that is no longer than its decoder accepts.
Holds(type, value) ==
  CASE type = "bool" -> value \in BOOLEAN
    [] type = "string" -> value \in Seq(Byte) /\ Len(value) < Place[Width["u32"]]
    [] type \in {"uids", "u64s"} ->
         /\ value \in Seq(0..(Place[ItemWidth(type)] - 1))
         /\ Len(value) <= MaxCount /\ Len(value) < Place[Width["u32"]]
    [] OTHER -> value \in 0..(Place[Width[type]] - 1)

\* One of the messages that the encoders take.
Encodable(m) ==
  /\ m = [kind |-> m.kind, body |-> m.body] /\ m.kind \in Kind
  /\ LET fields == Written(m.kind)
     IN  /\ m.body = [f \in {fields[i] : i \in DOMAIN fields} |-> m.body[f]]
         /\ \A i \in DOMAIN fields : Holds(FieldType(fields[i]), m.body[fields[i]])

\* One field: the BinWriter call its encoder makes.
Field(type, value) ==
  CASE type = "bool" -> Digits(IF value THEN 1 ELSE 0, Width["u8"])
    [] type = "string" -> Digits(Len(value), Width["u32"]) \o value
    [] type \in {"uids", "u64s"} ->
         Digits(Len(value), Width["u32"])
         \o FlattenSeq([i \in DOMAIN value |-> Digits(value[i], ItemWidth(type))])
    [] OTHER -> Digits(value, Width[type])

Payload(m) ==
  LET fields == Written(m.kind)
  IN  FlattenSeq([i \in DOMAIN fields |-> Field(FieldType(fields[i]), m.body[fields[i]])])

\* FrameCodec::encode: the kind, then the payload.
FrameOf(m) == Digits(KindNumber[m.kind], Width["u32"]) \o Payload(m)

-----------------------------------------------------------------------------
(* Decoding.  A reader has a position in its buffer; a read that needs more *)
(* than is left throws.                                                     *)

\* need.
Has(bytes, at, n) == at + n <= Len(bytes)

\* The position after a read that threw: it has nothing left either.
Thrown(bytes) == Len(bytes) + 1

NumberAt(bytes, at, w) == Number(SubSeq(bytes, at + 1, at + w))

\* Slip: string() takes the length it read on trust.
TextUnchecked(bytes, at, n) == TRUE

\* string() compares the length it read with what is left.
TextFits(bytes, at, n) == n <= Len(bytes) - at

\* The position behind a field: the checks its decoder makes before it reads.
After(type, bytes) == [at \in 0..Thrown(bytes) |->
  LET width == CASE type \in {"string", "uids", "u64s"} -> Width["u32"]
                 [] type = "bool" -> Width["u8"]
                 [] OTHER -> Width[type]
      count == NumberAt(bytes, at, width)
  IN  CASE ~ Has(bytes, at, width) -> Thrown(bytes)
        [] Has(bytes, at, width) /\ type = "string" ->
             IF TextFits(bytes, at + width, count) THEN at + width + count ELSE Thrown(bytes)
        [] Has(bytes, at, width) /\ type \in {"uids", "u64s"} ->
             IF count <= MaxCount /\ Has(bytes, at + width, count * ItemWidth(type))
             THEN at + width + count * ItemWidth(type) ELSE Thrown(bytes)
        [] OTHER -> at + width]

\* The value of a field that was read.
ValueAt(type, bytes, at) ==
  LET items(w) ==
        LET first == at + Width["u32"]
        IN  [i \in 1..NumberAt(bytes, at, Width["u32"]) |->
               NumberAt(bytes, first + (i - 1) * w, w)]
  IN  CASE type = "bool" -> NumberAt(bytes, at, Width["u8"]) # 0
        [] type = "string" -> items(1)
        [] type \in {"uids", "u64s"} -> items(ItemWidth(type))
        [] OTHER -> NumberAt(bytes, at, Width[type])

\* Positions behind the fields that one of the decode_ functions reads.  Bytes
\* behind the last field are not looked at.
Positions(kind, bytes) ==
  LET fields == Read(kind)
      behind[n \in 0..Len(fields)] ==
        IF n = 0 THEN 0 ELSE After(FieldType(fields[n]), bytes)[behind[n - 1]]
  IN  behind

Decodes(kind, bytes) == Positions(kind, bytes)[Len(Read(kind))] # Thrown(bytes)

Decode(kind, bytes) ==
  LET fields == Read(kind)
      at(f) == CHOOSE n \in DOMAIN fields : fields[n] = f
  IN  [f \in {fields[n] : n \in DOMAIN fields} |->
         ValueAt(FieldType(f), bytes, Positions(kind, bytes)[at(f) - 1])]

\* FrameCodec::decode, and the kind of the frame.
FrameBody(frame) == SubSeq(frame, Width["u32"] + 1, Len(frame))

FrameKinds(frame) ==
  {k \in Kind : Has(frame, 0, Width["u32"]) /\ KindNumber[k] = NumberAt(frame, 0, Width["u32"])}
=============================================================================
