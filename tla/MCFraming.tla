----------------------------- MODULE MCFraming -----------------------------
(***************************************************************************)
(* Framing for TLC: a byte has eight values and a u32 two bytes; one       *)
(* message of every kind, some with an empty and a non-empty text or list, *)
(* fields of one type told apart by their values, and one message that is  *)
(* too large for a frame.                                                  *)
(***************************************************************************)
EXTENDS Framing

MCWidth == [u8 |-> 1, u32 |-> 2, u64 |-> 3, uid |-> 4]

Fields == {"worker", "boot", "node", "protocol_version", "devices", "device_generations",
           "epoch", "error", "residency", "lifecycle", "validity", "readiness", "generation",
           "model_generation", "artifact_generation", "adapter_generation",
           "device_generation", "model", "revision", "domain", "device", "required_bytes",
           "success", "bytes", "governed_bytes"}

\* A value for the i-th field of a message; n is the length of texts and lists.
Sample(type, i, n) ==
  CASE type = "bool" -> n = 1
    [] type = "string" -> [j \in 1..n |-> (j + 6) % Radix]
    [] type \in {"uids", "u64s"} -> [j \in 1..n |-> 20 * j + i]
    [] type = "u8" -> i
    [] type = "u32" -> 40 + i
    [] OTHER -> 60 + i

MessageOf(kind, n) ==
  LET fields == Written(kind)
      at(f)  == CHOOSE i \in DOMAIN fields : fields[i] = f
  IN  [kind |-> kind,
       body |-> [f \in {fields[i] : i \in DOMAIN fields} |-> Sample(FieldType(f), at(f), n)]]

MCMessages ==
  {MessageOf(kind, 1) : kind \in Kind}
  \cup {MessageOf("RegisterWorker", 2), MessageOf("WorkerRegistered", 0),
        MessageOf("ControlLoadReply", 2), MessageOf("WorkerEvictResult", 45)}
=============================================================================
