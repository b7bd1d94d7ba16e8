------------------------------- MODULE Buffers -------------------------------
(***************************************************************************)
(* What travels between a DataWriter and a DataReader: payload buffers     *)
(* stamped with a channel and a buffer id (buffer_utils.rs), and           *)
(* acknowledgements that carry a buffer id back (channel.rs).              *)
(*                                                                         *)
(* The payload is abstracted to the number of the write_bytes call that    *)
(* produced it, so that two payloads are never confused.  The channel id   *)
(* of the header is the index of the per-channel functions of the other    *)
(* modules.  The buffer id is an unsigned machine integer on the wire and  *)
(* in the writer; the reader casts it to a signed one of the same width.   *)
(* Half is the first value that changes sign under that cast (2^31).       *)
(***************************************************************************)
EXTENDS Integers, Sequences

CONSTANTS
    Channels,   \* ids of the channels shared by one writer and one reader
    Half        \* 2^31: half of the range of a buffer id

ASSUME HalfAssumption == Half \in Nat \ {0}

BufferIds == 0 .. 2 * Half - 1

Payloads == Nat

(* A payload with its meta: new_buffer_with_meta.  The id is read back     *)
(* with get_buffer_id and the payload with new_buffer_drop_meta.           *)
NewBufferWithMeta(id, b) == [id |-> id, data |-> b]

BufferType == [id : BufferIds, data : Payloads]

(* buffer_id + 1 on u32, as compiled without overflow checks. *)
NextBufferId(id) == IF id + 1 = 2 * Half THEN 0 ELSE id + 1

(* buffer_id as i32 *)
AsI32(id) == IF id < Half THEN id ELSE id - 2 * Half

==============================================================================
