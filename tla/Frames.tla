------------------------------- MODULE Frames -------------------------------
(***************************************************************************)
(* frames/src/Metadata.js.  A buffer is a sequence of bytes and a string   *)
(* its encoding, which UTF8Encoder takes there and back.  A length is two  *)
(* bytes, the greater one first; the buffer refuses one that does not fit. *)
(***************************************************************************)
EXTENDS Integers, Sequences

CONSTANT Base  \* 256 in the code
ASSUME BaseAssumption == Base \in Nat \ {0, 1}

Byte == 0 .. Base - 1
VERSION == 1

UInt16(n) == <<n \div Base, n % Base>>
Fits(s) == Len(s) < Base * Base

(* readUInt16BE() at an offset that counts from zero. *)
ReadUInt16(buffer, offset) == buffer[offset + 1] * Base + buffer[offset + 2]
Bytes(buffer, from, to) == SubSeq(buffer, from + 1, to)

Field(s) == UInt16(Len(s)) \o s

Encodable(service, method, tracing) == Fits(service) /\ Fits(method) /\ Fits(tracing)

encodeMetadata(service, method, tracing, metadata) ==
  UInt16(VERSION) \o Field(service) \o Field(method) \o Field(tracing) \o metadata

(* The offset behind the field at an offset. *)
Behind(buffer, offset) == offset + 2 + ReadUInt16(buffer, offset)
FieldAt(buffer, offset) == Bytes(buffer, offset + 2, Behind(buffer, offset))

getVersion(buffer) == ReadUInt16(buffer, 0)
getService(buffer) == FieldAt(buffer, 2)
getMethod(buffer) == FieldAt(buffer, Behind(buffer, 2))
getTracing(buffer) == FieldAt(buffer, Behind(buffer, Behind(buffer, 2)))
getMetadata(buffer) == Bytes(buffer, Behind(buffer, Behind(buffer, Behind(buffer, 2))), Len(buffer))
=============================================================================
