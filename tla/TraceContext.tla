---------------------------- MODULE TraceContext ----------------------------
(***************************************************************************)
(* How a trace travels with a call: the client's mapToBuffer() and         *)
(* encodeMetadata(), the server's deserializeTraceData() with the loop of  *)
(* bufferToMap() (tracing/src/Tracing.js).                                 *)
(***************************************************************************)
EXTENDS Frames, FiniteSets, SequencesExt

CONSTANTS
  Strings,            \* keys and values, as sequences of bytes
  Names, Blobs,       \* services and methods, and metadata
  MaxEntries
ASSUME StringsAssumption ==
  Strings \cup Names \cup Blobs \subseteq Seq(Byte) /\ MaxEntries \in Nat

VARIABLES
  map, service, method, metadata,  \* what the client sends
  frame,   \* the metadata buffer, <<>> before it is sent
  offset, result,  \* of bufferToMap()'s loop
  pc       \* "client", "refused", "server", "decode", "done"
vars == <<map, service, method, metadata, frame, offset, result, pc>>

(* Entries in the order of the object's keys. *)
Maps == {m \in SeqOf(Strings \X Strings, MaxEntries) :
           \A i, j \in DOMAIN m : i # j => m[i][1] # m[j][1]}

Init ==
  /\ map \in Maps /\ service \in Names /\ method \in Names /\ metadata \in Blobs
  /\ frame = <<>> /\ offset = 0 /\ result = {} /\ pc = "client"

mapToBuffer(m) == FlattenSeq([i \in DOMAIN m |-> Field(m[i][1]) \o Field(m[i][2])])

(* A key, value or trace that is too long makes the encoding throw. *)
Send ==
  LET tracing == mapToBuffer(map) IN
  /\ pc = "client"
  /\ IF (\A i \in DOMAIN map : Fits(map[i][1]) /\ Fits(map[i][2])) /\ Encodable(service, method, tracing)
     THEN frame' = encodeMetadata(service, method, tracing, metadata) /\ pc' = "server"
     ELSE pc' = "refused" /\ UNCHANGED frame
  /\ UNCHANGED <<map, service, method, metadata, offset, result>>

(* Without a trace there is no parent span. *)
Deserialize ==
  /\ pc = "server" /\ pc' = (IF getTracing(frame) = <<>> THEN "done" ELSE "decode")
  /\ UNCHANGED <<map, service, method, metadata, frame, offset, result>>

(* Mutant of EntryEnd: the two bytes of the value's length are forgotten. *)
EntryEndShort(buffer, at) == at + ReadUInt16(buffer, at)

EntryEnd(buffer, at) == Behind(buffer, at)

DecodeEntry ==
  LET buffer == getTracing(frame)  key == FieldAt(buffer, offset)
      at == Behind(buffer, offset)  value == FieldAt(buffer, at)
  IN /\ pc = "decode" /\ offset < Len(buffer)
     /\ result' = {e \in result : e[1] # key} \cup {<<key, value>>}
     /\ offset' = EntryEnd(buffer, at)
     /\ UNCHANGED <<map, service, method, metadata, frame, pc>>

Decoded ==
  /\ pc = "decode" /\ offset >= Len(getTracing(frame)) /\ pc' = "done"
  /\ UNCHANGED <<map, service, method, metadata, frame, offset, result>>

Next == Send \/ Deserialize \/ DecodeEntry \/ Decoded
Spec == Init /\ [][Next]_vars
-----------------------------------------------------------------------------
(* The server reads what the client wrote, whatever the lengths, also of   *)
(* empty fields: none of them shifts the ones behind it.                   *)
FrameRoundTrip ==
  pc \in {"server", "decode", "done"} =>
    /\ getVersion(frame) = VERSION /\ getService(frame) = service
    /\ getMethod(frame) = method /\ getTracing(frame) = mapToBuffer(map)
    /\ getMetadata(frame) = metadata

(* The loop is at the start of an entry each time, with those in front of  *)
(* it in the result, and so ends with the client's map.                    *)
MapRoundTrip ==
  /\ pc \in {"decode", "done"} =>
       \E n \in 0 .. Len(map) :
         /\ offset = Len(mapToBuffer(SubSeq(map, 1, n)))
         /\ result = {map[i] : i \in 1 .. n}
  /\ pc = "done" => result = ToSet(map)

(* What the client encoded is what the server decodes.                     *)
RoundTrip == FrameRoundTrip /\ MapRoundTrip
=============================================================================
