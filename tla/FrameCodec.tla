----------------------------- MODULE FrameCodec -----------------------------
(***************************************************************************)
(* Frames as bytes: NpsFrameCodec and its three tiers (core/codec.py), the *)
(* header (core/frames.py), and a reader that takes them from a stream     *)
(* (ncp/session.py on the client, nwp/native_server.py on the server).     *)
(*                                                                         *)
(* A byte of a length has Base values, so that lengths at the limits of    *)
(* its 2 and 4 bytes are small.  JSON and MessagePack write a frame as     *)
(* size bytes that only it has.                                            *)
(***************************************************************************)
EXTENDS Integers, Sequences, SequencesExt

CONSTANTS
  Base,
  Outgoing,   \* frames: id, type, tier, size, last, vector
  Registered, \* frame types of the FrameRegistry
  Limits,     \* max_payload of the sender
  MaxSent,    \* bound on the frames sent
  Huge,       \* a number beyond float32
  Text,       \* what is no number
  Absent

VARIABLES
  limit,   \* max_payload
  ahead,   \* what the reader asks for first: 2 bytes (session) or 4 (server)
  sent,    \* the frames encode() accepted
  wire,    \* bytes written and not read
  come,    \* how many of them have arrived
  raw,     \* the header bytes read so far, <<>> between frames
  stage,   \* "peek", "rest", "payload"
  read     \* what receive_frame returned or raised

codecVars == <<limit, ahead, sent, wire, come, raw, stage, read>>
-----------------------------------------------------------------------------
(* The header. *)

\* Big-endian numbers of n bytes.
Digits(x, n) == [i \in 1 .. n |-> (x \div Base ^ (n - i)) % Base]
Number(bytes) == FoldLeft(LAMBDA x, b : x * Base + b, 0, bytes)

DefaultMax == Base ^ 2 - 1

TierCode(tier) == CASE tier = "json" -> 0 [] tier = "msgpack" -> 1 [] tier = "vector" -> 2
Final == 4
Ext == 128

Extended(flags) == (flags \div Ext) % 2 = 1
HeaderSize(flags) == IF Extended(flags) THEN 8 ELSE 4

\* to_bytes
HeaderBytes(type, flags, length) ==
  <<type, flags>> \o (IF Extended(flags) THEN <<0, 0>> \o Digits(length, 4) ELSE Digits(length, 2))

\* parse
Parse(bytes) ==
  [type |-> bytes[1], flags |-> bytes[2],
   length |-> Number(IF Extended(bytes[2]) THEN SubSeq(bytes, 5, 8) ELSE SubSeq(bytes, 3, 4))]
-----------------------------------------------------------------------------
(* The tiers. *)

Failure == [error |-> TRUE]

\* json.dumps and msgpack.packb of to_dict(), and back.
Pack(f) == [i \in 1 .. f.size |-> f.id]
Unpack(bytes) ==
  LET same == {f \in Outgoing : Pack(f) = bytes} IN IF same = {} THEN Failure ELSE CHOOSE f \in same : TRUE

Magic == <<78, 80, 66, 86>>
Version == 1
PrefixSize == 16

\* struct.pack("<f"): every other double is a float32, the ones between are rounded.
Float32(x) == x - (x % 2)

\* _extract_vector_search_vector takes a vector of finite numbers out of the metadata, and leaves
\* a marker there.
Extracted(f) == f.vector # Absent /\ \A i \in DOMAIN f.vector : f.vector[i] # Text
Vectors(f) == IF Extracted(f) THEN <<f.vector>> ELSE <<>>

\* A value beyond float32 makes struct raise.
Encodable(f) == f.tier = "vector" => \A i \in DOMAIN Vectors(f) : Huge \notin Range(Vectors(f)[i])

\* Tier3BinaryVectorCodec.encode
EncodeVector(f) ==
  Magic \o <<Version, 0>> \o Digits(Len(Vectors(f)), 2) \o Digits(f.size, 4) \o <<0, 0, 0, 0>>
    \o Pack(f)
    \o FlattenSeq([i \in DOMAIN Vectors(f) |->
         Digits(Len(Vectors(f)[i]), 4)
           \o FlattenSeq([j \in DOMAIN Vectors(f)[i] |-> <<Float32(Vectors(f)[i][j]), 0, 0, 0>>])])

\* _decode_payload, the vectors behind the metadata: each has its dimension and 4 bytes a value.
Segments(payload, offset, count) ==
  LET step(acc, i) ==
        LET dim == Number(SubSeq(payload, acc.at + 1, acc.at + 4))
        IN  IF acc = Failure \/ Len(payload) - acc.at < 4 \/ Len(payload) - acc.at - 4 < 4 * dim
            THEN Failure
            ELSE [at |-> acc.at + 4 + 4 * dim,
                  vectors |-> Append(acc.vectors, [j \in 1 .. dim |-> payload[acc.at + 1 + 4 * j]])]
  IN  FoldLeft(step, [at |-> offset, vectors |-> <<>>], [i \in 1 .. count |-> i])

\* _restore_vector_search_vector: what is at the place of the vector must be a marker that fits.
Restore(f, vectors) ==
  IF f.vector = Absent THEN f
  ELSE IF ~Extracted(f) \/ vectors = <<>> THEN Failure
  ELSE IF Len(vectors[1]) # Len(f.vector) THEN Failure
  ELSE [f EXCEPT !.vector = vectors[1]]

DecodeVector(payload) ==
  IF \/ Len(payload) < PrefixSize \/ SubSeq(payload, 1, 4) # Magic \/ payload[5] # Version
     \/ payload[6] # 0 \/ SubSeq(payload, 13, 16) # <<0, 0, 0, 0>>
     \/ Number(SubSeq(payload, 9, 12)) > Len(payload) - PrefixSize
  THEN Failure
  ELSE LET size == Number(SubSeq(payload, 9, 12))
           metadata == Unpack(SubSeq(payload, PrefixSize + 1, PrefixSize + size))
           segments == Segments(payload, PrefixSize + size, Number(SubSeq(payload, 7, 8)))
       IN  IF metadata = Failure \/ segments = Failure THEN Failure
           ELSE IF segments.at # Len(payload) THEN Failure
           ELSE Restore(metadata, segments.vectors)
-----------------------------------------------------------------------------
(* NpsFrameCodec. *)

\* _select_codec
Encoded(f) == IF f.tier = "vector" THEN EncodeVector(f) ELSE Pack(f)

\* _build_flags
Flags(f) == TierCode(f.tier) + IF f.last THEN Final ELSE 0

\* Mutant of Encode: a payload one byte too long for the short header is sent with it.
EncodeShort(f) ==
  LET payload == Encoded(f)
      ext == IF Len(payload) > DefaultMax + 1 THEN Ext ELSE 0
  IN  HeaderBytes(f.type, Flags(f) + ext, Len(payload)) \o payload

\* encode: a payload beyond 2 bytes of length sets EXT.
Encode(f) ==
  LET payload == Encoded(f)
      ext == IF Len(payload) > DefaultMax THEN Ext ELSE 0
  IN  HeaderBytes(f.type, Flags(f) + ext, Len(payload)) \o payload

\* decode: the type must be registered and the tier one of the three.
Decode(header, payload) ==
  IF header.type \notin Registered \/ header.flags % 4 = 3 THEN Failure
  ELSE IF header.flags % 4 = 2 THEN DecodeVector(payload) ELSE Unpack(payload)
-----------------------------------------------------------------------------
(* Sending and receiving. *)

Send(f) ==
  /\ Len(sent) < MaxSent
  /\ Encodable(f) /\ Len(Encoded(f)) <= limit
  /\ sent' = Append(sent, f) /\ wire' = wire \o Encode(f)
  /\ UNCHANGED <<limit, ahead, come, raw, stage, read>>

\* The network brings bytes in order, a few at a time.
Arrive(n) ==
  /\ come + n <= Len(wire) /\ come' = come + n
  /\ UNCHANGED <<limit, ahead, sent, wire, raw, stage, read>>

\* readexactly(n)
Take(n) == come >= n /\ come' = come - n /\ wire' = SubSeq(wire, n + 1, Len(wire))

\* The flags decide how much of the header there is.
ReadPeek ==
  /\ stage = "peek" /\ Take(ahead)
  /\ raw' = SubSeq(wire, 1, ahead) /\ stage' = "rest"
  /\ UNCHANGED <<limit, ahead, sent, read>>

ReadRest ==
  LET n == HeaderSize(raw[2]) - ahead
  IN  /\ stage = "rest" /\ Take(n)
      /\ raw' = raw \o SubSeq(wire, 1, n) /\ stage' = "payload"
      /\ UNCHANGED <<limit, ahead, sent, read>>

ReadPayload ==
  LET header == Parse(raw)
  IN  /\ stage = "payload" /\ Take(header.length)
      /\ read' = Append(read, [header |-> header, frame |-> Decode(header, SubSeq(wire, 1, header.length))])
      /\ raw' = <<>> /\ stage' = "peek"
      /\ UNCHANGED <<limit, ahead, sent>>

CodecInit ==
  /\ limit \in Limits /\ ahead \in {2, 4} /\ sent = <<>> /\ wire = <<>> /\ come = 0
  /\ raw = <<>> /\ stage = "peek" /\ read = <<>>

CodecNext ==
  \/ \E f \in Outgoing : Send(f)
  \/ \E n \in {1, 3, Len(wire)} : n > 0 /\ Arrive(n)
  \/ ReadPeek \/ ReadRest \/ ReadPayload
-----------------------------------------------------------------------------
(* Properties. *)

\* What a frame is read as: vectors come back as float32, and a vector that holds something else
\* than finite numbers cannot be read in the third tier; of an unregistered type nothing can.
ReadAs(f) ==
  IF f.type \notin Registered \/ (f.tier = "vector" /\ f.vector # Absent /\ ~Extracted(f)) THEN Failure
  ELSE IF f.tier = "vector" /\ f.vector # Absent
  THEN [f EXCEPT !.vector = [i \in DOMAIN f.vector |-> Float32(f.vector[i])]]
  ELSE f

\* A reader gets the frames that were sent, in order and each once, however their bytes arrive and
\* whichever header they needed; a frame that cannot be decoded costs only itself (core/codec.py,
\* read_frame_header).
WireFaithful ==
  /\ Len(read) <= Len(sent)
  /\ \A i \in DOMAIN read :
       /\ read[i].frame = ReadAs(sent[i])
       /\ ((read[i].header.flags \div Final) % 2 = 1) <=> sent[i].last
       /\ Extended(read[i].header.flags) <=> read[i].header.length > DefaultMax
  /\ wire = <<>> => Len(sent) = Len(read) + (IF stage = "peek" THEN 0 ELSE 1)
=============================================================================
