---------------------------- MODULE AnchorCache -----------------------------
(***************************************************************************)
(* AnchorFrameCache (core/cache.py): schemas by anchor id, for a time.  A  *)
(* schema is a sequence of fields; the hash of a sequence is itself.       *)
(***************************************************************************)
EXTENDS Integers, Sequences, SequencesExt

CONSTANTS
  Schemas,
  Short,      \* an anchor_id that does not start with "sha256:"
  Ttls,
  MaxMoment,  \* bound on the clock
  Missing

VARIABLES
  moment,     \* time.monotonic()
  frames,     \* _store: anchor_id |-> schema and expires_at
  told,       \* history: what get() answered a reader, and until when that was cached
  again       \* history: the schema a later get() answered in that time

cacheVars == <<moment, frames, told, again>>

\* compute_anchor_id: the fields sorted by name, so that their order does not count.
ComputeAnchorId(schema) == SortSeq(schema, LAMBDA f, g : f.name < g.name)
AnchorIds == {ComputeAnchorId(s) : s \in Schemas}
SchemasEqual(a, b) == ComputeAnchorId(a) = ComputeAnchorId(b)

\* A live entry holds another schema: set() raises.
Poisoned(id, schema) ==
  frames[id] # Missing /\ moment < frames[id].expires /\ ~SchemasEqual(frames[id].schema, schema)

\* set: the id of the frame is believed if it looks like a hash.  The new ttl counts, even if it
\* ends before the old one.
Set(given, schema, ttl) ==
  LET id == IF given = Short THEN ComputeAnchorId(schema) ELSE given
      expires == moment + ttl
  IN  /\ ~Poisoned(id, schema)
      /\ frames' = [frames EXCEPT ![id] = [schema |-> schema, expires |-> expires]]
      /\ told' = IF told # Missing /\ told.id = id /\ told.until > expires
                 THEN [told EXCEPT !.until = expires] ELSE told
      /\ UNCHANGED <<moment, again>>

\* get and get_required: an expired entry is dropped.  The reader may remember the answer.
Get(id, remember) ==
  /\ frames[id] # Missing
  /\ LET answer == ComputeAnchorId(frames[id].schema)
     IN  IF moment > frames[id].expires
         THEN frames' = [frames EXCEPT ![id] = Missing] /\ UNCHANGED <<told, again>>
         ELSE /\ IF remember
                 THEN told' = [id |-> id, schema |-> answer, until |-> frames[id].expires] /\ again' = Missing
                 ELSE /\ UNCHANGED told
                      /\ again' = IF told # Missing /\ told.id = id /\ moment < told.until THEN answer ELSE again
              /\ UNCHANGED frames
  /\ UNCHANGED moment

\* invalidate, after which nothing said of the id counts.
Invalidate(id) ==
  /\ frames' = [frames EXCEPT ![id] = Missing]
  /\ told' = (IF told # Missing /\ told.id = id THEN Missing ELSE told)
  /\ again' = (IF told' = Missing THEN Missing ELSE again)
  /\ UNCHANGED moment

\* _evict_expired, when the cache is counted.
EvictExpired ==
  /\ frames' = [id \in AnchorIds |->
       IF frames[id] # Missing /\ moment > frames[id].expires THEN Missing ELSE frames[id]]
  /\ UNCHANGED <<moment, told, again>>

Elapses == moment < MaxMoment /\ moment' = moment + 1 /\ UNCHANGED <<frames, told, again>>

CacheInit ==
  /\ moment = 0 /\ frames = [id \in AnchorIds |-> Missing]
  /\ told = Missing /\ again = Missing

CacheNext ==
  \/ \E given \in AnchorIds \union {Short}, schema \in Schemas, ttl \in Ttls : Set(given, schema, ttl)
  \/ \E id \in AnchorIds : (\E remember \in BOOLEAN : Get(id, remember)) \/ Invalidate(id)
  \/ EvictExpired \/ Elapses
-----------------------------------------------------------------------------
\* Who read a schema may rely on it for as long as it was cached then, however often it is set
\* again with as long a ttl, and whatever is evicted: no reader is told another schema in that time
\* ("Anchor poisoning protection: same anchor_id + different schema", core/cache.py).
AnchorsKept == again # Missing => again = told.schema
=============================================================================
