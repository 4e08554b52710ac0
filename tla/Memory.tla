------------------------------- MODULE Memory -------------------------------
(***************************************************************************)
(* cortex/memory.py: the governed memory of one task, and the two calls    *)
(* the runtime makes for one @memory record: _execute_memory while the     *)
(* record executes, and apply_if_requested after the budget was debited.   *)
(*                                                                         *)
(* A value is a sequence of words.  The store is a sequence of entries in  *)
(* the order of updated_at, oldest first: read and digest depend on that   *)
(* order and on nothing else (access counts and times are left out).       *)
(***************************************************************************)
EXTENDS Integers, Sequences, SequencesExt, SclSpec

CONSTANTS
  Keys,            \* the keys records may name
  KeyTier,         \* [Keys -> tiers], _infer_tier by key prefix
  KeyContains,     \* set of <<query, key>>: the query is a substring of the key
  Seed,            \* the seeded rules, a sequence of entries
  MemoryActions    \* the @memory records a task may execute

Tiers == {"short_term", "episodic", "semantic"}
Ttls == {"ephemeral", "session", "persistent"}

\* A value is a list of words; the schema admits a max_tokens of one and more.
ASSUME MemoryAssumption ==
  /\ KeyTier \in [Keys -> Tiers]
  /\ Seed \in Seq(ToSet(Seed)) /\ \A e \in ToSet(Seed) : e.value \in Seq(ToSet(e.value))
  /\ \A a \in MemoryActions :
       /\ a.anchor = "memory" /\ SchemaValid(a)
       /\ Get(a.fields, "max_tokens", 128) \in Nat \ {0}
       /\ Get(a.fields, "value", <<>>) \in Seq(ToSet(Get(a.fields, "value", <<>>)))

VARIABLES
  store,    \* _store
  applying  \* the record executed and not yet applied, <<>> or <<record>>

memoryVars == <<store, applying>>

MemoryInit == store = Seed /\ applying = <<>>

---------------------------------------------------------------------------

Matches(query, e) == <<query, e.key>> \in KeyContains \/ query \in ToSet(e.value)

\* The entries of m that are in S, in their order.
Those(m, S) ==
  LET those[n \in 0..Len(m)] ==
        IF n = 0 THEN <<>>
        ELSE IF m[n] \in S THEN Append(those[n - 1], m[n]) ELSE those[n - 1]
  IN  those[Len(m)]

Hits(m, query) == {e \in ToSet(m) : Matches(query, e)}
Under(m, key) == {e \in ToSet(m) : e.key = key}

\* read(query): an exact key match first, then by time of update.
Read(m, query) ==
  Those(m, Hits(m, query) \cap Under(m, query)) \o Those(m, Hits(m, query) \ Under(m, query))

\* write(key, value, ttl, tier): an existing entry keeps its tier.
Write(m, key, value, ttl, tier) ==
  LET entry == [key |-> key, value |-> value, ttl |-> ttl,
                tier |-> IF Under(m, key) = {} THEN tier ELSE (CHOOSE e \in Under(m, key) : TRUE).tier]
  IN  Append(Those(m, ToSet(m) \ Under(m, key)), entry)

\* The values joined by " | " and split into words: the bars are words too.
Joined(entries) ==
  LET words[n \in 1..Len(entries)] ==
        IF n = 1 THEN entries[1].value ELSE words[n - 1] \o <<"|">> \o entries[n].value
  IN  words[Len(entries)]

CompressedUncut(entries, maxTokens) == Joined(entries)

Compressed(entries, maxTokens) ==
  LET words == Joined(entries)
  IN  IF Len(words) > maxTokens THEN SubSeq(words, 1, maxTokens) ELSE words

\* compress(source, target, max_tokens): no match, no write.
Compress(m, source, target, maxTokens) ==
  IF Read(m, source) = <<>> THEN m
  ELSE Write(m, target, Compressed(Read(m, source), maxTokens), "persistent", "episodic")

\* A ttl the enumeration does not know falls back to "session".
Ttl(fields) == LET ttl == Get(fields, "ttl", "session")
               IN  IF ttl \in Ttls THEN ttl ELSE "session"

KeyOf(fields) == Get(fields, "key", "unknown")
ValueOf(fields) == Get(fields, "value", <<>>)
SourceOf(fields) == Get(fields, "source", "")
TargetOf(fields) == Get(fields, "target", "")
MaxTokensOf(fields) == Get(fields, "max_tokens", 128)

\* What one @memory record does to the store; read and ignore only log.
MemoryAfter(m, action) ==
  LET f == action.fields IN
  CASE action.relation = "write" ->
         Write(m, KeyOf(f), ValueOf(f), Ttl(f), KeyTier[KeyOf(f)])
    [] action.relation = "compress" ->
         Compress(m, SourceOf(f), TargetOf(f), MaxTokensOf(f))
    [] OTHER -> m

---------------------------------------------------------------------------

\* runtime._execute_memory
ExecuteMemory(action) ==
  /\ store' = MemoryAfter(store, action)
  /\ applying' = <<action>>

ApplyWithoutTtl(action) ==
  store' = IF action.relation = "write"
           THEN Write(store, KeyOf(action.fields), ValueOf(action.fields), "session",
                      KeyTier[KeyOf(action.fields)])
           ELSE MemoryAfter(store, action)

\* memory.apply_if_requested: the same record once more, on the store as it
\* now is.
ApplyIfRequested(action) == store' = MemoryAfter(store, action)

MemoryExecute == /\ applying = <<>>
                 /\ \E a \in MemoryActions : ExecuteMemory(a)

MemoryApply == /\ applying # <<>>
               /\ ApplyIfRequested(applying[1])
               /\ applying' = <<>>

MemoryNext == MemoryExecute \/ MemoryApply

MemorySpec == MemoryInit /\ [][MemoryNext]_memoryVars

---------------------------------------------------------------------------
(* Properties. *)

\* Applying a record a second time changes nothing the first time did not
\* already do, unless it compresses a source that by then also matches its
\* own target, or whose lesson was cut, so that its target may no longer match
\* (execute_memory, then apply_if_requested, for every record).
SecondApplicationIsIdle ==
  [][/\ applying # <<>>
     /\ applying' = <<>>
     /\ applying[1].relation = "compress" =>
          \A i \in DOMAIN store : store[i].key = TargetOf(applying[1].fields) =>
            /\ ~Matches(SourceOf(applying[1].fields), store[i])
            /\ Len(store[i].value) < MaxTokensOf(applying[1].fields)
     => store' = store]_memoryVars

\* "a compact lesson": what compress leaves under a key has at most
\* max_tokens words, however often lessons are folded into lessons.
LessonsAreCompact ==
  \A i \in DOMAIN store :
    (\E a \in MemoryActions : a.relation = "compress" /\ TargetOf(a.fields) = store[i].key)
      => \E a \in MemoryActions : /\ a.relation = "compress" /\ TargetOf(a.fields) = store[i].key
                                  /\ Len(store[i].value) <= MaxTokensOf(a.fields)
=============================================================================
