------------------------------ MODULE Settings ------------------------------
(***************************************************************************)
(* The settings service (src/server/settings/service.ts): rows with        *)
(* defaults, and a cache in the process.  A reader that misses the cache   *)
(* reads the row, waits for it, and stores what it has read; a writer      *)
(* stores the row, waits, and removes the key from the cache.              *)
(*                                                                         *)
(* The five seconds of a cache entry are left out: an entry lapses at some *)
(* time, and is no entry from then on.  Validation is left out.            *)
(***************************************************************************)
EXTENDS Integers

CONSTANTS
  Keys, Values,
  Default,   \* [Keys -> Values]
  None

ASSUME DefaultAssumption == Default \in [Keys -> Values]

VARIABLES
  stored,    \* [Keys -> None or the value of the row]
  cache,     \* [Keys -> None or the value that is answered]
  chosen     \* history: [Keys -> None or what an operator last stored]

settings == <<stored, cache, chosen>>

SettingsInit ==
  /\ stored \in {[k \in Keys |-> None], Default}
  /\ cache = [k \in Keys |-> None]
  /\ chosen = [k \in Keys |-> None]

\* parseOrDefault.
OrDefault(k, row) == IF row = None THEN Default[k] ELSE row

Hit(k) == cache[k] # None

\* What getSetting stores when the row has come back.
Remember(read) ==
  cache' = [k \in Keys |-> IF read[k] = None THEN cache[k] ELSE read[k]]

\* The upsert of a value, and the invalidation that follows it.
StoreValue(k, value) ==
  /\ stored' = [stored EXCEPT ![k] = value] /\ chosen' = [chosen EXCEPT ![k] = value]
  /\ UNCHANGED cache
Invalidate(keys) == cache' = [k \in Keys |-> IF k \in keys THEN None ELSE cache[k]]

MissingRows == {k \in Keys : stored[k] = None}

\* Mutant: the rows found missing are written whoever has written them since.
SeededMutant(missing) == [k \in Keys |-> IF k \in missing THEN Default[k] ELSE stored[k]]
\* createMany with skipDuplicates.
Seeded(missing) == [k \in Keys |-> IF k \in missing /\ stored[k] = None THEN Default[k] ELSE stored[k]]

Lapse(k) ==
  /\ Hit(k) /\ cache' = [cache EXCEPT ![k] = None]
  /\ UNCHANGED <<stored, chosen>>

\* Nothing that the cache answers with differs from what an operator last stored.
Settled(k) == cache[k] \in {None, OrDefault(k, chosen[k])}
=============================================================================
