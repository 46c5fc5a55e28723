---------------------------- MODULE PatternBatch ----------------------------
(***************************************************************************)
(* How a start of the mod gets its pointers into the game's image:         *)
(* memory/pattern_batch.cpp over the search of PatternScan, with the file  *)
(* of offsets that memory/pattern_cache.cpp keeps from start to start,     *)
(* while the game is updated in between.                                   *)
(*                                                                         *)
(* The key of the cache is a hash of the pattern and of the image's size;  *)
(* two keys are taken to have different hashes.                            *)
(***************************************************************************)
EXTENDS PatternScan, Sequences

CONSTANTS
  Batches,     \* bound: the sequences of patterns that m_entries may be
  MaxLength,   \* bound: bytes and wildcards of a pattern
  Sizes,       \* bound: sizes of an image
  MaxUpdates,  \* bound: updates of the game
  MaxStarts    \* bound: starts of the mod

(* The length of a pattern.                                                *)
Length(s) == CHOOSE n \in 1..MaxLength : DOMAIN s = 0..n - 1

ASSUME PatternBatchAssumption ==
  /\ \A b \in Batches : b \in Seq(UNION {[0..n - 1 -> Bytes \cup {Wild}] : n \in 1..MaxLength})
  /\ MaxLength \in Nat /\ MaxUpdates \in Nat /\ MaxStarts \in Nat
  /\ Sizes \subseteq Nat /\ \A s \in Sizes : MaxLength <= s


VARIABLES
  patterns,  \* the patterns of m_entries, the same in every start
  mod,       \* "out", "run" while the batch runs, "search" in a scan, "found" after it, "in"
  entry,     \* the entry the loop of run() is at
  allFound,  \* all_found
  cache,     \* m_data: the offset by entry and size, -1 for none
  stored,    \* the cache's file, likewise
  pointers,  \* what the entries' callbacks got, -1 for nothing
  seen,      \* history: the images the game has had
  updates,   \* bound: updates so far
  starts     \* bound: starts so far

cacheVars == <<cache, stored>>
countVars == <<seen, updates, starts>>
batchVars == <<patterns, mod, entry, allFound, cacheVars, pointers, countVars>>
allVars   == <<callVars, batchVars>>

Entries   == DOMAIN patterns
Images(n) == [0..n - 1 -> Bytes]
NoOffsets == [e \in Entries |-> [n \in Sizes |-> -1]]

BatchInit ==
  /\ size \in Sizes /\ text \in Images(size)
  /\ patterns \in Batches
  /\ sig = patterns[1] /\ length = 0 /\ step = "none" /\ i = 0 /\ maxShift = 0
  /\ wildcard = -1 /\ shift = [b \in Bytes |-> 0] /\ current = 0 /\ result = -1
  /\ mod = "out"
  /\ entry = 1
  /\ allFound = TRUE
  /\ cache = NoOffsets
  /\ stored = NoOffsets
  /\ pointers = [e \in Entries |-> -1]
  /\ seen = {text}
  /\ updates = 0
  /\ starts = 0

(* The batch is made: pattern_cache reads its file, if there is one.  The  *)
(* record its loop reads past the end of the file is that of the one       *)
(* before, which emplace leaves as it is.                                  *)
Start ==
  /\ mod = "out"
  /\ starts < MaxStarts
  /\ starts' = starts + 1
  /\ mod' = "run"
  /\ entry' = 1
  /\ allFound' = TRUE
  /\ cache' = stored
  /\ pointers' = [e \in Entries |-> -1]
  /\ UNCHANGED <<callVars, patterns, stored, seen, updates>>

(* Mutant of Cached: the key is the pattern's hash alone.                  *)
Cached_AnySize(e) ==
  IF \E n \in Sizes : cache[e][n] # -1 THEN cache[e][CHOOSE n \in Sizes : cache[e][n] # -1] ELSE -1

(* get_cached_offset.                                                      *)
Cached(e) == cache[e][size]

Hit ==
  /\ mod = "run"
  /\ entry \in Entries
  /\ Cached(entry) # -1
  /\ pointers' = [pointers EXCEPT ![entry] = Cached(entry)]
  /\ entry' = entry + 1
  /\ UNCHANGED <<callVars, patterns, mod, allFound, cacheVars, countVars>>

Search ==
  /\ mod = "run"
  /\ entry \in Entries
  /\ Cached(entry) = -1
  /\ Begin(patterns[entry], Length(patterns[entry]))
  /\ mod' = "search"
  /\ UNCHANGED <<regionVars, patterns, entry, allFound, cacheVars, pointers, countVars>>

SearchOn ==
  /\ mod = "search"
  /\ Scan
  /\ UNCHANGED batchVars

(* update_cached_offset.                                                   *)
Noted == IF result = -1 THEN cache ELSE [cache EXCEPT ![entry][size] = result]

(* The scan returned; an entry not found is logged and the loop goes on.   *)
Searched ==
  /\ mod = "search"
  /\ step = "done"
  /\ pointers' = [pointers EXCEPT ![entry] = result]
  /\ cache' = Noted
  /\ allFound' = (allFound /\ result # -1)
  /\ entry' = entry + 1
  /\ mod' = "run"
  /\ step' = "none"
  /\ UNCHANGED <<regionVars, sig, length, i, maxShift, wildcard, shift, current, result,
                 patterns, stored, countVars>>

(* The loop is through: with one missing it throws, and the mod is out.    *)
RunEnds ==
  /\ mod = "run"
  /\ entry \notin Entries
  /\ mod' = IF allFound THEN "found" ELSE "out"
  /\ UNCHANGED <<callVars, patterns, entry, allFound, cacheVars, pointers, countVars>>

(* pointers::update writes the cache, once the hooks are made.             *)
Save ==
  /\ mod = "found"
  /\ mod' = "in"
  /\ stored' = cache
  /\ UNCHANGED <<callVars, patterns, entry, allFound, cache, pointers, countVars>>

(* The game ends while the file is open for writing, which emptied it.     *)
SaveBroken ==
  /\ mod = "found"
  /\ mod' = "out"
  /\ stored' = NoOffsets
  /\ UNCHANGED <<callVars, patterns, entry, allFound, cache, pointers, countVars>>

(* The mod is unloaded or the game ends, at any point.                     *)
Exit ==
  /\ mod # "out"
  /\ mod' = "out"
  /\ step' = "none"
  /\ UNCHANGED <<regionVars, sig, length, i, maxShift, wildcard, shift, current, result,
                 patterns, entry, allFound, cacheVars, pointers, countVars>>

(* The game is updated while it is not running.                            *)
UpdateGame ==
  /\ mod = "out"
  /\ updates < MaxUpdates
  /\ updates' = updates + 1
  /\ size' \in Sizes
  /\ text' \in Images(size')
  /\ seen' = seen \cup {text'}
  /\ UNCHANGED <<scanVars, patterns, mod, entry, allFound, cacheVars, pointers, starts>>

BatchNext ==
  \/ Start \/ Hit \/ Search \/ SearchOn \/ Searched \/ RunEnds
  \/ Save \/ SaveBroken \/ Exit \/ UpdateGame

BatchSpec == BatchInit /\ [][BatchNext]_allVars

-----------------------------------------------------------------------------
(* Where a pattern first occurs in the image, -1 if nowhere.               *)
FirstIn(s) ==
  LET n == Length(s)
      at == {p \in 0..size - n : \A j \in 0..n - 1 : s[j] = Wild \/ s[j] = text[p + j]}
  IN  IF at = {} THEN -1 ELSE CHOOSE p \in at : \A q \in at : p <= q

(* No two images the game has had are of the size of the one it has.       *)
SizeTells == \A t \in seen : DOMAIN t = DOMAIN text => t = text

(* Every pointer the mod goes on with is where its pattern first occurs,   *)
(* whether it was searched or taken from the file of an earlier start:     *)
(* cached offsets are not compared with the bytes there, so this is so as  *)
(* long as no update leaves the image with the size of an earlier one.     *)
PointersAreRight ==
  mod \in {"found", "in"} /\ SizeTells =>
    \A e \in Entries : pointers[e] # -1 /\ pointers[e] = FirstIn(patterns[e])

=============================================================================
