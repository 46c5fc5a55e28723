--------------------------- MODULE KeptFilesProofs ---------------------------
(***************************************************************************)
(* What a start of the mod has from the files of earlier ones.  First the  *)
(* pointers into the game.  PatternScan for any bytes, any pattern and any *)
(* image that is not shorter: the search returns the first occurrence, and *)
(* none is jumped.  PatternBatch for any batches, sizes and bounds: so     *)
(* does each search of a batch, and the pointers taken from the cache are  *)
(* right as well.  Then the settings: MenuSettings for any settings, values*)
(* and bounds keeps what was given them.                                   *)
(***************************************************************************)
EXTENDS PatternBatch, MenuSettings, TLAPS

-----------------------------------------------------------------------------
(* The pointers.                                                           *)

(* Each variable has its type, and the indices are in range.               *)
ScanTypeOK ==
  /\ length \in Nat \ {0} /\ size \in Nat /\ length <= size
  /\ sig \in [0..Last -> Bytes \cup {Wild}]
  /\ text \in [0..size - 1 -> Bytes]
  /\ step \in {"wildcard", "fill", "scan", "done"}
  /\ i \in -1..Last
  /\ maxShift \in 1..length
  /\ wildcard \in -1..Last
  /\ shift \in [Bytes -> 1..maxShift]
  /\ current \in Nat
  /\ result \in -1..ScanEnd

(* The first loop has seen no wildcard behind its index.                   *)
WildcardInv ==
  step = "wildcard" => i < Last /\ \A j \in 0..Last - 1 : j > i => sig[j] # Wild

(* The bytes before the last that a shift of at most maxShift moves over   *)
(* are no wildcards.                                                       *)
ReachInv ==
  step # "wildcard" => \A j \in 0..Last - 1 : j > Last - maxShift => sig[j] # Wild

(* Of the bytes filled in so far, none that a shift moves over is the byte *)
(* it is for.                                                              *)
ShiftInv ==
  /\ step = "fill" => /\ i >= 0 /\ i > Last - maxShift
                      /\ \A b \in Bytes, j \in 0..i - 1 : j > Last - shift[b] => sig[j] # b
  /\ step = "scan" => \A b \in Bytes, j \in 0..Last - 1 : j > Last - shift[b] => sig[j] # b

(* No window before current_idx matches, and nothing is found yet.         *)
PassedInv ==
  /\ step # "done" => result = -1
  /\ step \in {"wildcard", "fill"} => current = 0
  /\ step = "scan" => \A p \in 0..ScanEnd : p < current => ~MatchesAt(p)

ScanInv == ScanTypeOK /\ WildcardInv /\ ReachInv /\ ShiftInv /\ PassedInv /\ FindsFirst

(* At its call each local has its type.                                    *)
LEMMA ScanInit == CallInit => ScanInv
<1> SUFFICES ASSUME CallInit PROVE ScanInv
  OBVIOUS
<1>1. ScanTypeOK
  BY DEF CallInit, ScanTypeOK, Last, ScanEnd
<1>2. WildcardInv /\ ReachInv /\ ShiftInv /\ PassedInv /\ FindsFirst
  BY DEF CallInit, WildcardInv, ReachInv, ShiftInv, PassedInv, FindsFirst, Last, ScanEnd
<1> QED
  BY <1>1, <1>2 DEF ScanInv

(* The table is as long as the window may be shifted over the bytes behind *)
(* the last wildcard, and says so of each byte once it is filled.          *)
LEMMA TableStep ==
  ASSUME ScanInv, NotWild \/ WildcardFound \/ Fill \/ Filled
  PROVE  ScanInv'
<1> USE PatternScanAssumption DEF ScanInv, ScanTypeOK, Last, ScanEnd
<1>1. CASE NotWild
  <2>1. ScanTypeOK'
    BY <1>1 DEF NotWild, regionVars
  <2>3. WildcardInv'
    BY <1>1 DEF NotWild, regionVars, WildcardInv
  <2>2. ReachInv' /\ ShiftInv' /\ PassedInv' /\ FindsFirst'
    BY <1>1 DEF NotWild, regionVars, ReachInv, ShiftInv, PassedInv, FindsFirst
  <2> QED
    BY <2>1, <2>2, <2>3
<1>2. CASE WildcardFound
  <2>1. ScanTypeOK'
    BY <1>2 DEF WildcardFound, Reach, regionVars, WildcardInv
  <2>2. ReachInv'
    BY <1>2 DEF WildcardFound, Reach, regionVars, WildcardInv, ReachInv
  <2>3. ShiftInv'
    BY <1>2 DEF WildcardFound, Reach, regionVars, WildcardInv, ShiftInv
  <2>4. WildcardInv' /\ PassedInv' /\ FindsFirst'
    BY <1>2 DEF WildcardFound, regionVars, WildcardInv, PassedInv, FindsFirst
  <2> QED
    BY <2>1, <2>2, <2>3, <2>4
<1>3. CASE Fill
  <2>1. i \in 0..Last - 1 /\ i > Last - maxShift
    BY <1>3 DEF Fill, ShiftInv
  <2>2. sig[i] \in Bytes
    BY <1>3, <2>1 DEF Fill, ReachInv
  <2>3. Last - i \in 1..maxShift
    BY <2>1
  <2>4. ScanTypeOK'
    BY <1>3, <2>1, <2>2, <2>3 DEF Fill, regionVars
  <2>5. ShiftInv'
    <3>1. ASSUME NEW b \in Bytes, NEW j \in 0..i, j > Last - shift'[b]
          PROVE  sig[j] # b
      <4>1. CASE b = sig[i]
        BY <1>3, <2>1, <2>2, <3>1, <4>1 DEF Fill
      <4>2. CASE b # sig[i]
        BY <1>3, <2>1, <2>2, <3>1, <4>2 DEF Fill, ShiftInv
      <4> QED
        BY <4>1, <4>2
    <3> QED
      BY <1>3, <2>1, <3>1 DEF Fill, regionVars, ShiftInv
  <2>6. WildcardInv' /\ ReachInv' /\ PassedInv' /\ FindsFirst'
    BY <1>3 DEF Fill, regionVars, WildcardInv, ReachInv, PassedInv, FindsFirst
  <2> QED
    BY <2>4, <2>5, <2>6
<1>4. CASE Filled
  <2>1. ScanTypeOK'
    BY <1>4 DEF Filled, regionVars
  <2>3. PassedInv'
    <3>1. current = 0
      BY <1>4 DEF Filled, PassedInv
    <3> QED
      BY <1>4, <3>1 DEF Filled, PassedInv
  <2>2. WildcardInv' /\ ReachInv' /\ ShiftInv' /\ FindsFirst'
    BY <1>4 DEF Filled, regionVars, WildcardInv, ReachInv, ShiftInv, FindsFirst
  <2> QED
    BY <2>1, <2>2, <2>3
<1> QED
  BY <1>1, <1>2, <1>3, <1>4

(* A shift jumps over no window that matches: such a window would have the *)
(* byte under the last position of the current one where the table says    *)
(* there is neither it nor a wildcard.                                     *)
LEMMA ShiftJumpsNoMatch ==
  ASSUME ScanInv, step = "scan", current <= ScanEnd,
         NEW p \in 0..ScanEnd, current < p, p < current + shift[text[current + Last]]
  PROVE  ~MatchesAt(p)
<1> DEFINE b == text[current + Last]
           j == current + Last - p
<1> USE DEF ScanInv, ScanTypeOK, Last, ScanEnd
<1>1. b \in Bytes
  OBVIOUS
<1>2. shift[b] \in 1..length
  BY <1>1
<1>3. j \in 0..Last - 1 /\ j > Last - shift[b] /\ j > Last - maxShift
  BY <1>1, <1>2
<1>4. sig[j] # b /\ sig[j] # Wild
  BY <1>1, <1>3 DEF ShiftInv, ReachInv
<1>5. text[p + j] = b
  OBVIOUS
<1> QED
  BY <1>3, <1>4, <1>5 DEF MatchesAt

(* The loop over the windows.                                              *)
LEMMA WindowStep ==
  ASSUME ScanInv, Shift \/ Found \/ NotFound
  PROVE  ScanInv'
<1> USE DEF ScanInv, ScanTypeOK, Last, ScanEnd
<1>1. CASE Shift
  <2>1. current + Last \in 0..size - 1 /\ shift[text[current + Last]] \in 1..maxShift
    BY <1>1 DEF Shift
  <2>2. ScanTypeOK'
    BY <1>1, <2>1 DEF Shift, regionVars
  <2>3. \A p \in 0..ScanEnd : p < current' => ~MatchesAt(p)
    <3> TAKE p \in 0..ScanEnd
    <3> HAVE p < current'
    <3>1. CASE p < current
      BY <1>1, <3>1 DEF Shift, PassedInv
    <3>2. CASE p = current
      BY <1>1, <3>2 DEF Shift
    <3>3. CASE current < p
      BY <1>1, <3>3, ShiftJumpsNoMatch DEF Shift
    <3> QED
      BY <3>1, <3>2, <3>3
  <2>4. PassedInv'
    BY <1>1, <2>3 DEF Shift, regionVars, PassedInv, MatchesAt
  <2>5. WildcardInv' /\ ReachInv' /\ ShiftInv' /\ FindsFirst'
    BY <1>1 DEF Shift, regionVars, WildcardInv, ReachInv, ShiftInv, FindsFirst
  <2> QED
    BY <2>2, <2>4, <2>5
<1>2. CASE Found
  <2>1. current \in Occurrences /\ \A p \in Occurrences : current <= p
    BY <1>2 DEF Found, PassedInv, Occurrences
  <2>2. Occurrences' = Occurrences
    BY <1>2 DEF Found, regionVars, Occurrences, MatchesAt
  <2>3. FindsFirst'
    BY <1>2, <2>1, <2>2 DEF Found, FindsFirst
  <2>4. ScanTypeOK'
    BY <1>2 DEF Found, regionVars
  <2>5. WildcardInv' /\ ReachInv' /\ ShiftInv' /\ PassedInv'
    BY <1>2 DEF Found, regionVars, WildcardInv, ReachInv, ShiftInv, PassedInv
  <2> QED
    BY <2>3, <2>4, <2>5
<1>3. CASE NotFound
  <2>1. Occurrences = {}
    BY <1>3 DEF NotFound, PastEnd, PassedInv, Occurrences
  <2>2. Occurrences' = Occurrences
    BY <1>3 DEF NotFound, regionVars, Occurrences, MatchesAt
  <2>3. FindsFirst'
    BY <1>3, <2>1, <2>2 DEF NotFound, PassedInv, FindsFirst
  <2>4. ScanTypeOK'
    BY <1>3 DEF NotFound, regionVars
  <2>5. WildcardInv' /\ ReachInv' /\ ShiftInv' /\ PassedInv'
    BY <1>3 DEF NotFound, regionVars, WildcardInv, ReachInv, ShiftInv, PassedInv
  <2> QED
    BY <2>3, <2>4, <2>5
<1> QED
  BY <1>1, <1>2, <1>3

(* Every step of a search keeps the invariant.                             *)
LEMMA ScanStep == ScanInv /\ [Scan]_callVars => ScanInv'
<1> SUFFICES ASSUME ScanInv, [Scan]_callVars PROVE ScanInv'
  OBVIOUS
<1>1. CASE UNCHANGED callVars
  <2> USE <1>1 DEF callVars, regionVars, scanVars, ScanInv, Last, ScanEnd
  <2>1. (\A p : MatchesAt(p)' <=> MatchesAt(p)) /\ Occurrences' = Occurrences
    BY DEF MatchesAt, Occurrences
  <2>2. ScanTypeOK' /\ WildcardInv' /\ ReachInv' /\ ShiftInv'
    BY DEF ScanTypeOK, WildcardInv, ReachInv, ShiftInv
  <2>3. PassedInv' /\ FindsFirst'
    BY <2>1 DEF PassedInv, FindsFirst
  <2> QED
    BY <2>2, <2>3
<1> QED
  BY <1>1, TableStep, WindowStep DEF Scan

(* scan_pattern returns where the pattern first occurs, and std::nullopt   *)
(* only if it occurs nowhere, whatever the pattern, its wildcards and the  *)
(* image: the shift table never makes it jump over an occurrence.          *)
THEOREM ScanFindsFirst == CallSpec => []FindsFirst
<1>1. ScanInv => FindsFirst
  BY DEF ScanInv
<1> QED
  BY ScanInit, ScanStep, <1>1, PTL DEF CallSpec

(* Every index the search reads the image or its table at is in range.     *)
THEOREM ScanInBounds == CallSpec => [](step = "scan" /\ ~PastEnd => current + Last \in DOMAIN text)
<1>1. ScanInv => (step = "scan" /\ ~PastEnd => current + Last \in DOMAIN text)
  BY DEF ScanInv, ScanTypeOK, PastEnd, ScanEnd, Last
<1> QED
  BY ScanInit, ScanStep, <1>1, PTL DEF CallSpec

-----------------------------------------------------------------------------
(* A batch.  The image a cached offset was found in need not be the one    *)
(* the game has now, so where a pattern occurs first is said of any image. *)

(* Where a pattern occurs in an image of n bytes.                          *)
Hits(s, t, n) ==
  {p \in 0..n - Length(s) : \A j \in 0..Length(s) - 1 : s[j] = Wild \/ s[j] = t[p + j]}

IsFirst(p, s, t, n) == p \in Hits(s, t, n) /\ \A q \in Hits(s, t, n) : p <= q

(* Each variable has its type, and the image is one the game has had.      *)
BatchTypeOK ==
  /\ patterns \in Batches
  /\ size \in Sizes /\ text \in Images(size) /\ text \in seen
  /\ mod \in {"out", "run", "search", "found", "in"}
  /\ entry \in Nat \ {0}
  /\ allFound \in BOOLEAN
  /\ cache \in [Entries -> [Sizes -> Int]]
  /\ stored \in [Entries -> [Sizes -> Int]]
  /\ pointers \in [Entries -> Int]

(* The scan under way is that of the entry the loop is at, in this image.  *)
SearchInv ==
  /\ mod # "search" => step = "none"
  /\ mod = "search" =>
       entry \in Entries /\ sig = patterns[entry] /\ length = Length(sig) /\ ScanInv

(* What is kept by an entry and a size was found in an image of that size. *)
FoundIn(offsets) ==
  \A e \in Entries, n \in Sizes :
    offsets[e][n] # -1 =>
      \E t \in seen : DOMAIN t = 0..n - 1 /\ IsFirst(offsets[e][n], patterns[e], t, n)

CacheInv == FoundIn(cache) /\ FoundIn(stored)

(* The entries behind the loop have their pointers, or one is missing.     *)
PointerInv ==
  /\ mod # "out" =>
       \A e \in Entries :
         e < entry =>
           IF pointers[e] = -1 THEN ~allFound
                               ELSE SizeTells => IsFirst(pointers[e], patterns[e], text, size)
  /\ mod \in {"found", "in"} => allFound /\ entry \notin Entries

BatchInv == BatchTypeOK /\ SearchInv /\ CacheInv /\ PointerInv

(* A pattern of the batch has its length.                                  *)
LEMMA PatternTypes ==
  ASSUME BatchTypeOK, NEW e \in Entries
  PROVE  /\ Length(patterns[e]) \in 1..MaxLength
         /\ patterns[e] \in [0..Length(patterns[e]) - 1 -> Bytes \cup {Wild}]
<1>1. patterns \in Seq(UNION {[0..n - 1 -> Bytes \cup {Wild}] : n \in 1..MaxLength})
  BY PatternBatchAssumption DEF BatchTypeOK
<1>2. patterns[e] \in UNION {[0..n - 1 -> Bytes \cup {Wild}] : n \in 1..MaxLength}
  BY <1>1 DEF Entries
<1>3. PICK n \in 1..MaxLength : patterns[e] \in [0..n - 1 -> Bytes \cup {Wild}]
  BY <1>2
<1>4. DOMAIN patterns[e] = 0..n - 1
  BY <1>3
<1>5. Length(patterns[e]) \in 1..MaxLength /\ DOMAIN patterns[e] = 0..Length(patterns[e]) - 1
  BY <1>4 DEF Length
<1> HIDE DEF Length
<1> QED
  BY <1>3, <1>4, <1>5

(* The entries are numbered from 1.                                      *)
LEMMA EntriesAre == BatchTypeOK => Len(patterns) \in Nat /\ Entries = 1..Len(patterns)
<1> SUFFICES ASSUME BatchTypeOK PROVE Len(patterns) \in Nat /\ Entries = 1..Len(patterns)
  OBVIOUS
<1>1. patterns \in Seq(UNION {[0..n - 1 -> Bytes \cup {Wild}] : n \in 1..MaxLength})
  BY PatternBatchAssumption DEF BatchTypeOK
<1> QED
  BY <1>1 DEF Entries

(* The image is that of its size, and holds any pattern of the batch.    *)
LEMMA SizeTypes ==
  ASSUME BatchTypeOK
  PROVE  size \in Nat /\ MaxLength \in Nat /\ MaxLength <= size /\ text \in [0..size - 1 -> Bytes]
BY PatternBatchAssumption DEF BatchTypeOK, Images

(* A search of a pattern of the batch begins as scan_pattern does.         *)
LEMMA BeginSearch ==
  ASSUME NEW s, NEW n \in Nat \ {0}, s \in [0..n - 1 -> Bytes \cup {Wild}],
         size \in Nat, n <= size, text \in [0..size - 1 -> Bytes],
         Begin(s, n), UNCHANGED regionVars
  PROVE  ScanInv'
<1>1. ScanTypeOK'
  BY DEF Begin, regionVars, ScanTypeOK, Last, ScanEnd
<1>2. WildcardInv' /\ ReachInv' /\ ShiftInv' /\ PassedInv' /\ FindsFirst'
  BY DEF Begin, regionVars, WildcardInv, ReachInv, ShiftInv, PassedInv, FindsFirst, Last
<1> QED
  BY <1>1, <1>2 DEF ScanInv

(* The first occurrence is one value.                                      *)
LEMMA FirstIsOne ==
  ASSUME NEW p \in Int, NEW s, IsFirst(p, s, text, size), size \in Nat, Length(s) \in Nat
  PROVE  FirstIn(s) = p
<1> HIDE DEF Length
<1>1. Hits(s, text, size) \subseteq Int
  BY DEF Hits
<1>2. \A q \in Hits(s, text, size) : (\A r \in Hits(s, text, size) : q <= r) => q = p
  BY <1>1 DEF IsFirst
<1> QED
  BY <1>2 DEF FirstIn, Hits, IsFirst

(* What a search found is the first occurrence of its pattern.             *)
LEMMA ResultIsFirst ==
  ASSUME BatchTypeOK, SearchInv, mod = "search", step = "done"
  PROVE  result # -1 => IsFirst(result, patterns[entry], text, size)
<1>1. Occurrences = Hits(patterns[entry], text, size)
  BY DEF SearchInv, Occurrences, MatchesAt, Hits, ScanEnd, Last
<1> QED
  BY <1>1 DEF SearchInv, ScanInv, FindsFirst, IsFirst

(* Where the searched image is the only one of its size, what was found in *)
(* another image of that size was found in this one.                       *)
LEMMA CachedIsFirst ==
  ASSUME BatchTypeOK, CacheInv, SizeTells, NEW e \in Entries, Cached(e) # -1
  PROVE  IsFirst(Cached(e), patterns[e], text, size)
<1>1. PICK t \in seen : DOMAIN t = 0..size - 1 /\ IsFirst(cache[e][size], patterns[e], t, size)
  BY DEF BatchTypeOK, CacheInv, FoundIn, Cached
<1>2. t = text
  BY <1>1, SizeTypes DEF SizeTells
<1> QED
  BY <1>1, <1>2 DEF Cached

(* At first nothing is cached.                                             *)
LEMMA BatchBegins == BatchInit => BatchInv
<1> SUFFICES ASSUME BatchInit PROVE BatchInv
  OBVIOUS
<1>1. BatchTypeOK
  BY DEF BatchInit, BatchTypeOK, NoOffsets
<1>2. SearchInv /\ CacheInv /\ PointerInv
  BY DEF BatchInit, SearchInv, CacheInv, FoundIn, NoOffsets, PointerInv
<1> QED
  BY <1>1, <1>2 DEF BatchInv

(* Each variable of the batch keeps its type.                            *)
LEMMA BatchTypeStep == BatchInv /\ [BatchNext]_allVars => BatchTypeOK'
<1> SUFFICES ASSUME BatchInv, [BatchNext]_allVars PROVE BatchTypeOK'
  OBVIOUS
<1> USE DEF BatchInv, BatchTypeOK, Entries, Images, batchVars, cacheVars, countVars, callVars,
            regionVars
<1>1. CASE Start
  BY <1>1 DEF Start
<1>2. CASE Hit
  <2>1. Cached(entry) \in Int
    BY <1>2 DEF Hit, Cached
  <2> QED
    BY <1>2, <2>1 DEF Hit
<1>3. CASE Search
  BY <1>3 DEF Search
<1>4. CASE SearchOn
  <2>1. UNCHANGED <<text, size>>
    BY <1>4 DEF SearchOn, Scan, NotWild, WildcardFound, Fill, Filled, Shift, Found, NotFound
  <2> QED
    BY <1>4, <2>1 DEF SearchOn
<1>5. CASE Searched
  <2>1. result \in Int
    BY <1>5, SizeTypes DEF Searched, SearchInv, ScanInv, ScanTypeOK, ScanEnd
  <2>2. cache' \in [Entries -> [Sizes -> Int]]
    BY <1>5, <2>1 DEF Searched, Noted, SearchInv
  <2>3. allFound' \in BOOLEAN
    BY <1>5 DEF Searched
  <2>4. pointers' \in [Entries -> Int]
    BY <1>5, <2>1 DEF Searched
  <2>5. entry' \in Nat \ {0}
    BY <1>5 DEF Searched
  <2> QED
    BY <1>5, <2>2, <2>3, <2>4, <2>5 DEF Searched
<1>6. CASE RunEnds
  BY <1>6 DEF RunEnds
<1>7. CASE Save
  BY <1>7 DEF Save
<1>8. CASE SaveBroken
  BY <1>8 DEF SaveBroken, NoOffsets
<1>9. CASE Exit
  BY <1>9 DEF Exit
<1>10. CASE UpdateGame
  BY <1>10 DEF UpdateGame, scanVars
<1>11. CASE UNCHANGED allVars
  BY <1>11 DEF allVars
<1> QED
  BY <1>1, <1>2, <1>3, <1>4, <1>5, <1>6, <1>7, <1>8, <1>9, <1>10, <1>11 DEF BatchNext

(* Every step of the loop leaves the scan as it needs it.                *)
LEMMA SearchStep == BatchInv /\ [BatchNext]_allVars => SearchInv'
<1> SUFFICES ASSUME BatchInv, [BatchNext]_allVars PROVE SearchInv'
  OBVIOUS
<1> USE DEF BatchInv, SearchInv, Entries
<1>1. CASE Start \/ Hit \/ RunEnds \/ Save \/ SaveBroken \/ UpdateGame
  BY <1>1 DEF Start, Hit, RunEnds, Save, SaveBroken, UpdateGame, callVars, scanVars, BatchTypeOK
<1>2. CASE Search
  <2> DEFINE s == patterns[entry]
             n == Length(s)
  <2>0. entry \in Entries /\ Begin(s, n) /\ UNCHANGED regionVars
    BY <1>2 DEF Search
  <2>2. n \in Nat \ {0} /\ n <= size /\ s \in [0..n - 1 -> Bytes \cup {Wild}]
    BY <2>0, PatternTypes, SizeTypes
  <2> HIDE DEF s, n
  <2>1. ScanInv'
    BY <2>0, <2>2, SizeTypes, BeginSearch
  <2> QED
    BY <1>2, <2>1 DEF Search, Begin, s, n
<1>3. CASE SearchOn
  <2>1. ScanInv'
    BY <1>3, ScanStep DEF SearchOn
  <2>2. sig' = sig /\ length' = length
    BY <1>3 DEF SearchOn, Scan, NotWild, WildcardFound, Fill, Filled, Shift, Found, NotFound
  <2> QED
    BY <1>3, <2>1, <2>2 DEF SearchOn, batchVars
<1>4. CASE Searched \/ Exit
  BY <1>4 DEF Searched, Exit
<1>5. CASE UNCHANGED allVars
  <2>1. ScanInv => ScanInv'
    BY <1>5, ScanStep DEF allVars
  <2> QED
    BY <1>5, <2>1 DEF allVars, callVars, scanVars, batchVars
<1> QED
  BY <1>1, <1>2, <1>3, <1>4, <1>5 DEF BatchNext

(* The cache and its file take up nothing that was not found: an empty   *)
(* file, an earlier one, or the result of the search that ended.         *)
LEMMA CacheStep == BatchInv /\ [BatchNext]_allVars => CacheInv'
<1> SUFFICES ASSUME BatchInv, [BatchNext]_allVars PROVE CacheInv'
  OBVIOUS
<1> USE DEF BatchInv, CacheInv
<1>1. seen \subseteq seen' /\ patterns' = patterns
  BY DEF BatchNext, Start, Hit, Search, SearchOn, Searched, RunEnds, Save, SaveBroken, Exit,
    UpdateGame, batchVars, countVars, allVars
<1>2. ASSUME cache' \in {cache, stored, NoOffsets}, stored' \in {cache, stored, NoOffsets}
      PROVE  CacheInv'
  BY <1>1, <1>2 DEF FoundIn, Entries, NoOffsets
<1>3. CASE Searched
  <2>1. seen' = seen /\ stored' = stored /\ cache' = Noted
    BY <1>3 DEF Searched, countVars
  <2>2. ASSUME NEW e \in Entries, NEW n \in Sizes, Noted[e][n] # -1, Noted[e][n] # cache[e][n]
        PROVE  \E t \in seen : DOMAIN t = 0..n - 1 /\ IsFirst(Noted[e][n], patterns[e], t, n)
    <3>1. e = entry /\ n = size /\ Noted[e][n] = result
      BY <2>2 DEF Noted, BatchTypeOK
    <3>2. IsFirst(result, patterns[entry], text, size)
      BY <1>3, <2>2, <3>1, ResultIsFirst DEF Searched
    <3> QED
      BY <3>1, <3>2, SizeTypes DEF BatchTypeOK
  <2>3. FoundIn(Noted)
    BY <2>2 DEF FoundIn
  <2> QED
    BY <1>1, <2>1, <2>3 DEF FoundIn, Entries
<1>4. CASE Start \/ Hit \/ Search \/ RunEnds \/ Save \/ SaveBroken \/ Exit \/ UpdateGame
  BY <1>2, <1>4 DEF Start, Hit, Search, RunEnds, Save, SaveBroken, Exit, UpdateGame, cacheVars
<1>5. CASE SearchOn \/ UNCHANGED allVars
  BY <1>2, <1>5 DEF SearchOn, allVars, batchVars, cacheVars
<1> QED
  BY <1>3, <1>4, <1>5 DEF BatchNext

(* An entry the loop goes past has its pointer, or all_found is cleared.   *)
LEMMA EntryDone ==
  ASSUME BatchInv, NEW p \in Int,
         mod' = "run", mod # "out", entry \in Entries, entry' = entry + 1,
         UNCHANGED <<text, size, seen, patterns>>,
         pointers' = [pointers EXCEPT ![entry] = p],
         allFound' => allFound /\ p # -1,
         SizeTells /\ p # -1 => IsFirst(p, patterns[entry], text, size)
  PROVE  PointerInv'
<1>1. ASSUME NEW e \in Entries, e < entry'
      PROVE  IF pointers'[e] = -1 THEN ~allFound'
                                  ELSE SizeTells => IsFirst(pointers'[e], patterns[e], text, size)
  <2>1. CASE e = entry
    BY <2>1 DEF BatchInv, BatchTypeOK
  <2>2. CASE e # entry
    <3>1. e < entry /\ pointers'[e] = pointers[e]
      BY <1>1, <2>2, EntriesAre DEF BatchInv, BatchTypeOK
    <3> QED
      BY <3>1 DEF BatchInv, PointerInv
  <2> QED
    BY <2>1, <2>2
<1> QED
  BY <1>1 DEF PointerInv, SizeTells, Entries

(* The image stays as it is while the loop runs, so a pointer stays right.*)
LEMMA PointerStep == BatchInv /\ [BatchNext]_allVars => PointerInv'
<1> SUFFICES ASSUME BatchInv, [BatchNext]_allVars PROVE PointerInv'
  OBVIOUS
<1>1. CASE Start
  <2>1. entry' = 1 /\ patterns' = patterns /\ mod' = "run"
    BY <1>1 DEF Start
  <2>2. \A e \in Entries' : ~(e < entry')
    BY <2>1, EntriesAre DEF Entries, BatchInv
  <2> QED
    BY <2>1, <2>2 DEF PointerInv
<1>2. CASE Hit
  <2>1. Cached(entry) \in Int
    BY <1>2 DEF Hit, Cached, BatchInv, BatchTypeOK
  <2>2. SizeTells => IsFirst(Cached(entry), patterns[entry], text, size)
    BY <1>2, CachedIsFirst DEF Hit, BatchInv
  <2> QED
    BY <1>2, <2>1, <2>2, EntryDone DEF Hit, callVars, regionVars, countVars
<1>3. CASE Searched
  <2>1. result \in Int
    BY <1>3, SizeTypes DEF Searched, BatchInv, SearchInv, ScanInv, ScanTypeOK, ScanEnd
  <2>2. result # -1 => IsFirst(result, patterns[entry], text, size)
    BY <1>3, ResultIsFirst DEF Searched, BatchInv
  <2>3. entry \in Entries
    BY <1>3 DEF Searched, BatchInv, SearchInv
  <2> QED
    BY <1>3, <2>1, <2>2, <2>3, EntryDone DEF Searched, regionVars, countVars
<1>4. CASE RunEnds
  BY <1>4 DEF RunEnds, BatchInv, PointerInv, SizeTells, Entries, callVars, regionVars, countVars
<1>5. CASE Search \/ SearchOn
  <2>1. UNCHANGED <<text, size, patterns, entry, allFound, pointers, seen>>
    BY <1>5 DEF Search, SearchOn, Scan, NotWild, WildcardFound, Fill, Filled, Shift, Found,
      NotFound, regionVars, batchVars, countVars
  <2>2. mod # "out" /\ mod' \notin {"found", "in"}
    BY <1>5 DEF Search, SearchOn, batchVars
  <2> QED
    BY <2>1, <2>2 DEF BatchInv, PointerInv, SizeTells, Entries
<1>6. CASE Save
  BY <1>6 DEF Save, BatchInv, PointerInv, SizeTells, Entries, callVars, regionVars, countVars
<1>7. CASE SaveBroken \/ Exit \/ UpdateGame
  BY <1>7 DEF SaveBroken, Exit, UpdateGame, PointerInv
<1>8. CASE UNCHANGED allVars
  BY <1>8 DEF allVars, callVars, regionVars, batchVars, countVars, BatchInv, PointerInv, SizeTells,
              Entries
<1> QED
  BY <1>1, <1>2, <1>3, <1>4, <1>5, <1>6, <1>7, <1>8 DEF BatchNext

(* The invariant of the batch holds over any number of starts and updates. *)
THEOREM BatchInvariance == BatchSpec => []BatchInv
<1>1. BatchInv /\ [BatchNext]_allVars => BatchInv'
  BY BatchTypeStep, SearchStep, CacheStep, PointerStep DEF BatchInv
<1> QED
  BY <1>1, BatchBegins, PTL DEF BatchSpec

(* Each search of a batch returns the first occurrence as well.            *)
THEOREM BatchFindsFirst == BatchSpec => []FindsFirst
<1>1. BatchInv => FindsFirst
  BY DEF BatchInv, SearchInv, ScanInv, FindsFirst
<1> QED
  BY <1>1, BatchInvariance, PTL

(* Whatever was searched, cached, saved, lost or updated before, the       *)
(* pointers the mod goes on with are right as long as the size tells the   *)
(* game's images apart.                                                    *)
THEOREM GoesOnWithRightPointers == BatchSpec => []PointersAreRight
<1>1. ASSUME BatchInv PROVE PointersAreRight
  <2> SUFFICES ASSUME mod \in {"found", "in"}, SizeTells, NEW e \in Entries
               PROVE  pointers[e] # -1 /\ pointers[e] = FirstIn(patterns[e])
    BY DEF PointersAreRight
  <2> USE <1>1 DEF BatchInv
  <2>1. e < entry
    BY EntriesAre DEF PointerInv, BatchTypeOK
  <2>2. pointers[e] # -1 /\ IsFirst(pointers[e], patterns[e], text, size)
    BY <2>1 DEF PointerInv
  <2>3. Length(patterns[e]) \in Nat /\ size \in Nat /\ pointers[e] \in Int
    BY PatternTypes, SizeTypes DEF BatchTypeOK
  <2> QED
    BY <2>2, <2>3, FirstIsOne
<1> QED
  BY <1>1, BatchInvariance, PTL

-----------------------------------------------------------------------------
(* The settings.                                                           *)

(* The types, but for the one flag.                                        *)
SettingsTypes ==
  /\ file \in {Absent, Broken} \cup {Whole(f) : f \in Texts}
  /\ mem \in [Keys -> Values]
  /\ options \in Texts
  /\ at \in [Threads -> {"off", "failed", "idle", "read", "assign", "remake", "rewrite", "save",
                       "write"}]
  /\ at["menu"] \notin {"off", "failed"}
  /\ output \in [Threads -> Texts]
  /\ phase \in {"starting", "running", "stopping"}
  /\ changes \in 0..MaxChanges /\ failures \in 0..MaxFailures /\ ends \in 0..MaxEnds
  /\ last \in [Keys -> Values \cup {Wrong}]
  /\ edited \subseteq Keys

Main == at["main"]
Menu == at["menu"]

(* Where the threads and the file may be, mishaps or not.                  *)
Places ==
  /\ Main = "off" \/ phase = "starting" => Menu = "idle"
  /\ phase # "starting" => Main \in {"off", "idle", "save", "write"}
  /\ Main = "failed" => upset
  /\ file = Broken => upset \/ \E t \in Threads : at[t] \in {"write", "rewrite"}
  /\ file = Absent => edited = {} /\ (upset \/ Main \in {"off", "read", "remake"})
  /\ \A f \in file.json : edited \subseteq DOMAIN f

(* But for what was edited, the file holds the options.                    *)
Agrees == \E f \in file.json :
  /\ DOMAIN f \cup edited = DOMAIN options \cup edited
  /\ \A k \in DOMAIN f \ edited : f[k] = options[k]

(* Until the main thread has read the file, the settings are in it, or are *)
(* the defaults where it lacks them.                                       *)
Loading ==
  /\ Main \in {"off", "read", "remake", "rewrite"} =>
       \A k \in Keys \ edited :
          /\ \A f \in file.json : k \in DOMAIN f => last[k] = f[k]
          /\ (\A f \in file.json : k \notin DOMAIN f) => last[k] = Defaults[k]
  /\ Main \in {"read", "remake", "rewrite"} => mem = Defaults
  /\ Main \in {"remake", "rewrite"} => edited = {} /\ file.json = {}
  /\ Main = "rewrite" => file = Broken /\ output["main"] = mem

(* What is being saved are the options.                                    *)
Saving ==
  /\ Main = "write" => output["main"] = options
  /\ Main = "write" /\ Menu = "idle" => file = Broken
  /\ Main \in {"save", "write"} => DOMAIN options = Keys /\ Menu \notin {"assign", "save", "write"}
  /\ Menu \in {"save", "write"} => options = mem
  /\ Menu = "write" => file = Broken /\ output["menu"] = options
  /\ Main = "idle" /\ Menu = "idle" => Agrees /\ DOMAIN options = Keys
  /\ Main = "assign" \/ Menu = "assign" => Agrees

(* What was last given is in the settings, or about to be.                 *)
Given ==
  /\ Main \in {"idle", "save", "write"} /\ Menu # "assign" => mem = last
  /\ Main = "assign" \/ Menu = "assign" => last = Completed

InOrder == ~upset => Loading /\ Saving /\ Given

SettingsInv == SettingsTypes /\ upset \in BOOLEAN /\ Places /\ InOrder

-----------------------------------------------------------------------------
(* A file is not there, or broken, or holds one text.                      *)
LEMMA FileFacts ==
  /\ Absent.json = {} /\ Broken.json = {} /\ Absent # Broken
  /\ \A f : Whole(f).json = {f} /\ Whole(f) # Broken /\ Whole(f) # Absent
  /\ \A f, g : Whole(f) = Whole(g) => f = g
<1>1. Absent.json = {} /\ Broken.json = {} /\ Absent # Broken
  BY DEF Absent, Broken
<1>2. \A f : Whole(f).json = {f}
  BY DEF Whole
<1>3. \A f : Whole(f) # Broken /\ Whole(f) # Absent
  <2> TAKE f
  <2>1. f \in Whole(f).json
    BY <1>2
  <2> QED
    BY <1>1, <2>1
<1>4. \A f, g : Whole(f) = Whole(g) => f = g
  <2> TAKE f, g
  <2> SUFFICES ASSUME Whole(f) = Whole(g) PROVE f = g
    OBVIOUS
  <2>1. {f} = {g}
    BY <1>2
  <2> QED
    BY <2>1
<1> QED
  BY <1>1, <1>2, <1>3, <1>4

(* What a text is.                                                         *)
LEMMA TextIs ==
  ASSUME NEW f \in Texts
  PROVE  /\ DOMAIN f \subseteq Keys
         /\ f \in [DOMAIN f -> Values \cup {Wrong}]
         /\ \A k \in DOMAIN f : f[k] \in Values \cup {Wrong}
BY DEF Texts

(* What is written to a file, and settings, are texts.                     *)
LEMMA IsText ==
  ASSUME NEW S \in SUBSET Keys, NEW f \in [S -> Values \cup {Wrong}]
  PROVE  f \in Texts
BY DEF Texts

LEMMA SettingsAreText == \A g \in [Keys -> Values] : g \in Texts
<1> TAKE g \in [Keys -> Values]
<1>1. g \in [Keys -> Values \cup {Wrong}]
  OBVIOUS
<1> QED
  BY <1>1, IsText

(* One text over another.                                                  *)
LEMMA OverIs ==
  ASSUME NEW f \in Texts, NEW g \in Texts
  PROVE  /\ Over(f, g) \in Texts
         /\ DOMAIN Over(f, g) = DOMAIN f \cup DOMAIN g
         /\ \A k \in DOMAIN f : Over(f, g)[k] = f[k]
         /\ \A k \in DOMAIN g \ DOMAIN f : Over(f, g)[k] = g[k]
<1>1. /\ DOMAIN f \subseteq Keys /\ DOMAIN g \subseteq Keys
      /\ \A k \in DOMAIN f : f[k] \in Values \cup {Wrong}
      /\ \A k \in DOMAIN g : g[k] \in Values \cup {Wrong}
  BY TextIs
<1>2. Over(f, g) \in [DOMAIN f \cup DOMAIN g -> Values \cup {Wrong}]
  BY <1>1 DEF Over
<1>3. Over(f, g) \in Texts
  <2> HIDE DEF Over
  <2>1. DOMAIN f \cup DOMAIN g \in SUBSET Keys
    BY <1>1
  <2> QED
    BY <1>2, <2>1, IsText
<1> QED
  BY <1>3 DEF Over

(* At first the options are the text without a key.                        *)
LEMMA NothingIs == Nothing \in Texts /\ DOMAIN Nothing = {}
<1>1. Nothing \in [{} -> Values \cup {Wrong}] /\ DOMAIN Nothing = {}
  BY DEF Nothing
<1> QED
  BY <1>1, IsText

(* The three cases of a file of its type.                                  *)
LEMMA FileIs ==
  ASSUME SettingsTypes
  PROVE  \/ file = Absent \/ file = Broken
         \/ \E f \in Texts : file = Whole(f)
BY DEF SettingsTypes

(* What can be read from the file is its one text.                         *)
LEMMA JsonIs ==
  ASSUME SettingsTypes
  PROVE  /\ \A f \in file.json : f \in Texts /\ file.json = {f} /\ file = Whole(f)
         /\ file.json = {} => file \in {Absent, Broken}
<1>1. CASE file \in {Absent, Broken}
  BY <1>1, FileFacts
<1>2. CASE \E f \in Texts : file = Whole(f)
  <2>1. PICK f \in Texts : file = Whole(f)
    BY <1>2
  <2>2. file.json = {f}
    BY <2>1, FileFacts
  <2> QED
    BY <2>1, <2>2
<1> QED
  BY <1>1, <1>2, FileIs

(* What the file holds over the defaults.                                  *)
LEMMA HeldIs ==
  ASSUME SettingsTypes
  PROVE  /\ Held(Defaults) \in [Keys -> Values \cup {Wrong}]
         /\ \A k \in Keys :
              /\ \A f \in file.json : k \in DOMAIN f => Held(Defaults)[k] = f[k]
              /\ (\A f \in file.json : k \notin DOMAIN f) => Held(Defaults)[k] = Defaults[k]
<1> USE MenuSettingsAssumption
<1>1. CASE file.json = {}
  BY <1>1 DEF Held
<1>2. CASE \E f \in file.json : TRUE
  <2>1. PICK f \in file.json : f \in Texts /\ file.json = {f}
    BY <1>2, JsonIs
  <2>2. (CHOOSE g \in file.json : TRUE) = f
    BY <2>1
  <2>3. Held(Defaults) = [k \in Keys |-> IF k \in DOMAIN f THEN f[k] ELSE Defaults[k]]
    BY <2>1, <2>2 DEF Held
  <2>4. \A k \in DOMAIN f : f[k] \in Values \cup {Wrong}
    BY <2>1, TextIs
  <2> HIDE DEF Held
  <2> QED
    BY <2>1, <2>3, <2>4
<1> QED
  BY <1>1, <1>2

-----------------------------------------------------------------------------
(* What deep_compare makes of the options.                                 *)
LEMMA CompletedIs ==
  ASSUME SettingsTypes
  PROVE  /\ Completed \in Texts
         /\ DOMAIN Completed = Keys
         /\ \A k \in DOMAIN options : Completed[k] = options[k]
         /\ \A k \in Keys \ DOMAIN options : Completed[k] = mem[k]
         /\ Mistyped = {} => Completed \in [Keys -> Values]
         /\ \A k \in Keys \ Mistyped : Completed[k] \in Values
<1>1. /\ options \in Texts /\ mem \in Texts /\ DOMAIN mem = Keys
      /\ \A k \in Keys : mem[k] \in Values
  BY SettingsAreText DEF SettingsTypes
<1>2. /\ Completed \in Texts /\ DOMAIN Completed = DOMAIN options \cup Keys
      /\ \A k \in DOMAIN options : Completed[k] = options[k]
      /\ \A k \in Keys \ DOMAIN options : Completed[k] = mem[k]
  BY <1>1, OverIs DEF Completed
<1>3. DOMAIN options \subseteq Keys /\ \A k \in DOMAIN options : options[k] \in Values \cup {Wrong}
  BY <1>1, TextIs
<1>4. DOMAIN Completed = Keys
  BY <1>2, <1>3
<1>5. \A k \in Keys \ Mistyped : Completed[k] \in Values
  BY <1>1, <1>2, <1>3 DEF Mistyped
<1>6. Completed = [k \in Keys |-> Completed[k]]
  BY <1>2, <1>4 DEF Completed, Over
<1>7. ASSUME Mistyped = {} PROVE Completed \in [Keys -> Values]
  <2> DEFINE c == Completed
  <2>1. c = [k \in Keys |-> c[k]] /\ \A k \in Keys : c[k] \in Values
    BY <1>5, <1>6, <1>7
  <2> HIDE DEF c
  <2>2. c \in [Keys -> Values]
    BY <2>1
  <2> QED
    BY <2>2 DEF c
<1> QED
  BY <1>2, <1>4, <1>5, <1>7

(* The steps of load and save keep the types.                              *)
LEMMA ThreadTypes ==
  ASSUME SettingsTypes, Places, NEW t \in Threads, Thread(t)
  PROVE  SettingsTypes'
<1> USE MenuSettingsAssumption
    DEF SettingsTypes, fileVars, programVars, boundVars, historyVars, Go, Threads
<1>1. CASE Read(t)
  <2>1. CASE file.json = {} /\ Go(t, "remake") /\ UNCHANGED <<options, historyVars>>
    BY <1>1, <2>1 DEF Read
  <2>2. CASE options' \in file.json
    <3>1. /\ options' \in Texts /\ Go(t, "assign") /\ edited' = {}
          /\ UNCHANGED <<fileVars, mem, phase, boundVars>>
          /\ last' = [k \in Keys |-> IF k \in edited \cup (IF t = "menu" THEN DOMAIN options' ELSE {})
                                    THEN options'[k] ELSE last[k]]
          /\ edited \subseteq DOMAIN options'
      BY <1>1, <2>2, JsonIs DEF Read, Places
    <3>2. \A k \in DOMAIN options' : options'[k] \in Values \cup {Wrong}
      BY <3>1, TextIs
    <3>3. last' \in [Keys -> Values \cup {Wrong}]
      BY <3>1, <3>2
    <3> QED
      BY <3>1, <3>3
  <2> QED
    BY <1>1, <2>1, <2>2 DEF Read
<1>2. CASE Assign(t)
  <2>1. /\ options' = Completed
        /\ UNCHANGED <<fileVars, phase, boundVars, last, edited>>
    BY <1>2 DEF Assign
  <2>2. CASE Mistyped = {} /\ mem' = Completed /\ Go(t, IF DOMAIN options = Keys THEN "idle" ELSE "save")
    BY <2>1, <2>2, CompletedIs
  <2>3. CASE /\ \E S \in SUBSET (Keys \ Mistyped) :
                  mem' = [k \in Keys |-> IF k \in S THEN Completed[k] ELSE mem[k]]
             /\ Go(t, IF t = "main" THEN "failed" ELSE "idle")
    <3>1. PICK S \in SUBSET (Keys \ Mistyped) :
            mem' = [k \in Keys |-> IF k \in S THEN Completed[k] ELSE mem[k]]
      BY <2>3
    <3>2. mem' \in [Keys -> Values]
      BY <3>1, CompletedIs
    <3>3. Completed \in Texts
      BY CompletedIs
    <3> QED
      BY <2>1, <2>3, <3>2, <3>3
  <2> QED
    BY <1>2, <2>2, <2>3 DEF Assign
<1>3. CASE OpenFile(t)
  BY <1>3, SettingsAreText DEF OpenFile
<1>4. CASE WriteFile(t)
  BY <1>4, NothingIs DEF WriteFile
<1> QED
  BY <1>1, <1>2, <1>3, <1>4 DEF Thread

(* So do the others.                                                       *)
LEMMA OthersTypes ==
  ASSUME SettingsTypes,
         \/ AttemptSave \/ StartMod \/ Enable \/ Stop \/ Leave \/ GameEnds \/ Reload
         \/ \E k \in Keys, v \in Values : Change(k, v)
         \/ \E k \in Keys, v \in Values \cup {Wrong} : Edit(k, v)
  PROVE  SettingsTypes'
<1> USE MenuSettingsAssumption
    DEF SettingsTypes, fileVars, programVars, boundVars, historyVars, Go, Threads
<1>1. CASE AttemptSave \/ StartMod
  BY <1>1, SettingsAreText, NothingIs DEF AttemptSave, StartMod
<1>2. CASE Enable \/ Stop \/ Leave \/ Reload
  BY <1>2 DEF Enable, Stop, Leave, Reload, MenuRuns
<1>3. CASE GameEnds
  <2> HIDE DEF SettingsTypes
  <2>1. Held(Defaults) \in [Keys -> Values \cup {Wrong}]
    BY HeldIs
  <2> QED
    BY <1>3, <2>1, NothingIs DEF GameEnds, SettingsTypes
<1>4. CASE \E k \in Keys, v \in Values : Change(k, v)
  BY <1>4 DEF Change
<1>5. CASE \E k \in Keys, v \in Values \cup {Wrong} : Edit(k, v)
  <2>1. PICK k \in Keys, v \in Values \cup {Wrong} : Edit(k, v)
    BY <1>5
  <2>2. PICK f \in file.json : file' = Whole(Over([key \in {k} |-> v], f))
    BY <2>1 DEF Edit
  <2>3. f \in Texts /\ [key \in {k} |-> v] \in Texts
    <3>1. [key \in {k} |-> v] \in [{k} -> Values \cup {Wrong}]
      OBVIOUS
    <3> QED
      BY <3>1, IsText, JsonIs
  <2>4. Over([key \in {k} |-> v], f) \in Texts
    BY <2>3, OverIs
  <2>5. file' \in {Whole(g) : g \in Texts}
    BY <2>2, <2>4
  <2> QED
    BY <2>1, <2>5 DEF Edit
<1> QED
  BY <1>1, <1>2, <1>3, <1>4, <1>5

(* A mishap stays one.                                                     *)
LEMMA MishapStays ==
  ASSUME upset \in BOOLEAN, [Next]_vars
  PROVE  upset' \in BOOLEAN /\ (upset => upset')
<1> USE DEF fileVars, programVars, boundVars, historyVars
<1>1. ASSUME NEW t \in Threads, Thread(t) PROVE upset' \in BOOLEAN /\ (upset => upset')
  BY <1>1, Zenon DEF Thread, Read, Assign, OpenFile, WriteFile
<1>2. CASE AttemptSave \/ StartMod \/ Enable \/ Stop \/ Leave \/ GameEnds \/ Reload
  BY <1>2, Zenon DEF AttemptSave, StartMod, Enable, Stop, Leave, GameEnds, Reload
<1>3. CASE \E k \in Keys, v \in Values : Change(k, v)
  <2>1. upset' = upset
    BY <1>3 DEF Change
  <2> QED
    BY <2>1, Zenon
<1>4. CASE \E k \in Keys, v \in Values \cup {Wrong} : Edit(k, v)
  <2>1. upset' = upset
    BY <1>4 DEF Edit
  <2> QED
    BY <2>1, Zenon
<1>5. CASE UNCHANGED vars
  BY <1>5, Zenon DEF vars
<1> QED
  BY <1>1, <1>2, <1>3, <1>4, <1>5 DEF Next

-----------------------------------------------------------------------------
(* Over the settings, a text gives settings.                               *)
LEMMA OverSettings ==
  ASSUME NEW f \in Texts, NEW g \in [Keys -> Values], NEW h \in [Keys -> Values \cup {Wrong}],
         \A k \in Keys : h[k] = IF k \in DOMAIN f THEN f[k] ELSE g[k]
  PROVE  h = Over(f, g)
<1>1. DOMAIN f \subseteq Keys /\ DOMAIN h = Keys /\ DOMAIN g = Keys
  BY TextIs
<1>2. DOMAIN f \cup DOMAIN g = Keys
  BY <1>1
<1>3. Over(f, g) = [k \in Keys |-> IF k \in DOMAIN f THEN f[k] ELSE g[k]]
  BY <1>2 DEF Over
<1>4. h = [k \in Keys |-> h[k]]
  BY <1>1
<1> QED
  BY <1>3, <1>4

(* Reading a file: with nothing to read it is made, and what it holds      *)
(* counts as given where it was edited, for a reload in all it holds.      *)
LEMMA ReadStep ==
  ASSUME SettingsInv, NEW t \in Threads, Read(t)
  PROVE  Places' /\ InOrder'
<1>1. SettingsTypes /\ Places /\ InOrder
  BY DEF SettingsInv
<1> USE MenuSettingsAssumption
    DEF Threads, fileVars, programVars, boundVars, historyVars, Go, Main, Menu
<1>2. CASE file.json = {} /\ Go(t, "remake") /\ UNCHANGED <<options, historyVars>>
  <2>1. /\ at[t] = "read" /\ at' = [at EXCEPT ![t] = "remake"]
        /\ UNCHANGED <<file, output, mem, phase, options, last, edited, upset>>
    BY <1>2 DEF Read
  <2>2. file \in {Absent, Broken}
    BY <1>1, <1>2, JsonIs
  <2>3. Places'
    BY <1>1, <1>2, <2>1, <2>2 DEF Places, SettingsTypes
  <2>4. ASSUME ~upset PROVE Loading' /\ Saving' /\ Given'
    <3>1. Loading /\ Saving /\ Given
      BY <1>1, <2>4 DEF InOrder
    <3>2. Loading'
      BY <1>1, <1>2, <2>1, <2>2, <2>4, <3>1 DEF Places, SettingsTypes, Loading
    <3>3. Saving' /\ Given'
      BY <1>1, <1>2, <2>1, <2>2, <2>4, <3>1 DEF Places, SettingsTypes, Saving, Given, Agrees, Completed
    <3> QED
      BY <3>2, <3>3
  <2> QED
    BY <2>1, <2>3, <2>4 DEF InOrder
<1>3. CASE options' \in file.json
  <2>1. /\ at[t] = "read" /\ at' = [at EXCEPT ![t] = "assign"] /\ edited' = {}
        /\ last' = [k \in Keys |-> IF k \in edited \cup (IF t = "menu" THEN DOMAIN options' ELSE {})
                                   THEN options'[k] ELSE last[k]]
        /\ UNCHANGED <<file, output, mem, phase>>
    BY <1>3, FileFacts DEF Read
  <2>2. (upset => upset') /\ (~upset' => ~Writing(Other(t)))
    <3>1. upset' = (upset \/ Writing(Other(t)))
      BY <1>3 DEF Read
    <3> QED
      BY <3>1, Zenon
  <2>3. /\ options' \in Texts /\ file.json = {options'} /\ file = Whole(options')
        /\ edited \subseteq DOMAIN options'
    BY <1>1, <1>3, JsonIs DEF Places
  <2>4. Places'
    BY <1>1, <2>1, <2>2, <2>3, FileFacts DEF Places, SettingsTypes
  <2>5. ASSUME ~upset' PROVE Loading' /\ Saving' /\ Given'
    <3>1. Loading /\ Saving /\ Given /\ ~upset
      BY <1>1, <2>2, <2>5 DEF InOrder
    <3>2. Loading'
      BY <1>1, <2>1, <2>3, <2>4, <3>1 DEF Places, SettingsTypes, Loading
    <3>3. t = "menu" => Main = "idle"
      BY <1>1, <2>1, <2>2, <2>5 DEF Places, SettingsTypes, Writing, Other
    <3>4. Agrees'
      BY <2>1, <2>3 DEF Agrees
    <3>5. Saving'
      BY <1>1, <2>1, <2>4, <3>1, <3>3, <3>4 DEF Places, SettingsTypes, Saving
    <3>6. \A k \in Keys : last'[k] = IF k \in DOMAIN options' THEN options'[k] ELSE mem[k]
      <4>1. CASE t = "menu"
        BY <1>1, <2>1, <2>3, <3>1, <3>3, <4>1 DEF SettingsTypes, Given
      <4>2. CASE t = "main"
        <5>1. mem = Defaults /\ \A k \in Keys \ edited :
                 IF k \in DOMAIN options' THEN last[k] = options'[k] ELSE last[k] = Defaults[k]
          BY <1>1, <2>1, <2>3, <3>1, <4>2 DEF Loading, SettingsTypes
        <5> QED
          BY <2>1, <2>3, <4>2, <5>1
      <4> QED
        BY <4>1, <4>2
    <3>7. last' = Completed'
      <4>1. last' \in [Keys -> Values \cup {Wrong}] /\ mem \in [Keys -> Values]
        <5>1. \A k \in DOMAIN options' : options'[k] \in Values \cup {Wrong}
          BY <2>3, TextIs
        <5> QED
          BY <1>1, <2>1, <2>3, <5>1 DEF SettingsTypes
      <4>2. last' = Over(options', mem)
        BY <2>3, <3>6, <4>1, OverSettings
      <4> QED
        BY <2>1, <4>2 DEF Completed
    <3>8. Given'
      BY <1>1, <2>1, <3>1, <3>3, <3>7, <2>4 DEF Places, SettingsTypes, Given
    <3> QED
      BY <3>2, <3>5, <3>8
  <2> QED
    BY <2>4, <2>5 DEF InOrder
<1> QED
  BY <1>2, <1>3 DEF Read

(* Taking over what was read.                                              *)
LEMMA AssignStep ==
  ASSUME SettingsInv, NEW t \in Threads, Assign(t)
  PROVE  Places' /\ InOrder'
<1>1. SettingsTypes /\ Places /\ InOrder
  BY DEF SettingsInv
<1> USE MenuSettingsAssumption
    DEF Threads, fileVars, programVars, boundVars, historyVars, Go, Main, Menu
<1>2. /\ at[t] = "assign" /\ options' = Completed
      /\ UNCHANGED <<file, output, phase, last, edited>>
  BY DEF Assign
<1>3. CASE /\ Mistyped = {} /\ mem' = Completed /\ UNCHANGED upset
           /\ Go(t, IF DOMAIN options = Keys THEN "idle" ELSE "save")
  <2>1. at' = [at EXCEPT ![t] = IF DOMAIN options = Keys THEN "idle" ELSE "save"]
    BY <1>3
  <2>2. Places'
    BY <1>1, <1>2, <1>3, <2>1 DEF Places, SettingsTypes
  <2>3. ASSUME ~upset PROVE Loading' /\ Saving' /\ Given'
    <3>1. Loading /\ Saving /\ Given
      BY <1>1, <2>3 DEF InOrder
    <3>2. t = "menu" => Main = "idle"
      BY <1>1, <1>2, <3>1 DEF Places, SettingsTypes, Saving
    <3>3. t = "main" => Menu = "idle"
      BY <1>1, <1>2 DEF Places
    <3>4. Loading'
      BY <1>1, <1>2, <2>1, <3>1, <3>2 DEF SettingsTypes, Loading
    <3>5. DOMAIN options' = Keys /\ options' = mem' /\ mem' = last'
      BY <1>1, <1>2, <1>3, <3>1, CompletedIs DEF Given
    <3>6. DOMAIN options = Keys => Agrees'
      <4> SUFFICES ASSUME DOMAIN options = Keys PROVE Agrees'
        OBVIOUS
      <4>1. Agrees
        BY <1>2, <3>1 DEF Saving
      <4>2. \A k \in Keys : options'[k] = options[k]
        BY <1>1, <1>2, CompletedIs
      <4>3. \A f \in file.json : DOMAIN f \subseteq Keys
        BY <1>1, JsonIs, TextIs
      <4> QED
        BY <1>2, <3>5, <4>1, <4>2, <4>3 DEF Agrees
    <3>7. Saving'
      BY <1>1, <1>2, <2>1, <3>1, <3>2, <3>3, <3>5, <3>6 DEF SettingsTypes, Saving
    <3>8. Given'
      BY <1>1, <1>2, <2>1, <3>1, <3>2, <3>3, <3>5 DEF SettingsTypes, Given
    <3> QED
      BY <3>4, <3>7, <3>8
  <2> QED
    BY <1>3, <2>2, <2>3 DEF InOrder
<1>4. CASE upset' = TRUE /\ Go(t, IF t = "main" THEN "failed" ELSE "idle")
  <2>1. at' = [at EXCEPT ![t] = IF t = "main" THEN "failed" ELSE "idle"]
    BY <1>4
  <2>2. Places'
    BY <1>1, <1>2, <1>4, <2>1 DEF Places, SettingsTypes
  <2> QED
    BY <1>4, <2>2 DEF InOrder
<1> QED
  BY <1>3, <1>4 DEF Assign

(* Opening the file: a save that was not overtaken writes the options.     *)
LEMMA OpenStep ==
  ASSUME SettingsInv, NEW t \in Threads, OpenFile(t)
  PROVE  Places' /\ InOrder'
<1>1. SettingsTypes /\ Places /\ InOrder
  BY DEF SettingsInv
<1> USE MenuSettingsAssumption
    DEF Threads, fileVars, programVars, boundVars, historyVars, Go, Main, Menu
<1>2. /\ at[t] \in {"save", "remake"}
      /\ UNCHANGED <<mem, options, phase, last, edited>>
  BY DEF OpenFile
<1>3. CASE /\ file' = Broken
           /\ output' = [output EXCEPT ![t] = mem]
           /\ Go(t, IF at[t] = "save" THEN "write" ELSE "rewrite")
           /\ upset' = (upset \/ (at[t] = "save" /\ mem # options))
  <2>1. at' = [at EXCEPT ![t] = IF at[t] = "save" THEN "write" ELSE "rewrite"]
    BY <1>3
  <2>2. (upset => upset') /\ (~upset' /\ at[t] = "save" => mem = options)
    <3>1. upset' = (upset \/ (at[t] = "save" /\ mem # options))
      BY <1>3
    <3> QED
      BY <3>1, Zenon
  <2>3. file' = Broken /\ file'.json = {} /\ Broken # Absent
    BY <1>3, FileFacts
  <2>4. Places'
    BY <1>1, <1>2, <2>1, <2>2, <2>3 DEF Places, SettingsTypes
  <2>5. ASSUME ~upset' PROVE Loading' /\ Saving' /\ Given'
    <3>1. Loading /\ Saving /\ Given /\ ~upset
      BY <1>1, <2>2, <2>5 DEF InOrder
    <3>2. t = "main" /\ at[t] = "remake" => Menu = "idle"
      BY <1>1, <1>2 DEF Places
    <3>3. t = "menu" => Main \in {"idle", "save", "write"}
      BY <1>1, <1>2 DEF Places, SettingsTypes
    <3>4. t = "menu" /\ at[t] = "save" => Main = "idle"
      BY <1>2, <3>1, <3>3 DEF Saving
    <3>5. Loading'
      BY <1>1, <1>2, <1>3, <2>1, <2>3, <3>1, <3>3 DEF SettingsTypes, Loading
    <3>6. Saving'
      BY <1>1, <1>2, <1>3, <2>1, <2>2, <2>3, <2>5, <3>1, <3>2, <3>3, <3>4 DEF SettingsTypes, Saving
    <3>7. Given'
      BY <1>1, <1>2, <2>1, <3>1, <3>3 DEF SettingsTypes, Given, Completed
    <3> QED
      BY <3>5, <3>6, <3>7
  <2> QED
    BY <2>4, <2>5 DEF InOrder
<1>4. CASE upset' = TRUE /\ UNCHANGED fileVars /\ Go(t, IF at[t] = "save" THEN "idle" ELSE "read")
  <2>1. at' = [at EXCEPT ![t] = IF at[t] = "save" THEN "idle" ELSE "read"]
    BY <1>4
  <2>2. Places'
    BY <1>1, <1>2, <1>4, <2>1 DEF Places, SettingsTypes
  <2> QED
    BY <1>4, <2>2 DEF InOrder
<1> QED
  BY <1>3, <1>4 DEF OpenFile

(* Writing it: what is in it is what was to be saved.                      *)
LEMMA WriteStep ==
  ASSUME SettingsInv, NEW t \in Threads, WriteFile(t)
  PROVE  Places' /\ InOrder'
<1>1. SettingsTypes /\ Places /\ InOrder
  BY DEF SettingsInv
<1> USE MenuSettingsAssumption
    DEF Threads, fileVars, programVars, boundVars, historyVars, Go, Main, Menu
<1>2. /\ at[t] \in {"write", "rewrite"} /\ edited' = {}
      /\ at' = [at EXCEPT ![t] = IF at[t] = "write" THEN "idle" ELSE "read"]
      /\ output' = [output EXCEPT ![t] = Nothing]
      /\ UNCHANGED <<mem, options, phase, last>>
  BY DEF WriteFile
<1>3. CASE file' = Whole(output[t]) /\ UNCHANGED upset
  <2>1. file'.json = {output[t]} /\ file' # Broken /\ file' # Absent
    BY <1>3, FileFacts
  <2>2. Places'
    BY <1>1, <1>2, <1>3, <2>1 DEF Places, SettingsTypes
  <2>3. ASSUME ~upset PROVE Loading' /\ Saving' /\ Given'
    <3>1. Loading /\ Saving /\ Given
      BY <1>1, <2>3 DEF InOrder
    <3>2. t = "main" /\ at[t] = "rewrite" => Menu = "idle"
      BY <1>1, <1>2 DEF Places
    <3>3. t = "menu" => Main \in {"idle", "save", "write"}
      BY <1>1, <1>2 DEF Places, SettingsTypes
    <3>4. t = "menu" /\ at[t] = "write" => Main = "idle"
      BY <3>1, <3>3 DEF Saving
    <3>5. Loading'
      <4>1. CASE t = "main" /\ at[t] = "rewrite"
        <5>1. output[t] = Defaults /\ mem = Defaults
          BY <3>1, <4>1 DEF Loading
        <5>2. \A k \in Keys : last[k] = Defaults[k]
          BY <3>1, <4>1 DEF Loading
        <5> QED
          BY <1>1, <1>2, <2>1, <3>1, <4>1, <5>1, <5>2 DEF SettingsTypes, Loading
      <4>2. CASE ~(t = "main" /\ at[t] = "rewrite")
        BY <1>1, <1>2, <3>1, <3>3, <4>2 DEF SettingsTypes, Loading
      <4> QED
        BY <4>1, <4>2
    <3>6. at[t] = "write" => output[t] = options /\ DOMAIN options = Keys
      BY <1>1, <3>1 DEF Saving, SettingsTypes
    <3>7. at[t] = "write" => Agrees'
      BY <1>2, <2>1, <3>6 DEF Agrees
    <3>8. Saving'
      BY <1>1, <1>2, <2>1, <3>1, <3>2, <3>3, <3>4, <3>6, <3>7 DEF SettingsTypes, Saving
    <3>9. Given'
      BY <1>1, <1>2, <3>1, <3>3 DEF SettingsTypes, Given, Completed, Saving
    <3> QED
      BY <3>5, <3>8, <3>9
  <2> QED
    BY <1>3, <2>2, <2>3 DEF InOrder
<1>4. CASE file' \in {Whole(output[t]), Broken} /\ upset' = TRUE
  <2>1. file' # Absent
    BY <1>4, FileFacts
  <2>2. Places'
    BY <1>1, <1>2, <1>4, <2>1 DEF Places, SettingsTypes
  <2> QED
    BY <1>4, <2>2 DEF InOrder
<1> QED
  BY <1>3, <1>4 DEF WriteFile

(* The main thread: a comparison, a start, and the ends.                   *)
LEMMA AttemptStep ==
  ASSUME SettingsInv, AttemptSave
  PROVE  Places' /\ InOrder'
<1>1. SettingsTypes /\ Places /\ InOrder
  BY DEF SettingsInv
<1> USE MenuSettingsAssumption
    DEF Threads, fileVars, programVars, boundVars, historyVars, Go, Main, Menu
<1>2. /\ Main = "idle" /\ phase # "starting" /\ options # mem /\ options' = mem
      /\ at' = [at EXCEPT !["main"] = "save"]
      /\ UNCHANGED <<file, output, mem, phase, last, edited>>
  BY DEF AttemptSave, Differs
<1>3. (upset => upset') /\ (~upset' => Menu # "assign")
  <2>1. upset' = (upset \/ at["menu"] = "assign")
    BY DEF AttemptSave
  <2> QED
    BY <2>1, Zenon
<1>4. Places'
  BY <1>1, <1>2, <1>3 DEF Places, SettingsTypes
<1>5. ASSUME ~upset' PROVE Loading' /\ Saving' /\ Given'
  <2>1. Loading /\ Saving /\ Given /\ Menu # "assign"
    BY <1>1, <1>3, <1>5 DEF InOrder
  <2>2. Loading' /\ Given'
    BY <1>1, <1>2, <2>1 DEF SettingsTypes, Loading, Given
  <2>3. Saving'
    BY <1>1, <1>2, <2>1 DEF SettingsTypes, Saving
  <2> QED
    BY <2>2, <2>3
<1> QED
  BY <1>4, <1>5 DEF InOrder

(* StartMod: the settings are the defaults until the file is read.         *)
LEMMA StartStep ==
  ASSUME SettingsInv, StartMod
  PROVE  Places' /\ InOrder'
<1>1. SettingsTypes /\ Places /\ InOrder
  BY DEF SettingsInv
<1> USE MenuSettingsAssumption
    DEF Threads, fileVars, programVars, boundVars, historyVars, Go, Main, Menu
<1>2. /\ Main = "off" /\ mem' = Defaults /\ options' = Nothing /\ phase' = "starting"
      /\ at' = [at EXCEPT !["main"] = "read"]
      /\ UNCHANGED <<file, output, last, edited, upset>>
  BY DEF StartMod
<1>3. Places'
  BY <1>1, <1>2 DEF Places, SettingsTypes
<1>4. ASSUME ~upset PROVE Loading' /\ Saving' /\ Given'
  <2>1. Loading /\ Saving /\ Given /\ Menu = "idle"
    BY <1>1, <1>2, <1>4 DEF InOrder, Places
  <2>2. Loading'
    BY <1>1, <1>2, <2>1 DEF SettingsTypes, Loading
  <2>3. Saving' /\ Given'
    BY <1>1, <1>2, <2>1 DEF SettingsTypes, Saving, Given
  <2> QED
    BY <2>2, <2>3
<1> QED
  BY <1>2, <1>3, <1>4 DEF InOrder

(* Enable, Stop, Reload: nothing is under way, so nothing is left behind.  *)
LEMMA PhaseStep ==
  ASSUME SettingsInv, Enable \/ Stop \/ Reload
  PROVE  Places' /\ InOrder'
<1>1. SettingsTypes /\ Places /\ InOrder
  BY DEF SettingsInv
<1> USE MenuSettingsAssumption
    DEF Threads, fileVars, programVars, boundVars, historyVars, Go, Main, Menu
<1>2. CASE Enable \/ Stop
  <2>1. /\ (phase = "starting" /\ Main = "idle") \/ phase = "running"
        /\ phase' \in {"running", "stopping"}
        /\ UNCHANGED <<file, output, mem, options, at, last, edited, upset>>
    BY <1>2 DEF Enable, Stop
  <2>2. Places'
    BY <1>1, <2>1 DEF Places, SettingsTypes
  <2>3. InOrder'
    BY <1>1, <2>1 DEF InOrder, Loading, Saving, Given, Agrees, Completed
  <2> QED
    BY <2>2, <2>3
<1>3. CASE Reload
  <2>1. /\ Main # "off" /\ phase = "running" /\ Menu = "idle"
        /\ at' = [at EXCEPT !["menu"] = "read"]
        /\ UNCHANGED <<file, output, mem, options, phase, last, edited, upset>>
    BY <1>3 DEF Reload, MenuRuns
  <2>2. Places'
    BY <1>1, <2>1 DEF Places, SettingsTypes
  <2>3. ASSUME ~upset PROVE Loading' /\ Saving' /\ Given'
    <3>1. Loading /\ Saving /\ Given /\ Main \in {"idle", "save", "write"}
      BY <1>1, <2>1, <2>3 DEF InOrder, Places
    <3> QED
      BY <1>1, <2>1, <3>1 DEF SettingsTypes, Loading, Saving, Given
  <2> QED
    BY <2>1, <2>2, <2>3 DEF InOrder
<1> QED
  BY <1>2, <1>3

(* The last save found nothing left, so that the file has it all.          *)
LEMMA LeaveStep ==
  ASSUME SettingsInv, Leave
  PROVE  Places' /\ InOrder'
<1>1. SettingsTypes /\ Places /\ InOrder
  BY DEF SettingsInv
<1> USE MenuSettingsAssumption
    DEF Threads, fileVars, programVars, boundVars, historyVars, Go, Main, Menu
<1>2. /\ Main = "idle" /\ Menu = "idle" /\ phase = "stopping" /\ options = mem
      /\ at' = [at EXCEPT !["main"] = "off"]
      /\ UNCHANGED <<file, output, mem, options, phase, last, edited, upset>>
  BY DEF Leave, LastSave, Differs
<1>3. Places'
  BY <1>1, <1>2 DEF Places, SettingsTypes
<1>4. ASSUME ~upset PROVE Loading' /\ Saving' /\ Given'
  <2>1. Saving /\ Given
    BY <1>1, <1>4 DEF InOrder
  <2>2. mem = last /\ DOMAIN options = Keys /\ Agrees
    BY <1>2, <2>1 DEF Saving, Given
  <2>3. PICK f \in file.json : /\ DOMAIN f \cup edited = Keys \cup edited
                               /\ \A k \in DOMAIN f \ edited : f[k] = options[k]
    BY <2>2 DEF Agrees
  <2>4. file.json = {f}
    BY <1>1, <2>3, JsonIs
  <2>5. \A k \in Keys \ edited : k \in DOMAIN f /\ f[k] = last[k]
    BY <1>2, <2>2, <2>3
  <2>6. Loading'
    BY <1>1, <1>2, <2>4, <2>5 DEF SettingsTypes, Loading
  <2>7. Saving' /\ Given'
    BY <1>1, <1>2, <2>1 DEF SettingsTypes, Saving, Given
  <2> QED
    BY <2>6, <2>7
<1> QED
  BY <1>2, <1>3, <1>4 DEF InOrder

(* GameEnds: what is in the file is what counts, unless it was just        *)
(* emptied.                                                                *)
LEMMA GameEndsStep ==
  ASSUME SettingsInv, GameEnds
  PROVE  Places' /\ InOrder'
<1>1. SettingsTypes /\ Places /\ InOrder
  BY DEF SettingsInv
<1> USE MenuSettingsAssumption
    DEF Threads, fileVars, programVars, boundVars, historyVars, Main, Menu
<1>2. /\ at' = [t \in Threads |-> IF t = "main" THEN "off" ELSE "idle"]
      /\ last' = Held(Defaults)
      /\ UNCHANGED <<file, mem, options, phase, edited>>
  BY DEF GameEnds
<1>3. (upset => upset') /\ (file = Broken => upset')
  <2>1. upset' = (upset \/ file = Broken)
    BY DEF GameEnds
  <2> QED
    BY <2>1, Zenon
<1>4. Main' = "off" /\ Menu' = "idle"
  BY <1>2
<1>5. Places'
  BY <1>1, <1>2, <1>3, <1>4 DEF Places
<1>6. Loading'
  BY <1>1, <1>2, <1>4, HeldIs DEF Loading
<1>7. Saving' /\ Given'
  BY <1>4 DEF Saving, Given
<1> QED
  BY <1>5, <1>6, <1>7 DEF InOrder

(* The menu changes a setting, somebody the file.                          *)
LEMMA ChangeStep ==
  ASSUME SettingsInv, NEW k \in Keys, NEW v \in Values, Change(k, v)
  PROVE  Places' /\ InOrder'
<1>1. SettingsTypes /\ Places /\ InOrder
  BY DEF SettingsInv
<1> USE MenuSettingsAssumption
    DEF Threads, fileVars, programVars, boundVars, historyVars, Main, Menu
<1>2. /\ Main # "off" /\ phase = "running" /\ Menu = "idle"
      /\ mem' = [mem EXCEPT ![k] = v] /\ last' = [last EXCEPT ![k] = v]
      /\ UNCHANGED <<file, output, options, at, phase, edited, upset>>
  BY DEF Change, MenuRuns
<1>3. Places'
  BY <1>1, <1>2 DEF Places
<1>4. ASSUME ~upset PROVE Loading' /\ Saving' /\ Given'
  <2>1. Loading /\ Saving /\ Given /\ Main \in {"idle", "save", "write"}
    BY <1>1, <1>2, <1>4 DEF InOrder, Places
  <2>2. Loading' /\ Given'
    BY <1>2, <2>1 DEF Loading, Given
  <2>3. Saving'
    BY <1>2, <2>1 DEF Saving, Agrees
  <2> QED
    BY <2>2, <2>3
<1> QED
  BY <1>2, <1>3, <1>4 DEF InOrder

(* Edit: the setting is in the file, and exempt until the next load.       *)
LEMMA EditStep ==
  ASSUME SettingsInv, NEW k \in Keys, NEW v \in Values \cup {Wrong}, Edit(k, v)
  PROVE  Places' /\ InOrder'
<1>1. SettingsTypes /\ Places /\ InOrder
  BY DEF SettingsInv
<1> USE MenuSettingsAssumption
    DEF Threads, fileVars, programVars, boundVars, historyVars, Main, Menu
<1> DEFINE e == [key \in {k} |-> v]
<1>2. /\ edited' = edited \cup {k}
      /\ UNCHANGED <<output, mem, options, at, phase, last, upset>>
  BY DEF Edit
<1>3. PICK f \in file.json : file' = Whole(Over(e, f))
  BY DEF Edit
<1>4. f \in Texts /\ file.json = {f} /\ file = Whole(f) /\ e \in Texts /\ DOMAIN e = {k}
  <2>1. e \in [{k} -> Values \cup {Wrong}]
    OBVIOUS
  <2> QED
    BY <1>1, <2>1, JsonIs, IsText
<1> DEFINE g == Over(e, f)
<1>5. /\ DOMAIN g = DOMAIN f \cup {k}
      /\ \A l \in DOMAIN f \ {k} : g[l] = f[l]
  <2> HIDE DEF e
  <2>1. DOMAIN g = DOMAIN e \cup DOMAIN f /\ \A l \in DOMAIN f \ DOMAIN e : g[l] = f[l]
    BY <1>4, OverIs
  <2> QED
    BY <1>4, <2>1
<1>6. file'.json = {g} /\ file' # Broken /\ file' # Absent /\ file # Broken
  BY <1>3, <1>4, FileFacts
<1> HIDE DEF e, g
<1>7. Places'
  BY <1>1, <1>2, <1>4, <1>5, <1>6 DEF Places
<1>8. ASSUME ~upset PROVE Loading' /\ Saving' /\ Given'
  <2>1. Loading /\ Saving /\ Given
    BY <1>1, <1>8 DEF InOrder
  <2>2. Loading'
    BY <1>2, <1>4, <1>5, <1>6, <2>1 DEF Loading
  <2>3. Agrees => Agrees'
    BY <1>2, <1>4, <1>5, <1>6 DEF Agrees
  <2>4. Saving'
    BY <1>2, <1>6, <2>1, <2>3 DEF Saving
  <2>5. Given'
    BY <1>2, <2>1 DEF Given, Completed
  <2> QED
    BY <2>2, <2>4, <2>5
<1> QED
  BY <1>2, <1>7, <1>8 DEF InOrder

(* All of it holds of the file the program finds when it first starts.     *)
LEMMA InitSettingsInv == Init => SettingsInv
<1> SUFFICES ASSUME Init PROVE SettingsInv
  OBVIOUS
<1> USE MenuSettingsAssumption DEF Threads, Main, Menu
<1>1. /\ Nothing \in Texts /\ DOMAIN Nothing = {}
      /\ \A S \in SUBSET Keys : \A f \in [S -> Values] : f \in Texts
  <2>1. ASSUME NEW S \in SUBSET Keys, NEW f \in [S -> Values] PROVE f \in Texts
    <3>1. f \in [S -> Values \cup {Wrong}]
      OBVIOUS
    <3> QED
      BY <3>1, IsText
  <2> QED
    BY <2>1, NothingIs
<1>2. file = Absent \/ \E f \in Texts : file = Whole(f)
  BY <1>1 DEF Init
<1>3. SettingsTypes
  <2> DEFINE d == SettingsTypes
  <2>1. /\ file \in {Absent, Broken} \cup {Whole(f) : f \in Texts}
        /\ mem \in [Keys -> Values] /\ options \in Texts
        /\ at \in [Threads -> {"off", "idle"}] /\ at["menu"] = "idle"
        /\ output \in [Threads -> Texts] /\ phase = "starting"
        /\ changes = 0 /\ failures = 0 /\ ends = 0 /\ edited \subseteq Keys
    BY <1>1, <1>2 DEF Init
  <2>2. last = Held(Defaults)
    BY DEF Init
  <2>3. last \in [Keys -> Values \cup {Wrong}]
    <3>1. CASE file = Absent
      BY <2>2, <3>1, FileFacts DEF Held
    <3>2. CASE \E f \in Texts : file = Whole(f)
      <4>1. PICK f \in Texts : file = Whole(f)
        BY <3>2
      <4>2. file.json = {f} /\ (CHOOSE g \in file.json : TRUE) = f
        BY <4>1, FileFacts
      <4>3. Held(Defaults) = [k \in Keys |-> IF k \in DOMAIN f THEN f[k] ELSE Defaults[k]]
        BY <4>2 DEF Held
      <4> HIDE DEF Held
      <4> QED
        BY <2>2, <4>3, TextIs
    <3> QED
      BY <1>2, <3>1, <3>2
  <2> QED
    BY <2>1, <2>3 DEF SettingsTypes
<1>4. /\ upset = FALSE /\ edited = {} /\ file # Broken /\ phase = "starting"
      /\ Main = "off" /\ Menu = "idle" /\ last = Held(Defaults)
  BY <1>2, FileFacts DEF Init
<1>5. Places
  BY <1>4 DEF Places
<1>6. Loading
  BY <1>3, <1>4, HeldIs DEF Loading
<1>7. Saving /\ Given
  BY <1>4 DEF Saving, Given
<1> QED
  BY <1>3, <1>4, <1>5, <1>6, <1>7 DEF SettingsInv, InOrder

(* Every step keeps the invariant.                                         *)
LEMMA NextSettingsInv == SettingsInv /\ [Next]_vars => SettingsInv'
<1> SUFFICES ASSUME SettingsInv, [Next]_vars PROVE SettingsInv'
  OBVIOUS
<1>1. SettingsTypes /\ Places /\ InOrder /\ upset' \in BOOLEAN
  BY MishapStays DEF SettingsInv
<1>2. ASSUME NEW t \in Threads, Thread(t) PROVE SettingsTypes' /\ Places' /\ InOrder'
  BY <1>1, <1>2, ThreadTypes, ReadStep, AssignStep, OpenStep, WriteStep DEF Thread
<1>3. ASSUME AttemptSave \/ StartMod \/ Enable \/ Stop \/ Leave \/ GameEnds \/ Reload
      PROVE  SettingsTypes' /\ Places' /\ InOrder'
  <2>1. SettingsTypes'
    BY <1>1, <1>3, OthersTypes
  <2>2. Places' /\ InOrder'
    <3>1. ASSUME AttemptSave PROVE Places' /\ InOrder'
      BY <3>1, AttemptStep
    <3>2. ASSUME StartMod PROVE Places' /\ InOrder'
      BY <3>2, StartStep
    <3>3. ASSUME Enable \/ Stop \/ Reload PROVE Places' /\ InOrder'
      BY <3>3, PhaseStep
    <3>4. ASSUME Leave PROVE Places' /\ InOrder'
      BY <3>4, LeaveStep
    <3>5. ASSUME GameEnds PROVE Places' /\ InOrder'
      BY <3>5, GameEndsStep
    <3> QED
      BY <1>3, <3>1, <3>2, <3>3, <3>4, <3>5
  <2> QED
    BY <2>1, <2>2
<1>4. ASSUME NEW k \in Keys, NEW v \in Values, Change(k, v)
      PROVE  SettingsTypes' /\ Places' /\ InOrder'
  <2>1. SettingsTypes'
    BY <1>1, <1>4, OthersTypes
  <2> QED
    BY <1>4, <2>1, ChangeStep
<1>5. ASSUME NEW k \in Keys, NEW v \in Values \cup {Wrong}, Edit(k, v)
      PROVE  SettingsTypes' /\ Places' /\ InOrder'
  <2>1. SettingsTypes'
    BY <1>1, <1>5, OthersTypes
  <2> QED
    BY <1>5, <2>1, EditStep
<1>6. ASSUME UNCHANGED vars PROVE SettingsTypes' /\ Places' /\ InOrder'
  <2>1. UNCHANGED <<file, mem, options, at, output, phase, changes, failures, ends, last, edited,
                    upset>>
    BY <1>6 DEF vars, fileVars, programVars, boundVars, historyVars
  <2>2. SettingsTypes' /\ Places'
    BY <1>1, <2>1 DEF SettingsTypes, Places, Main, Menu
  <2>3. InOrder'
    BY <1>1, <2>1 DEF InOrder, Loading, Saving, Given, Agrees, Completed, Main, Menu
  <2> QED
    BY <2>2, <2>3
<1>7. SettingsTypes' /\ Places' /\ InOrder'
  BY <1>2, <1>3, <1>4, <1>5, <1>6 DEF Next
<1> QED
  BY <1>1, <1>7 DEF SettingsInv

(* The invariant holds of load and save on the main thread, on the render  *)
(* thread at Reload Setting, and through ends and starts of the game.      *)
THEOREM SettingsInvariance == Spec => []SettingsInv
BY InitSettingsInv, NextSettingsInv, PTL DEF Spec

(* Each variable of MenuSettings has its type, the texts a thread is about *)
(* to write among them.                                                    *)
THEOREM SettingsTypeCorrect == Spec => []TypeOK
<1>1. SettingsInv => TypeOK
  BY DEF SettingsInv, SettingsTypes, TypeOK
<1> QED
  BY <1>1, SettingsInvariance, PTL

(* The settings are those last given, in the menu or in the file, over any *)
(* number of starts, saves, reloads and files that lack some, unless one   *)
(* of the mishaps came to pass: load and save lose none by themselves.     *)
THEOREM SettingsAreKept == Spec => []SettingsStay
<1>1. SettingsInv => SettingsStay
  BY DEF SettingsInv, SettingsTypes, Places, InOrder, Saving, Given, SettingsStay, Main, Menu
<1> QED
  BY <1>1, SettingsInvariance, PTL

=============================================================================
