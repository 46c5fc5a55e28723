---------------------------- MODULE PatternScan ----------------------------
(***************************************************************************)
(* The search of memory/range.cpp for the bytes of a pattern, some of them *)
(* wildcards, in the image of a module: Horspool's, with a table of how    *)
(* far the window may be shifted by the byte under its last position.      *)
(*                                                                         *)
(* Indices are from 0, as in the code; -1 is the static_cast<size_t>(-1)   *)
(* that wild_card_idx starts from.  A window is compared in one step.      *)
(***************************************************************************)
EXTENDS Integers

CONSTANTS
  Bytes,  \* the values of a byte
  Wild   \* std::nullopt, a wildcard of a pattern

ASSUME PatternScanAssumption == Wild \notin Bytes

VARIABLES
  text,      \* the image: its bytes by their offset from m_base
  size,      \* module_size
  sig,       \* the pattern: its bytes and wildcards
  length,    \* its length
  step,      \* where scan_pattern is
  i,         \* the index of its two loops over the pattern
  maxShift,  \* maxShift
  wildcard,  \* wild_card_idx
  shift,     \* shift_table
  current,   \* current_idx
  result     \* what it returned: an offset, or -1 for std::nullopt

regionVars == <<text, size>>
scanVars   == <<sig, length, step, i, maxShift, wildcard, shift, current, result>>

(* max_idx.                                                                *)
Last == length - 1

(* scan_end.  An image is longer than what is searched in it.              *)
ScanEnd == size - length

(* The window at an offset agrees with the pattern.                        *)
MatchesAt(p) == \A j \in 0..Last : sig[j] = Wild \/ sig[j] = text[p + j]

Occurrences == {p \in 0..ScanEnd : MatchesAt(p)}

(* A call of scan_pattern for a pattern of n bytes or wildcards.           *)
Begin(s, n) ==
  /\ sig' = s
  /\ length' = n
  /\ step' = "wildcard"
  /\ i' = n - 2
  /\ maxShift' = n
  /\ wildcard' = -1
  /\ shift' = [b \in Bytes |-> n]
  /\ current' = 0
  /\ result' = -1

(* The first loop looks for the last wildcard but for one at max_idx; the  *)
(* table then starts from its distance.                                    *)
NotWild ==
  /\ step = "wildcard"
  /\ i >= 0
  /\ sig[i] # Wild
  /\ i' = i - 1
  /\ UNCHANGED <<regionVars, sig, length, step, maxShift, wildcard, shift, current, result>>

(* Mutant of Reach: the table starts from the whole length.                *)
Reach_Whole(n, w) == n

(* maxShift, of a pattern whose last wildcard before max_idx is at w.      *)
Reach(n, w) == IF w = -1 THEN n ELSE n - 1 - w

WildcardFound ==
  /\ step = "wildcard"
  /\ i >= 0 => sig[i] = Wild
  /\ wildcard' = IF i >= 0 THEN i ELSE -1
  /\ maxShift' = Reach(length, wildcard')
  /\ shift' = [b \in Bytes |-> maxShift']
  /\ i' = wildcard' + 1
  /\ step' = "fill"
  /\ UNCHANGED <<regionVars, sig, length, current, result>>

(* The second loop fills in the distance of each byte behind the wildcard, *)
(* so that the last of equal ones stays.                                   *)
Fill ==
  /\ step = "fill"
  /\ i # Last
  /\ shift' = [shift EXCEPT ![sig[i]] = Last - i]
  /\ i' = i + 1
  /\ UNCHANGED <<regionVars, sig, length, step, maxShift, wildcard, current, result>>

Filled ==
  /\ step = "fill"
  /\ i = Last
  /\ step' = "scan"
  /\ UNCHANGED <<regionVars, sig, length, i, maxShift, wildcard, shift, current, result>>

(* A byte of the window differs.                                           *)
Shift ==
  /\ step = "scan"
  /\ current <= ScanEnd
  /\ ~MatchesAt(current)
  /\ current' = current + shift[text[current + Last]]
  /\ UNCHANGED <<regionVars, sig, length, step, i, maxShift, wildcard, shift, result>>

Found ==
  /\ step = "scan"
  /\ current <= ScanEnd
  /\ MatchesAt(current)
  /\ result' = current
  /\ step' = "done"
  /\ UNCHANGED <<regionVars, sig, length, i, maxShift, wildcard, shift, current>>

PastEnd == current > ScanEnd

NotFound ==
  /\ step = "scan"
  /\ PastEnd
  /\ step' = "done"
  /\ UNCHANGED <<regionVars, sig, length, i, maxShift, wildcard, shift, current, result>>

Scan == NotWild \/ WildcardFound \/ Fill \/ Filled \/ Shift \/ Found \/ NotFound

-----------------------------------------------------------------------------
(* One call, of any pattern in any image that is not shorter.              *)
CallInit ==
  /\ length \in Nat \ {0}
  /\ size \in Nat
  /\ length <= size
  /\ sig \in [0..length - 1 -> Bytes \cup {Wild}]
  /\ text \in [0..size - 1 -> Bytes]
  /\ step = "wildcard"
  /\ i = length - 2
  /\ maxShift = length
  /\ wildcard = -1
  /\ shift = [b \in Bytes |-> length]
  /\ current = 0
  /\ result = -1

callVars == <<regionVars, scanVars>>

CallSpec == CallInit /\ [][Scan]_callVars

(* The search is over when the pattern is found at its first occurrence,   *)
(* or occurs nowhere: no shift jumps over one.                             *)
FindsFirst ==
  step = "done" =>
    IF result = -1 THEN Occurrences = {}
                   ELSE result \in Occurrences /\ \A p \in Occurrences : result <= p

=============================================================================
