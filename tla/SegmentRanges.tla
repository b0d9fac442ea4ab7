--------------------------- MODULE SegmentRanges ---------------------------
(***************************************************************************)
(* How one query is spread over the worker pool (src/segment_ranges.rs):   *)
(* every non-empty segment gets one task, and the workers that are left    *)
(* split the largest segments into ranges of document ids.                 *)
(***************************************************************************)
EXTENDS Integers, Sequences, FiniteSetsExt, SequencesExt

CONSTANTS MinDocsPerRange,  \* MIN_DOCS_PER_RANGE
          Workers           \* threads of the search pool

ASSUME RangesAssumption == MinDocsPerRange \in Nat \ {0} /\ Workers \in Nat

DivCeil(a, b) == (a + b - 1) \div b

UsefulRangeCount(maxDoc, workers) ==
  Min({Max({DivCeil(maxDoc, MinDocsPerRange), 1}), Max({workers, 1})})

\* Mutant: the length of a range is rounded down.
SegmentDocRangesFloor(maxDoc, workers) ==
  LET n     == UsefulRangeCount(maxDoc, workers)
      chunk == maxDoc \div n
  IN  {[from |-> w * chunk, to |-> (w + 1) * chunk] : w \in 0..(n - 1)}

\* Ranges [from, to) of document ids; ids start at 0.
SegmentDocRanges(maxDoc, workers) ==
  LET n     == UsefulRangeCount(maxDoc, workers)
      chunk == DivCeil(maxDoc, n)
      range(w) == [from |-> w * chunk, to |-> Min({maxDoc, (w + 1) * chunk})]
  IN  {r \in {range(w) : w \in 0..(n - 1)} : r.from < r.to}

\* One more task for a segment that may still be split and whose ranges stay
\* longest (max_by_key: the last one), while tasks are fewer than the target.
Grown(sizes, workers, target, alloc) ==
  LET splittable == {s \in DOMAIN sizes : alloc[s] < UsefulRangeCount(sizes[s], workers)}
      length(s) == DivCeil(sizes[s], alloc[s] + 1)
      longest == {s \in splittable : \A o \in splittable : length(o) <= length(s)}
  IN  IF FoldLeft(+, 0, alloc) < target /\ splittable # {}
      THEN [alloc EXCEPT ![Max(longest)] = @ + 1]
      ELSE alloc

\* The tasks of each segment: one, and then round by round.
Allocations(sizes, workers) ==
  LET target == Max({workers, 1, Len(sizes)})
      rounds[n \in 0..target] ==
        IF n = 0 THEN [s \in DOMAIN sizes |-> 1]
        ELSE Grown(sizes, workers, target, rounds[n - 1])
  IN  rounds[target]

\* searcher_doc_ranges: sizes[s] is max_doc of segment s, all of them positive.
SearcherDocRanges(sizes, workers) ==
  LET alloc == Allocations(sizes, workers)
  IN  UNION {{[seg |-> s, from |-> r.from, to |-> r.to] :
                r \in SegmentDocRanges(sizes[s], alloc[s])} : s \in DOMAIN sizes}

=============================================================================
