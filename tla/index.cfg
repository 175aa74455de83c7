\* Two trace files that change twice in all, at their ends, past the samples
\* of their hash, or by a touch, calls with and without force_rebuild and
\* require_bloom, hash and stamp read apart, parses, writes and removals that
\* fail, a crash at every step with column families flushed apart: the index
\* describes a fresh file by its present content only, unless a change escaped
\* its hash, and wholly, unless a parse or write failed or the process died;
\* the root statistics are the sum of the rest.
SPECIFICATION Spec
CONSTANTS
  Files = {a, b}
  MaxChanges = 2
SYMMETRY Alike
INVARIANTS
  FreshIsCurrent
  FreshIsWhole
  RootIsSum
