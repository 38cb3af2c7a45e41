--------------------------- MODULE MCBundleCache ---------------------------
(* Small instances of BundleCache. Spellings a and b normalise to one key, *)
(* c and d to a key each; a cfg chooses which of them callers send.        *)
EXTENDS BundleCache, TLC

CONSTANTS a, b, c, d, ka, kc, kd

MCKeyOf == [s \in Spellings |-> CASE s \in {a, b} -> ka [] s = c -> kc [] s = d -> kd]

Symmetry == Permutations(Calls)
==============================================================================
