\* Two words per entry make a torn entry visible.  No symmetry: liveness is
\* checked.
SPECIFICATION FairSpec
CONSTANTS
  NEntrys = 2
  EntryLen = 2
  Word = {u, v}
INVARIANTS Safe NoSharedPlace
PROPERTIES ImplementsFifo CallsServed
