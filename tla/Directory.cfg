CONSTANTS
  Key = {a, b, c}
  Backend = {x, y}
  MaxRevision = 5
SPECIFICATION Spec
SYMMETRY Symmetry
INVARIANT IndexIsExact
INVARIANT RevisionIdentifies
INVARIANT CallsAreAtomic
PROPERTY DrainsBeforeRemoval
