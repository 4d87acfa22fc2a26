SPECIFICATION Spec
CONSTANT Attempts <- MCAttempts
INVARIANTS
  SameTag
  OnlyDeclaredTags
