SPECIFICATION Spec
INVARIANTS FitsWhenUpToDate RevertRestores
PROPERTIES ErrorsExplained
