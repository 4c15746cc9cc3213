SPECIFICATION Spec
INVARIANTS
    PromptsAreAnsweredByUser
