CONSTANT Programs <- MCPrograms
SPECIFICATION Spec
INVARIANTS PrivateHidden CallsMean SubstitutedAtOnce PactsKept BoundsKept EmittedOnce
PROPERTIES InstancesExtended ImplementsWorklist
