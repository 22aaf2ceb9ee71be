CONSTANT Programs <- ModulePrograms
SPECIFICATION Spec
INVARIANT PrivateByDefault
