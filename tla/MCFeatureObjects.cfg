SPECIFICATION Spec
CONSTANT FileLists <- MCFileLists
INVARIANTS NoFault NothingLeaks
