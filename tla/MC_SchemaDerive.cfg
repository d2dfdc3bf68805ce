CONSTANTS
    TypeShapes <- MCTypeShapes
    AttrLists <- MCAttrLists
    GenericLists <- MCGenericLists
    MaxFields = 2
SPECIFICATION Spec
\* The macro expands once: after Derive nothing is left to do.
CHECK_DEADLOCK FALSE
INVARIANT TypeOK
INVARIANT AcceptedSchemaMatchesSpec
