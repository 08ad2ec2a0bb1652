\* Accepted CREATEs with quoted column names that contain ":" and ",", checked
\* against the spec's StructureHashDistinguishes alone.
CONSTANTS
    RelNames <- MCRelNames
    SystemPrefixed <- MCSystemPrefixed
    SystemTables <- MCSystemTables
    acceptedTypesNames <- MCAcceptedTypesNames
    RunInputs <- MCRunInputs
    CreateInputs <- MCCreateInputs
    JoinOrSubqueryCheck <- checkNoJoinOrSubquery
    SystemTablesCheck <- checkNoSystemTablesReferencing
    NonDeterminismCheck <- checkNonDeterministicFunctions
SPECIFICATION Spec
INVARIANT StructureHashDistinguishes
