\* The validator's inputs, checked against the spec's ReadNoSystemTables alone.
CONSTANTS
    RelNames <- MCRelNames
    SystemPrefixed <- MCSystemPrefixed
    SystemTables <- MCSystemTables
    acceptedTypesNames <- MCAcceptedTypesNames
    RunInputs <- MCRunInputs
    CreateInputs <- MCCreateInputs
    JoinOrSubqueryCheck <- checkNoJoinOrSubquery
    SystemTablesCheck <- checkNoSystemTablesReferencing
    NonDeterminismCheck <- checkNonDeterministicFunctions
SPECIFICATION Spec
INVARIANT ReadNoSystemTables
