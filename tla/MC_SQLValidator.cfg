\* Every input statement through ValidateRunSQL and ValidateCreateTable:
\* what the validator accepts keeps the guarantees its checks are for.
CONSTANTS
    RelNames <- MCRelNames
    SystemPrefixed <- MCSystemPrefixed
    SystemTables <- MCSystemTables
    acceptedTypesNames <- MCAcceptedTypesNames
    RunInputs <- MCRunInputs
    CreateInputs <- MCCreateInputs
    JoinOrSubqueryCheck <- checkNoJoinOrSubquery
    SystemTablesCheck <- checkNoSystemTablesReferencing
    NonDeterminismCheck <- checkNonDeterministicFunctions
SPECIFICATION Spec
INVARIANTS
    TypeOK
    WriteSingleTable
    WriteNoReturning
    ReadSingleUnlocked
    CreateStructure
