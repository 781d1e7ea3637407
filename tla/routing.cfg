CONSTANTS
    Tokens <- MCTokens
    ParamsTokens <- MCParamsTokens
    Params <- MCParams
    Requests <- MCRequests
    MaxBatch = 2
    Configs <- MCConfigs
    Urls <- MCUrls
    ApiNames = {"database_api", "condenser_api"}
    DictParams <- MCDictParams
    EmptyList <- Empty
    TransferPaths <- MCTransferPaths
    OddPaths <- MCOddPaths
    TransferUrl = "https://transfers"
    Number = Number
    MemoSize = 2
    Absent = Absent
SPECIFICATION Spec
INVARIANT TypeOK
INVARIANT RoutedAsConfigured
INVARIANT KeyDeterminesCall
INVARIANT SentAsAsked
