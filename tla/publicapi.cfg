SPECIFICATION Spec
CONSTANTS
    Placeholders <- MCPlaceholders
    Uris <- MCUris
    Cryptos = {TokenClient, TokenServer}
    TokenClient = TokenClient
    TokenServer = TokenServer
    Texts <- MCTexts
    Cipher <- MCCipher
    Second = 2
    MaxDifference = 4
    LastTime = 11
    Nothing = Nothing
INVARIANTS
    TypeOK
    QuotesNeedToken
    TimelyTokenServed
    UriIsReadWhole
    RepliesInFormat
    IssuedTokenServes
