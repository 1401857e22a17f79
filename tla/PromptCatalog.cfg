\* Every endpoint and every type of data or document that the seed knows, one
\* that it does not know, and bodies with up to two odd fields.
CONSTANTS
    DataTypes <- MCDataTypes
    DocumentTypes <- MCDocumentTypes
    MaxOdd = 2
SPECIFICATION CatalogSpec
CONSTRAINT OneRequest
INVARIANTS DriftSilent WellFormed NothingLost QuotesInert 
