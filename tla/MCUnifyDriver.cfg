CONSTANTS
    Size <- MCSize
    TdbEnabled <- MCTdbAll
    DefStreams <- MCDefStreams
    DefFiles <- MCDefFiles
    NoTail = NoTail
    Two64 = 1000
SPECIFICATION DefsSpec
INVARIANTS
    TypeOK
    CollectivesMatch
    EventsSeeTranslations
    OutcomeAgreement
    PublishedOnlyIfUnified
    CommentsOrdered
    SingleValued
    TdbRuntimeSpan

    
