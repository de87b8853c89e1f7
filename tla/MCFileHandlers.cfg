CONSTANTS
    plain = plain
    append = append
    Handle = {plain, append}
    Access <- MCAccess
    Appending <- MCAppending
    Byte <- MCByte
    Zero = 0
    MaxOffset = 2
    MaxCount = 3
    MaxLength = 4
    MaxTransfer = 2
    MaxChanges = 1
SPECIFICATION FairHandlersSpec
PROPERTIES
    ImplementsPositionalFile
    EofWriteKeepsAll
    AppendAccessDecides
    EveryCallEnds
