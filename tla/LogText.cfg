\* Lines of up to three characters more than their buffer, room for one region,
\* three rows of /proc/self/maps and converted integers of up to eight digits.
SPECIFICATION MCSpec
CONSTANTS
    NULL = NULL
    Chars <- MCChars
    PRINTF_INTEGER_BUFFER_SIZE = 8
    MAX_BUFFER_SIZE = 20
    MAX_REGION_COUNT = 1
    MaxRows = 3
    Workloads <- MCWorkloads
    Garbage <- MCGarbage
INVARIANTS
    BufferHolds
    PrintsAsTheStandard
    ReadBack
    HeapReported
