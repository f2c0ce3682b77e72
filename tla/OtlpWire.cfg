CONSTANTS
    LenBits = 20
    ResourceLen = 18
    ScopeLen = 5
    RecordLens = {0, 1, 40, 62, 63, 76, 77, 78, 79, 92, 93, 96, 97, 98, 99, 100, 126, 127, 128, 200}
    MaxRecords = 2
    Counts = {0, 1, 127, 128, 300}
    MaxFields = 2
    Codes = {200, 400, 401, 403, 404, 413, 429, 500, 502, 503, 504}
    Statuses = {0, 1, 3, 8, 14}
    Secs = {0, 1, 5242, 5243, 10485, 10486}
    RawValues = {0, 1, 60000, 16777217, 536870912}
    MaxEncodeDepth = 3
    MaxCalls = 4
    Samples <- MCSamples
    Entries <- MCEntries
    Spans <- MCSpans
SPECIFICATION Spec
INVARIANTS
    SizeIsExact
    RequestReadsBack
    RejectionsCounted
    TransportsAgree
    GrpcMetadataRead
    HeadersDescribeBody
    ConfigUsable
