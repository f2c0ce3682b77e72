---------------------------- MODULE OtlpEnvelope ----------------------------
(***************************************************************************)
(* Sizes and layout of an ExportLogsServiceRequest (src/otlp/envelope.go,  *)
(* src/otlp/proto.go).  The exporter cuts its batches by sizeFor, which    *)
(* predicts the length of the request without building it; assemble builds *)
(* it.                                                                     *)
(*                                                                         *)
(* A request is a sequence of bytes.  The exporter's model only needs the  *)
(* lengths of the resource and of the scope.                               *)
(***************************************************************************)
EXTENDS OtlpProto

CONSTANTS
    ResourceLen,   \* len(e.resourceBlob)
    ScopeLen       \* len(e.scopeBlob), 0 when the scope is omitted

ASSUME LenAssumption == ResourceLen \in Nat /\ ScopeLen \in Nat

recordCost(recLen) == 1 + uvarintLen(recLen) + recLen

scopePartLen(scopeLen) == IF scopeLen = 0 THEN 0 ELSE 1 + uvarintLen(scopeLen) + scopeLen

\* The size of ResourceLogs around scope logs of the given size.
resourceLogsLen(resourceLen, scopeLogs) ==
    1 + uvarintLen(resourceLen) + resourceLen + 1 + uvarintLen(scopeLogs) + scopeLogs

\* Mutant: the scope is forgotten.
sizeForNoScope(tagged) ==
    LET n == resourceLogsLen(ResourceLen, tagged) IN 1 + uvarintLen(n) + n

sizeFor(tagged) ==
    LET n == resourceLogsLen(ResourceLen, scopePartLen(ScopeLen) + tagged)
    IN  1 + uvarintLen(n) + n

\* The sum of the costs of records of the given lengths.
taggedLen(lens) ==
    LET sum[n \in 0..Len(lens)] == IF n = 0 THEN 0 ELSE sum[n - 1] + recordCost(lens[n])
    IN  sum[Len(lens)]

\* The scope of newEnvelope: what is not configured is left out.
scopeBlob(name, version) ==
    (IF name = <<>> THEN <<>> ELSE appendTaggedBytes(10, name))
      \o (IF version = <<>> THEN <<>> ELSE appendTaggedBytes(18, version))

\* The request for the given records, below a resource and a scope.
assemble(resource, scope, records) ==
    LET lens      == [i \in 1..Len(records) |-> Len(records[i])]
        scopeLogs == scopePartLen(Len(scope)) + taggedLen(lens)
    IN  <<10>> \o appendUvarint[resourceLogsLen(Len(resource), scopeLogs)]
          \o appendTaggedBytes(10, resource)
          \o <<18>> \o appendUvarint[scopeLogs]
          \o (IF scope = <<>> THEN <<>> ELSE appendTaggedBytes(10, scope))
          \o FlattenSeq([i \in 1..Len(records) |-> appendTaggedBytes(18, records[i])])

=============================================================================
