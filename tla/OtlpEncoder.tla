---------------------------- MODULE OtlpEncoder ----------------------------
(***************************************************************************)
(* The OTLP record encoder (src/otlp/attr.go, encoder.go, core.go,         *)
(* tracectx.go) and the resource builder of envelope.go that shares its    *)
(* state: the calls zap and the application's marshalers make on encState, *)
(* with the bytes they leave.                                              *)
(*                                                                         *)
(* Every call of a behaviour logs the same value under the same key, picked *)
(* with the entry in the initial state.  doc is what the application has   *)
(* said so far, kept as the JSON of an OTLP record: a failed marshaler     *)
(* takes back its part of doc as a whole, where the encoder truncates.     *)
(***************************************************************************)
EXTENDS OtlpJson

CONSTANTS
    MaxEncodeDepth,   \* maxEncodeDepth
    Samples,          \* keys and values logged, each with a bound on the calls
    Entries,          \* entries and encoder options, resource options among them
    Spans             \* span contexts: flags and ids, and whether they are valid

ASSUME EncoderBounds == MaxEncodeDepth \in Nat \ {0}

VARIABLES
    sample,   \* the key and the value of every call
    ent,      \* the entry, with the options of the encoder
    stage,    \* With fields, entry fields, resource fields, or done
    calls,    \* calls made so far
    stack,    \* encState.stack
    running,  \* the marshalers under way: their snapshots
    sc,       \* sc and scSet: the span context found last, or none
    out,      \* the record or resource that was built
    doc       \* history: what the application said

encVars == <<sample, ent, stage, calls, stack, running, sc, out, doc>>

unset == [valid |-> FALSE, flags |-> 0, trace |-> <<>>, span |-> <<>>]

-----------------------------------------------------------------------------
(***************************************************************************)
(* Values: the AnyValue builders and the Add methods that choose them.     *)
(***************************************************************************)
\* strconv.FormatUint
decimal[v \in Nat] == (IF v < 10 THEN <<>> ELSE decimal[v \div 10]) \o <<48 + (v % 10)>>

\* AddUint64: what int64 cannot hold becomes a decimal string.
AddUint64(v) ==
    IF v >= 2^(LenBits - 1) THEN [t |-> "string", v |-> decimal[v]] ELSE [t |-> "int", v |-> <<v>>]

attrValue(a) == IF a.t = "uint" THEN AddUint64(a.v[1]) ELSE a

anyString(s) == appendTaggedBytes(10, s)

anyValue(a) ==
    CASE a.t = "string" -> anyString(a.v)
      [] a.t = "bool"   -> <<16>> \o a.v
      [] a.t = "int"    -> <<24>> \o appendVarint(a.v[1])
      [] a.t = "double" -> <<33>> \o a.v
      [] a.t = "bytes"  -> appendTaggedBytes(58, a.v)

-----------------------------------------------------------------------------
(***************************************************************************)
(* encState.                                                               *)
(***************************************************************************)
frame(kind, key) == [kind |-> kind, nsKey |-> key, buf |-> <<>>]

entryTag(f) == IF f.kind = "root" THEN 50 ELSE 10

keyValueLen(key, avLen) == 1 + uvarintLen(Len(key)) + Len(key) + 1 + uvarintLen(avLen) + avLen

keyValue(f, key, av) ==
    <<entryTag(f)>> \o appendUvarint[keyValueLen(key, Len(av))]
      \o appendTaggedBytes(10, key) \o appendTaggedBytes(18, av)

write(s, i, bytes) == [s EXCEPT ![i].buf = @ \o bytes]

addKV(s, key, av) == write(s, Len(s), keyValue(s[Len(s)], key, av))
addAV(s, av) == write(s, Len(s), appendTaggedBytes(entryTag(s[Len(s)]), av))
addValue(s, key, av) == IF s[Len(s)].kind = "array" THEN addAV(s, av) ELSE addKV(s, key, av)

\* Entry metadata is never namespaced.
addKVRoot(s, key, av) == write(s, 1, keyValue(s[1], key, av))

openFrame(s, kind, key) == Append(s, frame(kind, key))

\* The top frame becomes a kvlist or array value of the frame below, written
\* behind the lengths computed for it.
sealTop(s) ==
    LET top    == s[Len(s)]
        parent == s[Len(s) - 1]
        avLen  == 1 + uvarintLen(Len(top.buf)) + Len(top.buf)
        head   == IF parent.kind = "array"
                    THEN <<entryTag(parent)>> \o appendUvarint[avLen]
                    ELSE <<entryTag(parent)>> \o appendUvarint[keyValueLen(top.nsKey, avLen)]
                           \o appendTaggedBytes(10, top.nsKey) \o <<18>> \o appendUvarint[avLen]
    IN  write(Front(s), Len(s) - 1,
              head \o appendTaggedBytes(IF top.kind = "array" THEN 42 ELSE 50, top.buf))

sealDownTo(s, depth) ==
    FoldLeft(LAMBDA t, i : sealTop(t), s, [i \in 1..(Len(s) - depth) |-> i])

snap(s) == [depth |-> Len(s), bufLen |-> Len(s[Len(s)].buf)]

\* Mutant: the frames are dropped, the bytes of the current one are not.
rollbackNoTruncate(s, sn) == SubSeq(s, 1, sn.depth)

rollback(s, sn) ==
    [SubSeq(s, 1, sn.depth) EXCEPT ![sn.depth].buf = SubSeq(@, 1, sn.bufLen)]

-----------------------------------------------------------------------------
(***************************************************************************)
(* What the application said: levels of attributes, as JSON.               *)
(***************************************************************************)
Text(s) == val("string", s)

AttrJson(a) ==
    <<tok("{")>>
      \o (CASE a.t = "string" -> <<tok("stringValue"), Text(a.v)>>
            [] a.t = "bool"   -> <<tok("boolValue"), tok(IF a.v = <<1>> THEN "true" ELSE "false")>>
            [] a.t = "int"    -> <<tok("intValue"), val("decimal", a.v)>>
            [] a.t = "uint"   -> IF a.v[1] < 2^(LenBits - 1)
                                   THEN <<tok("intValue"), val("decimal", a.v)>>
                                   ELSE <<tok("stringValue"), val("digits", a.v)>>
            [] a.t = "double" -> <<tok("doubleValue"), val("double", a.v)>>
            [] a.t = "bytes"  -> <<tok("bytesValue"), val("bytes", a.v)>>)
      \o <<tok("}")>>

Level(kind, key) == [kind |-> kind, key |-> key, items |-> <<>>]

Entry(level, key, json) ==
    [level EXCEPT !.items = @ \o
       IF level.kind = "array" THEN json
       ELSE <<tok("{"), tok("key"), Text(key), tok("value")>> \o json \o <<tok("}")>>]

Say(d, key, json) == [d EXCEPT ![Len(d)] = Entry(@, key, json)]
SayRoot(d, key, json) == [d EXCEPT ![1] = Entry(@, key, json)]

\* A member whose value is an array, left out when the array is empty.
Values(name, items) ==
    IF items = <<>> THEN <<>> ELSE <<tok(name), tok("[")>> \o items \o <<tok("]")>>

Close(d) ==
    LET top == d[Len(d)]
    IN  Say(Front(d), top.key,
            <<tok("{"), tok(IF top.kind = "array" THEN "arrayValue" ELSE "kvlistValue"), tok("{")>>
              \o Values("values", top.items) \o <<tok("}"), tok("}")>>)

CloseTo(d, depth) == FoldLeft(LAMBDA e, i : Close(e), d, [i \in 1..(Len(d) - depth) |-> i])

-----------------------------------------------------------------------------
\* newEncoder, or the start of newEnvelope, whose trace sink is nil.
EncInit ==
    /\ sample \in Samples
    /\ ent \in Entries
    /\ calls = 0
    /\ running = <<>>
    /\ sc = unset
    /\ out = <<>>
    /\ IF ent.resource
         THEN /\ stage = "resource"
              /\ stack = addKV(openFrame(<<frame("root", <<>>)>>, "kvlist", <<>>),
                               ent.name, anyString(ent.msg))
              /\ doc = Say(<<Level("root", <<>>), Level("kvlist", <<>>)>>, ent.name,
                           AttrJson([t |-> "string", v |-> ent.msg]))
         ELSE /\ stage = "with"
              /\ stack = <<frame("root", <<>>)>>
              /\ doc = <<Level("root", <<>>)>>

\* The encoder a marshaler sees.
InObject == stage # "done" /\ (running # <<>> => Last(running).kind # "array")
InArray  == stage # "done" /\ running # <<>> /\ Last(running).kind = "array"

Call == calls < sample.bound /\ calls' = calls + 1

\* The Add methods for scalars, AddReflected of a value that JSON can hold.
Add ==
    /\ InObject
    /\ Call
    /\ stack' = addValue(stack, sample.key, anyValue(attrValue(sample.value)))
    /\ doc' = Say(doc, sample.key, AttrJson(sample.value))
    /\ UNCHANGED <<sample, ent, stage, running, sc, out>>

\* The Append methods; AppendReflected takes a span context for a value too.
AppendElement ==
    /\ InArray
    /\ Call
    /\ stack' = addAV(stack, anyValue(attrValue(sample.value)))
    /\ doc' = Say(doc, <<>>, AttrJson(sample.value))
    /\ UNCHANGED <<sample, ent, stage, running, sc, out>>

OpenNamespace ==
    /\ InObject
    /\ Call
    /\ stack' = openFrame(stack, "kvlist", sample.key)
    /\ doc' = Append(doc, Level("kvlist", sample.key))
    /\ UNCHANGED <<sample, ent, stage, running, sc, out>>

\* An error of a field is logged next to it: zap's Field.AddTo, and
\* applyField for an inline marshaler.  Inside a marshaler the error goes to
\* the marshaler, which may go on.
ErrorText == <<69>>
Errors    == [t |-> "string", v |-> ErrorText]

Report(s, top) == IF top THEN addValue(s, sample.key \o ErrorText, anyString(ErrorText)) ELSE s
SayError(d, top) == IF top THEN Say(d, sample.key \o ErrorText, AttrJson(Errors)) ELSE d

\* AddReflected of a value that cannot be encoded: nothing is written.
AddReflectedError ==
    /\ InObject
    /\ Call
    /\ stack' = Report(stack, running = <<>>)
    /\ doc' = SayError(doc, running = <<>>)
    /\ UNCHANGED <<sample, ent, stage, running, sc, out>>

\* A trace value is consumed: of a field by EncodeEntry or With, inside a
\* marshaler by AddReflected.  The last one wins, an invalid one too, and the
\* rollback of a marshaler leaves it.
ConsumeTrace(span) ==
    /\ InObject
    /\ Call
    /\ sc' = IF stage = "resource" THEN sc ELSE span
    /\ UNCHANGED <<sample, ent, stage, running, stack, out, doc>>

\* AddObject, AddArray, AppendObject and AppendArray up to the marshaler: at
\* the cap nothing is written.
OpenContainer(kind, key) ==
    /\ Call
    /\ \/ /\ Len(stack) >= MaxEncodeDepth
          /\ stack' = Report(stack, running = <<>>)
          /\ doc' = SayError(doc, running = <<>>)
          /\ UNCHANGED running
       \/ /\ Len(stack) < MaxEncodeDepth
          /\ running' = Append(running, [kind |-> kind, sn |-> snap(stack), doc |-> doc])
          /\ stack' = openFrame(stack, kind, key)
          /\ doc' = Append(doc, Level(kind, key))
    /\ UNCHANGED <<sample, ent, stage, sc, out>>

AddContainer(kind) == InObject /\ OpenContainer(kind, sample.key)
AppendContainer(kind) == InArray /\ OpenContainer(kind, <<>>)

\* applyField of an inline marshaler: no frame, only the snapshot.
AddInline ==
    /\ stage # "done" /\ running = <<>>
    /\ Call
    /\ running' = <<[kind |-> "inline", sn |-> snap(stack), doc |-> doc]>>
    /\ UNCHANGED <<sample, ent, stage, stack, sc, out, doc>>

\* The marshaler fails: nothing it wrote survives.
MarshalerFails ==
    /\ running # <<>>
    /\ running' = Front(running)
    /\ stack' = Report(rollback(stack, Last(running).sn), Len(running) = 1)
    /\ doc' = SayError(Last(running).doc, Len(running) = 1)
    /\ UNCHANGED <<sample, ent, stage, calls, sc, out>>

\* It returns: its container is sealed with the namespaces it left open; an
\* inline marshaler's namespaces stay open, as those of a call site do.
MarshalerReturns ==
    /\ running # <<>>
    /\ running' = Front(running)
    /\ LET c == Last(running)
       IN  IF c.kind = "inline" THEN UNCHANGED <<stack, doc>>
           ELSE /\ stack' = sealDownTo(stack, c.sn.depth)
                /\ doc' = CloseTo(doc, Len(c.doc))
    /\ UNCHANGED <<sample, ent, stage, calls, sc, out>>

\* EncodeEntry starts on a copy of the With state: addMeta writes the logger
\* name, the caller and the stack trace to the root.
EncodeEntry ==
    /\ stage = "with" /\ running = <<>>
    /\ stage' = "entry"
    /\ stack' = FoldLeft(LAMBDA s, a : addKVRoot(s, a.key, anyValue(a.value)), stack, ent.meta)
    /\ doc' = FoldLeft(LAMBDA d, a : SayRoot(d, a.key, AttrJson(a.value)), doc, ent.meta)
    /\ UNCHANGED <<sample, ent, calls, running, sc, out>>

fixed64(tag, v) == IF v = 0 THEN <<>> ELSE <<tag>> \o LittleEndian[v, 8]

MaxSeverity == 24

clampSeverity(n) == IF n < 0 THEN 0 ELSE IF n > MaxSeverity THEN MaxSeverity ELSE n

\* The unspecified severity is left out.
severity(n) == IF clampSeverity(n) = 0 THEN <<>> ELSE <<16>> \o appendUvarint[clampSeverity(n)]

\* The trace fields, when a valid span context was found.
traceFields(s) ==
    IF ~s.valid THEN <<>>
    ELSE (IF s.flags = 0 THEN <<>> ELSE <<69>> \o LittleEndian[s.flags, 4])
           \o appendTaggedBytes(74, s.trace) \o appendTaggedBytes(82, s.span)

\* WithTraceCorrelationAttributes: the ids again, as hexadecimal attributes.
correlated(s) ==
    IF ent.correlate /\ sc.valid
      THEN addKVRoot(addKVRoot(s, ent.traceKey, anyString(hex(sc.trace))),
                     ent.spanKey, anyString(hex(sc.span)))
      ELSE s

\* The rest of EncodeEntry: the namespaces are closed and the record written.
FinishEntry ==
    /\ stage = "entry" /\ running = <<>>
    /\ stage' = "done"
    /\ out' = fixed64(9, ent.time) \o severity(ent.level)
                \o appendTaggedBytes(26, ent.levelText)
                \o appendTaggedBytes(42, anyString(ent.msg))
                \o sealDownTo(correlated(stack), 1)[1].buf
                \o traceFields(sc) \o fixed64(89, ent.time)
    /\ UNCHANGED <<sample, ent, calls, stack, running, sc, doc>>

\* The end of newEnvelope: the namespaces of WithResource fields are closed.
FinishResource ==
    /\ stage = "resource" /\ running = <<>>
    /\ stage' = "done"
    /\ out' = sealDownTo(stack, 2)[2].buf
    /\ UNCHANGED <<sample, ent, calls, stack, running, sc, doc>>

EncNext ==
    \/ Add \/ AppendElement \/ OpenNamespace \/ AddReflectedError \/ AddInline
    \/ \E span \in Spans : ConsumeTrace(span)
    \/ \E kind \in {"kvlist", "array"} : AddContainer(kind) \/ AppendContainer(kind)
    \/ MarshalerFails \/ MarshalerReturns
    \/ EncodeEntry \/ FinishEntry \/ FinishResource

-----------------------------------------------------------------------------
(***************************************************************************)
(* The JSON of a record and of a resource that say what the application    *)
(* said: the reference for out.                                            *)
(***************************************************************************)
Member(present, name, token) == IF present THEN <<tok(name), token>> ELSE <<>>

Correlation ==
    IF ent.correlate /\ sc.valid
      THEN SayRoot(SayRoot(doc, ent.traceKey, AttrJson([t |-> "string", v |-> hex(sc.trace)])),
                   ent.spanKey, AttrJson([t |-> "string", v |-> hex(sc.span)]))
      ELSE doc

RecordJson ==
    <<tok("{")>> \o Member(ent.time # 0, "timeUnixNano", val("decimal", <<ent.time>>))
      \o Member(ent.level > 0, "severityNumber", val("number", <<Min({ent.level, MaxSeverity})>>))
      \o <<tok("severityText"), Text(ent.levelText)>>
      \o <<tok("body")>> \o AttrJson([t |-> "string", v |-> ent.msg])
      \o Values("attributes", CloseTo(Correlation, 1)[1].items)
      \o Member(sc.valid /\ sc.flags # 0, "flags", val("number", <<sc.flags>>))
      \o Member(sc.valid, "traceId", Text(hex(sc.trace)))
      \o Member(sc.valid, "spanId", Text(hex(sc.span)))
      \o Member(ent.time # 0, "observedTimeUnixNano", val("decimal", <<ent.time>>))
      \o <<tok("}")>>

ResourceJson == <<tok("{")>> \o Values("attributes", CloseTo(doc, 2)[2].items) \o <<tok("}")>>

=============================================================================
