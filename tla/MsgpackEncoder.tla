--------------------------- MODULE MsgpackEncoder ---------------------------
(***************************************************************************)
(* The native Fluent encoder (src/fluent/msgpack_encoder.go and            *)
(* msgpack_array.go) as the sequence of calls that zap and the application's *)
(* marshalers make on it: fields of With, then the fields of one entry,    *)
(* containers that nest, namespaces that nobody closes, values that cannot *)
(* be encoded, marshalers that fail half way.                              *)
(*                                                                         *)
(* A buffer is a sequence of tokens: a key, a scalar value, or the header  *)
(* of a map or an array with its count.  A frame holds the contents of one *)
(* open container and writes its header when it is sealed.                 *)
(***************************************************************************)
EXTENDS Integers, SequencesExt

CONSTANTS
    MaxDepth,      \* maxEncodeDepth
    MaxOps,        \* bound: calls on the encoder
    MaxEnvelope    \* bound: entry-level fields the configuration asks for

ASSUME MsgpackBounds == MaxDepth \in Nat \ {0} /\ MaxOps \in Nat /\ MaxEnvelope \in Nat

VARIABLES
    stack,    \* e.stack
    calls,    \* the AppendObject and AppendArray calls under way: kind and depth
    phase,    \* With fields, entry fields, or done
    ops,      \* calls made so far
    out,      \* the payload EncodeEntry returns
    spaces,   \* history: namespaces opened at the top level and by each call under way
    doc       \* history: the calls as text with brackets

recVars == <<stack, calls, phase, ops, out, spaces, doc>>

\* Keys and scalars carry the number of the call that wrote them; an error
\* that zap reports carries the negative of it.
tok(t, n)       == [t |-> t, n |-> n]
header(kind, n) == tok(kind, n)

emptyFrame(kind) == [kind |-> kind, count |-> 0, buf |-> <<>>]

\* newMsgpackEncoder
RecInit ==
    /\ stack = <<emptyFrame("map")>>
    /\ calls = <<>>
    /\ phase = "with"
    /\ ops = 0
    /\ out = <<>>
    /\ spaces = <<0>>
    /\ doc = <<>>

-----------------------------------------------------------------------------
(***************************************************************************)
(* Operations on a stack of frames.                                        *)
(***************************************************************************)
Top(s) == s[Len(s)]

addKey(s, n) ==
    [s EXCEPT ![Len(s)].count = @ + 1, ![Len(s)].buf = Append(@, tok("key", n))]

\* The Append methods: a value is counted in an array only.
AppendValue(s, n) ==
    [s EXCEPT ![Len(s)].count = IF Top(s).kind = "array" THEN @ + 1 ELSE @,
              ![Len(s)].buf = Append(@, tok("scalar", n))]

\* The encoder hooks of the configuration (time, duration, level, name,
\* caller): one writes a value, a silent one writes nothing.
Hooks == {"writes", "silent"}

AppendHook(s, hook, n) == IF hook = "writes" THEN AppendValue(s, n) ELSE s

\* What the hook appends, or else the fallback.
hooked(s, hook, n) ==
    LET after == AppendHook(s, hook, n)
    IN  IF after = s THEN AppendValue(s, n) ELSE after

Push(s, kind) == Append(s, emptyFrame(kind))

\* Pop the top frame into the one below: its header, then its contents.
seal(s) ==
    LET top   == Top(s)
        below == Front(s)
    IN  [below EXCEPT ![Len(below)].buf =
           @ \o <<header(top.kind, top.count)>> \o top.buf]

sealDownTo(s, depth) ==
    LET sealed[n \in 0..(Len(s) - depth)] == IF n = 0 THEN s ELSE seal(sealed[n - 1])
    IN  sealed[Len(s) - depth]

\* What the caller of AppendObject or AppendArray has done before it runs the
\* marshaler: an array counts its element, a map its key.
OpenContainer(s, kind) ==
    Push([s EXCEPT ![Len(s)].count = IF Top(s).kind = "array" THEN @ + 1 ELSE @], kind)

-----------------------------------------------------------------------------
\* The encoder a marshaler sees: an object's for a map, an array's for an
\* array; the fields of With and of an entry are added to a map.
InMap   == phase # "done" /\ (calls # <<>> => Last(calls).kind = "map")
InArray == phase # "done" /\ calls # <<>> /\ Last(calls).kind = "array"

Count == ops < MaxOps /\ ops' = ops + 1

\* The text of a field, and of a container up to its contents.
FieldText(n)  == <<tok("key", n), tok("scalar", n)>>
Open(kind)    == tok(IF kind = "map" THEN "openMap" ELSE "openArray", 0)
Close(kind)   == tok(IF kind = "map" THEN "closeMap" ELSE "closeArray", 0)
Closers(n)    == [i \in 1..n |-> Close("map")]

\* AddString and the other scalars, AddReflected of a value that can be
\* encoded, AddTime and AddDuration through a hook: one key and one value.
AddScalar ==
    /\ InMap
    /\ Count
    /\ \E hook \in Hooks : stack' = hooked(addKey(stack, ops'), hook, ops')
    /\ doc' = doc \o FieldText(ops')
    /\ UNCHANGED <<calls, phase, out, spaces>>

OpenNamespace ==
    /\ InMap
    /\ Count
    /\ stack' = Push(addKey(stack, ops'), "map")
    /\ spaces' = [spaces EXCEPT ![Len(spaces)] = @ + 1]
    /\ doc' = doc \o <<tok("key", ops'), Open("map")>>
    /\ UNCHANGED <<calls, phase, out>>

\* zap's Field.AddTo reports an error of a field as a string field; inside a
\* marshaler the error goes to the marshaler, which may go on.
Report(s, whole)  == IF whole THEN AppendValue(addKey(s, -ops'), -ops') ELSE s
ReportText(whole) == IF whole THEN FieldText(-ops') ELSE <<>>

\* AddReflected of a value that cannot be encoded: nothing is written.
AddReflectedError ==
    /\ InMap
    /\ Count
    /\ stack' = Report(stack, calls = <<>>)
    /\ doc' = doc \o ReportText(calls = <<>>)
    /\ UNCHANGED <<calls, phase, out, spaces>>

\* The marshaler starts, in a frame of its own on top of s.
Begin(s, kind, text) ==
    /\ stack' = OpenContainer(s, kind)
    /\ calls' = Append(calls, [kind |-> kind, depth |-> Len(s)])
    /\ spaces' = Append(spaces, 0)
    /\ doc' = doc \o text \o <<Open(kind)>>

\* Mutant: the cap is checked by AppendObject only, behind the key.
AddContainerKeyFirst(kind) ==
    /\ InMap
    /\ Count
    /\ \/ /\ Len(stack) >= MaxDepth
          /\ stack' = Report(addKey(stack, ops'), calls = <<>>)
          /\ doc' = doc \o ReportText(calls = <<>>)
          /\ UNCHANGED <<calls, spaces>>
       \/ /\ Len(stack) < MaxDepth
          /\ Begin(addKey(stack, ops'), kind, <<tok("key", ops')>>)
    /\ UNCHANGED <<phase, out>>

\* AddObject and AddArray, up to the call of the marshaler.
AddContainer(kind) ==
    /\ InMap
    /\ Count
    /\ \/ /\ Len(stack) >= MaxDepth
          /\ stack' = Report(stack, calls = <<>>)
          /\ doc' = doc \o ReportText(calls = <<>>)
          /\ UNCHANGED <<calls, spaces>>
       \/ /\ Len(stack) < MaxDepth
          /\ Begin(addKey(stack, ops'), kind, <<tok("key", ops')>>)
    /\ UNCHANGED <<phase, out>>

\* The Append methods of an array, AppendReflected included.
AppendScalar ==
    /\ InArray
    /\ Count
    /\ \E hook \in Hooks : stack' = hooked(stack, hook, ops')
    /\ doc' = Append(doc, tok("scalar", ops'))
    /\ UNCHANGED <<calls, phase, out, spaces>>

\* AppendObject and AppendArray on an element, up to the marshaler; at the
\* cap they return an error and the element is left out.
AppendContainer(kind) ==
    /\ InArray
    /\ Count
    /\ \/ Len(stack) >= MaxDepth /\ UNCHANGED <<stack, calls, spaces, doc>>
       \/ Len(stack) < MaxDepth /\ Begin(stack, kind, <<>>)
    /\ UNCHANGED <<phase, out>>

\* The marshaler returns, with an error or not: the namespaces it opened are
\* sealed into its container and the container into its parent; the error of
\* a whole field is reported by zap.
MarshalerReturns(err) ==
    /\ calls # <<>>
    /\ calls' = Front(calls)
    /\ spaces' = Front(spaces)
    /\ ops' = ops
    /\ stack' = LET d == Last(calls).depth
                IN  Report(sealDownTo(sealDownTo(stack, d + 1), d), err /\ Len(calls) = 1)
    /\ doc' = doc \o Closers(Last(spaces)) \o <<Close(Last(calls).kind)>>
                 \o ReportText(err /\ Len(calls) = 1)
    /\ UNCHANGED <<phase, out>>

\* EncodeEntry starts: its fields go to a copy of the With stack.
EncodeEntry ==
    /\ phase = "with"
    /\ calls = <<>>
    /\ phase' = "entry"
    /\ UNCHANGED <<stack, calls, ops, out, spaces, doc>>

\* An entry-level field: the key, then what its hook appends or the fallback.
envelopeField(s, hook) == hooked(addKey(s, 0), hook, 0)

\* The fields that the configuration asks for and the entry has.
writeEnvelope(hooks) ==
    LET written[n \in 0..Len(hooks)] ==
          IF n = 0 THEN <<emptyFrame("map")>> ELSE envelopeField(written[n - 1], hooks[n])
    IN  written[Len(hooks)][1]

\* The open namespaces are closed; the payload is the time and the record, the
\* envelope's fields and the fields under one header.
Assemble ==
    /\ phase = "entry"
    /\ calls = <<>>
    /\ phase' = "done"
    /\ \E n \in 0..MaxEnvelope : \E hooks \in [1..n -> Hooks] :
         LET final == sealDownTo(stack, 1)
             env   == writeEnvelope(hooks)
         IN  /\ out' = <<header("array", 2), tok("time", 0),
                         header("map", env.count + final[1].count)>> \o env.buf \o final[1].buf
             /\ doc' = <<Open("array"), tok("time", 0), Open("map")>>
                          \o FlattenSeq([i \in 1..n |-> FieldText(0)])
                          \o doc \o Closers(spaces[1]) \o <<Close("map"), Close("array")>>
    /\ UNCHANGED <<stack, calls, ops, spaces>>

RecNext ==
    \/ AddScalar \/ OpenNamespace \/ AddReflectedError \/ AppendScalar
    \/ \E kind \in {"map", "array"} : AddContainer(kind) \/ AppendContainer(kind)
    \/ \E err \in BOOLEAN : MarshalerReturns(err)
    \/ EncodeEntry \/ Assemble

RecSpec == RecInit /\ [][RecNext]_recVars

-----------------------------------------------------------------------------
(***************************************************************************)
(* A msgpack reader that writes what it reads with brackets.  For each     *)
(* open container it knows how many keys and values are to come.           *)
(***************************************************************************)
Consume(todo) == [todo EXCEPT ![Len(todo)].left = @ - 1]

Marks == {"key", "scalar", "time", "map", "array", "openMap", "openArray", "closeMap", "closeArray"}

Unwind[r \in [todo : Seq([kind : {"map", "array", "end"}, left : Int]),
             text : Seq([t : Marks, n : Int])]] ==
    IF Len(r.todo) <= 1 \/ Last(r.todo).left # 0 THEN r
    ELSE Unwind[[todo |-> Consume(Front(r.todo)), text |-> Append(r.text, Close(Last(r.todo).kind))]]

Read(r, token) ==
    CASE token.t = "map"   -> Unwind[[todo |-> Append(r.todo, [kind |-> "map", left |-> 2 * token.n]),
                                      text |-> Append(r.text, Open("map"))]]
      [] token.t = "array" -> Unwind[[todo |-> Append(r.todo, [kind |-> "array", left |-> token.n]),
                                      text |-> Append(r.text, Open("array"))]]
      [] OTHER             -> Unwind[[todo |-> Consume(r.todo), text |-> Append(r.text, token)]]

ReadAll(r, b) ==
    LET after[n \in 0..Len(b)] == IF n = 0 THEN r ELSE Read(after[n - 1], b[n])
    IN  after[Len(b)]

\* What the reader makes of the payload is what the application logged: every
\* field in the container, the namespace and the place where zap was told to
\* put it, every count right, whatever marshalers failed half way, hooks
\* stayed silent or nesting hit the cap; one value and nothing behind it
\* (sealDownTo, AppendObject, AppendArray, addKey, EncodeEntry).
MsgpackReadsBack ==
    phase = "done" =>
      ReadAll([todo |-> <<[kind |-> "end", left |-> 1]>>, text |-> <<>>], out)
        = [todo |-> <<[kind |-> "end", left |-> 0]>>, text |-> doc]

=============================================================================
