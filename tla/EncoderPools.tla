---------------------------- MODULE EncoderPools ----------------------------
(***************************************************************************)
(* Goroutines that log through one encoder at once, with the pooled        *)
(* buffers of the native Fluent encoder (src/fluent/msgpack_encoder.go)    *)
(* and of the OTLP encoder (src/otlp/attr.go, encoder.go).  Each           *)
(* EncodeEntry copies the stack of With, adds its fields to the copy and   *)
(* gives every buffer back.                                                *)
(*                                                                         *)
(* A buffer is a backing array.  sync.Pool may give any buffer it holds or *)
(* a new one.  An append of a field, of a sealed frame or to the record    *)
(* may move the contents to a new array; what goes into a buffer in the    *)
(* step that gets it, the key of a container and the error of a failed     *)
(* marshaler stay in place.  An array that goes to the pool, or that       *)
(* append leaves behind, is emptied at once, where the code cuts it to     *)
(* length zero when it comes out of the pool.                              *)
(***************************************************************************)
EXTENDS Integers, SequencesExt

CONSTANTS
    Goroutines,
    Buffers,      \* bound: the backing arrays that can be in use, numbered
    MaxAdds       \* bound: fields and namespaces of an entry

ASSUME PoolBounds ==
    Buffers \subseteq Nat /\ 1 \in Buffers /\ IsFiniteSet(Buffers) /\ MaxAdds \in Nat

VARIABLES
    encoder,  \* which of the encoders this is, "fluent" or "otlp"
    heap,     \* the contents of the backing arrays
    pool,     \* how often the pool holds each
    pc,       \* where a goroutine is in EncodeEntry
    frames,   \* the buffers of its working stack
    side,     \* env's buffer (Fluent); rec's (OTLP) and, once rec has left it, the
              \* one that the deferred putFrameBuf was given
    snaps,    \* the snapshots of marshalers under way: depth, length, fields written
    written,  \* history: the fields written and not rolled back
    record    \* what EncodeEntry returns

poolVars == <<encoder, heap, pool, pc, frames, side, snaps, written, record>>

\* The stack of the shared encoder, which EncodeEntry only reads: a frame with a
\* field of With.
base == <<1>>
With == <<<<<<"with", 1>>>>>>

\* The encoder apart.
PoolInit ==
    /\ heap = [b \in Buffers |-> IF b \in DOMAIN With THEN With[b] ELSE <<>>]
    /\ pool = [b \in Buffers |-> 0]
    /\ pc = [g \in Goroutines |-> "start"]
    /\ frames = [g \in Goroutines |-> <<>>]
    /\ side = [g \in Goroutines |-> <<>>]
    /\ snaps = [g \in Goroutines |-> <<>>]
    /\ written = [g \in Goroutines |-> <<>>]
    /\ record = [g \in Goroutines |-> <<>>]

-----------------------------------------------------------------------------
(***************************************************************************)
(* The pool and the heap.                                                  *)
(***************************************************************************)
InUse == ToSet(base) \cup UNION {ToSet(frames[g]) \cup ToSet(side[g]) : g \in Goroutines}

\* A new array is one that nobody refers to; of the new ones, and of those in
\* the pool that nobody refers to, any is as good as the first.
First(S) == IF S = {} THEN {} ELSE {Min(S)}
New      == First({b \in Buffers : b \notin InUse /\ pool[b] = 0})
Pooled   == {b \in Buffers : pool[b] > 0}

\* getBytes, getFrameBuf: the buffers it may return, and what is left.
Get      == New \cup First(Pooled \ InUse) \cup (Pooled \cap InUse)
taken(b) == [pool EXCEPT ![b] = IF @ > 0 THEN @ - 1 ELSE 0]

\* putBytes, putFrameBuf
given(bs)   == [b \in Buffers |-> pool[b] + Cardinality({i \in DOMAIN bs : bs[i] = b})]
without(bs) == [b \in Buffers |-> IF b \in ToSet(bs) THEN <<>> ELSE heap[b]]

\* append of tokens to buffer b: in place, or in a new array that takes the
\* contents along.
Appended(b, tokens, to) ==
    /\ to \in {b} \cup New
    /\ heap' = [heap EXCEPT ![b] = <<>>, ![to] = heap[b] \o tokens]

TopBuf(g) == Last(frames[g])
SetTop(g, b) == [frames EXCEPT ![g][Len(frames[g])] = b]
Field(g) == <<g, Len(written[g]) + 1>>

-----------------------------------------------------------------------------
\* EncodeEntry starts; the Fluent encoder writes the envelope first.
Start(g) ==
    /\ pc[g] = "start"
    /\ pc' = [pc EXCEPT ![g] = "clone"]
    /\ \/ /\ encoder = "otlp"
          /\ UNCHANGED <<heap, pool, side>>
       \/ /\ encoder = "fluent"
          /\ \E b \in Get :
               /\ pool' = taken(b)
               /\ side' = [side EXCEPT ![g] = <<b>>]
               /\ heap' = [heap EXCEPT ![b] = <<<<g, 0>>>>]
    /\ UNCHANGED <<encoder, frames, snaps, written, record>>

\* Mutant: the working stack starts as the persistent one.
CloneShared(g) ==
    /\ pc[g] = "clone"
    /\ pc' = [pc EXCEPT ![g] = "fields"]
    /\ frames' = [frames EXCEPT ![g] = base]
    /\ UNCHANGED <<encoder, heap, pool, side, snaps, written, record>>

\* cloneStack, clone: one frame after the other into a buffer of its own.
Clone(g) ==
    /\ pc[g] = "clone"
    /\ \E b \in Get :
         /\ pool' = taken(b)
         /\ heap' = [heap EXCEPT ![b] = heap[base[Len(frames[g]) + 1]]]
         /\ frames' = [frames EXCEPT ![g] = Append(@, b)]
    /\ pc' = [pc EXCEPT ![g] = IF Len(frames[g]) + 1 = Len(base) THEN "fields" ELSE "clone"]
    /\ UNCHANGED <<encoder, side, snaps, written, record>>

\* A field of the entry.
Add(g) ==
    /\ pc[g] = "fields"
    /\ Len(written[g]) < MaxAdds
    /\ \E to \in Buffers :
         /\ Appended(TopBuf(g), <<Field(g)>>, to)
         /\ frames' = SetTop(g, to)
    /\ written' = [written EXCEPT ![g] = Append(@, Field(g))]
    /\ UNCHANGED <<encoder, pool, pc, side, snaps, record>>

\* AddObject and AddArray: a frame on top for the marshaler; the key is written
\* before it (Fluent) or kept with it.  The OTLP encoder takes a snapshot.
OpenFrame(g) ==
    /\ pc[g] = "fields"
    /\ Len(written[g]) < MaxAdds /\ Len(frames[g]) < Len(base) + 1
    /\ \E b \in Get :
         /\ pool' = taken(b)
         /\ heap' = IF encoder = "fluent"
                      THEN [heap EXCEPT ![TopBuf(g)] = Append(@, Field(g)), ![b] = <<>>]
                      ELSE [heap EXCEPT ![b] = <<Field(g)>>]
         /\ frames' = [frames EXCEPT ![g] = Append(@, b)]
    /\ snaps' = [snaps EXCEPT ![g] =
         Append(@, [depth |-> Len(frames[g]), bufLen |-> Len(heap[TopBuf(g)]), fields |-> written[g]])]
    /\ written' = [written EXCEPT ![g] = Append(@, Field(g))]
    /\ UNCHANGED <<encoder, pc, side, record>>

\* The marshaler fails and rollback takes all it wrote away: the frames above
\* the snapshot go back, the rest is cut off; the error becomes a field.
Rollback(g) ==
    /\ encoder = "otlp"
    /\ pc[g] = "fields"
    /\ snaps[g] # <<>>
    /\ LET sn   == Last(snaps[g])
           kept == SubSeq(frames[g], 1, sn.depth)
       IN  /\ frames' = [frames EXCEPT ![g] = kept]
           /\ pool' = given(SubSeq(frames[g], sn.depth + 1, Len(frames[g])))
           /\ heap' = [without(SubSeq(frames[g], sn.depth + 1, Len(frames[g])))
                         EXCEPT ![Last(kept)] = Append(SubSeq(@, 1, sn.bufLen), <<g, -1>>)]
           /\ written' = [written EXCEPT ![g] = Append(sn.fields, <<g, -1>>)]
    /\ snaps' = [snaps EXCEPT ![g] = Front(@)]
    /\ UNCHANGED <<encoder, pc, side, record>>

\* The marshaler returns, or all fields are added: the top frame is to go.
EndFrame(g) ==
    /\ pc[g] = "fields"
    /\ \/ snaps[g] # <<>> /\ pc' = [pc EXCEPT ![g] = "seal"]
       \/ snaps[g] = <<>> /\ pc' = [pc EXCEPT ![g] = "sealAll"]
    /\ snaps' = [snaps EXCEPT ![g] = IF @ = <<>> THEN <<>> ELSE Front(@)]
    /\ UNCHANGED <<encoder, heap, pool, frames, side, written, record>>

\* Mutant: the buffer goes back before its contents are read.
SealRecyclesFirst(g) ==
    /\ pc[g] \in {"seal", "sealAll"}
    /\ Len(frames[g]) > 1
    /\ pool' = given(<<TopBuf(g)>>)
    /\ pc' = [pc EXCEPT ![g] = IF @ = "seal" THEN "recycle" ELSE "recycleAll"]
    /\ UNCHANGED <<encoder, heap, frames, side, snaps, written, record>>

\* sealDownTo, sealTop: the contents go to the frame below, then the buffer
\* back to the pool.
Seal(g) ==
    /\ pc[g] \in {"seal", "sealAll"}
    /\ Len(frames[g]) > 1
    /\ \E to \in Buffers :
         /\ Appended(frames[g][Len(frames[g]) - 1], heap[TopBuf(g)], to)
         /\ frames' = [frames EXCEPT ![g][Len(frames[g]) - 1] = to]
    /\ pc' = [pc EXCEPT ![g] = IF @ = "seal" THEN "recycle" ELSE "recycleAll"]
    /\ UNCHANGED <<encoder, pool, side, snaps, written, record>>

Recycle(g) ==
    /\ pc[g] \in {"recycle", "recycleAll"}
    /\ pool' = given(<<TopBuf(g)>>)
    /\ heap' = without(<<TopBuf(g)>>)
    /\ frames' = [frames EXCEPT ![g] = Front(@)]
    /\ pc' = [pc EXCEPT ![g] = IF @ = "recycle" THEN "fields" ELSE "sealAll"]
    /\ UNCHANGED <<encoder, side, snaps, written, record>>

-----------------------------------------------------------------------------
(***************************************************************************)
(* The OTLP encoder puts the record together in rec.  The deferred call of *)
(* putFrameBuf gets the array that rec has when it is deferred, whichever  *)
(* rec has in the end; those that rec has in between nobody refers to.     *)
(***************************************************************************)
\* rec := getFrameBuf(); defer putFrameBuf(rec)
TakeRec(g) ==
    /\ encoder = "otlp"
    /\ pc[g] = "sealAll" /\ Len(frames[g]) = 1
    /\ \E b \in Get :
         /\ pool' = taken(b)
         /\ side' = [side EXCEPT ![g] = <<b>>]
         /\ heap' = [heap EXCEPT ![b] = <<>>]
    /\ pc' = [pc EXCEPT ![g] = "rec"]
    /\ UNCHANGED <<encoder, frames, snaps, written, record>>

\* Mutant: an array that rec leaves goes to the pool, as if the deferred call
\* were given the one that rec has in the end.
AppendRecRecycles(g) ==
    /\ pc[g] = "rec"
    /\ \E to \in Buffers :
         /\ Appended(side[g][1], <<<<g, 0>>>> \o heap[frames[g][1]], to)
         /\ side' = [side EXCEPT ![g] = IF to = @[1] THEN @ ELSE <<to, Last(@)>>]
         /\ pool' = IF to = side[g][1] THEN pool ELSE given(<<side[g][1]>>)
    /\ pc' = [pc EXCEPT ![g] = "copy"]
    /\ UNCHANGED <<encoder, frames, snaps, written, record>>

\* rec = append(rec, ...): the entry, then the attributes of the root frame.
AppendRec(g) ==
    /\ pc[g] = "rec"
    /\ \E to \in Buffers :
         /\ Appended(side[g][1], <<<<g, 0>>>> \o heap[frames[g][1]], to)
         /\ side' = [side EXCEPT ![g] = IF to = @[1] THEN @ ELSE <<to, Last(@)>>]
    /\ pc' = [pc EXCEPT ![g] = "copy"]
    /\ UNCHANGED <<encoder, pool, frames, snaps, written, record>>

-----------------------------------------------------------------------------
\* The record is copied into a buffer of zap's.
AssembleRecord(g) ==
    /\ \/ /\ encoder = "otlp"
          /\ pc[g] = "copy"
          /\ record' = [record EXCEPT ![g] = heap[side[g][1]]]
       \/ /\ encoder = "fluent"
          /\ pc[g] = "sealAll" /\ Len(frames[g]) = 1
          /\ record' = [record EXCEPT ![g] = heap[side[g][1]] \o heap[frames[g][1]]]
    /\ pc' = [pc EXCEPT ![g] = "put"]
    /\ UNCHANGED <<encoder, heap, pool, frames, side, snaps, written>>

\* putEncoder twice, or the deferred putFrameBuf and free.
Put(g) ==
    /\ pc[g] = "put"
    /\ pool' = given(Append(frames[g], Last(side[g])))
    /\ heap' = without(frames[g] \o side[g])
    /\ frames' = [frames EXCEPT ![g] = <<>>]
    /\ side' = [side EXCEPT ![g] = <<>>]
    /\ pc' = [pc EXCEPT ![g] = "done"]
    /\ UNCHANGED <<encoder, snaps, written, record>>

PoolNext ==
    \/ \E g \in Goroutines :
         \/ Start(g) \/ Clone(g) \/ Add(g) \/ OpenFrame(g) \/ Rollback(g) \/ EndFrame(g)
         \/ Seal(g) \/ Recycle(g) \/ TakeRec(g) \/ AppendRec(g) \/ AssembleRecord(g) \/ Put(g)

PoolSpec == encoder \in {"fluent", "otlp"} /\ PoolInit /\ [][PoolNext]_poolVars

-----------------------------------------------------------------------------
\* Nobody writes to a buffer that somebody else may read or write: the pool
\* holds no buffer twice and none that a frame, an envelope or a record refers
\* to or that a deferred call will give it, two of these never share one, and
\* those of the shared encoder keep what With wrote (getBytes, putBytes,
\* cloneStack, sealDownTo, rollback, free, the deferred putFrameBuf of rec).
BufferOwnedOnce ==
    /\ \A b \in Buffers :
         pool[b] + (IF b \in ToSet(base) THEN 1 ELSE 0)
           + Cardinality({r \in Goroutines \X (1..(Len(base) + 2)) :
                            /\ r[2] \in DOMAIN (frames[r[1]] \o side[r[1]])
                            /\ (frames[r[1]] \o side[r[1]])[r[2]] = b}) <= 1
    /\ \A i \in DOMAIN base : heap[base[i]] = With[i]

\* The record of a goroutine holds its own envelope, the fields of With and its
\* own fields in order, nothing of another goroutine's, and nothing of what a
\* failed marshaler wrote (EncodeEntry).
RecordsUnmixed ==
    \A g \in Goroutines :
      pc[g] \in {"put", "done"} =>
        record[g] = <<<<g, 0>>>> \o FlattenSeq(With) \o written[g]

=============================================================================
