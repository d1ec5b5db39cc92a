-------------------------------- MODULE Blobs ---------------------------------
(***************************************************************************)
(* The bytes behind commands: an Environment stages a blob in its journal, *)
(* uploads it to the authority in chunks, and the authority promotes the   *)
(* verified product to a referenced one when a command that declares it    *)
(* succeeds.                                                               *)
(*                                                                         *)
(* Both stores keep rows in a database and bytes in files beside it.  A    *)
(* file is published before the row that names it is committed and is      *)
(* removed after the row is gone, and a process can stop between the two;  *)
(* every operation below has an outcome for that ("crash").  The store's   *)
(* mutex makes an operation atomic otherwise.  An answer can also be lost  *)
(* on its way ("lost").                                                    *)
(*                                                                         *)
(* A blob is a number (its digest, in digest order) of Size[b] bytes; the  *)
(* declared length is the true one, as the journal measures it.  A chunk   *)
(* is a run of bytes that are the blob's or not.                           *)
(***************************************************************************)
EXTENDS Integers, FiniteSets, Sequences, FiniteSetsExt, Functions

CONSTANTS
    Size,      \* [Blobs -> Nat \ {0}]
    Uploaders, \* connections that can upload
    Limit,     \* [Uploaders -> Nat \ {0}]: the negotiated chunk size
    Corrupt,   \* the Uploaders whose bytes are not the blob's
    MaxStaged, \* maxStagedBlobs
    MaxLog     \* bound: events of the authority's log

Blobs == DOMAIN Size

ASSUME BlobConstants ==
    /\ Blobs \subseteq Nat /\ IsFiniteSet(Blobs) /\ Size \in [Blobs -> Nat]
    /\ Limit \in [Uploaders -> Nat \ {0}]

VARIABLES
    events,   \* authority_events: the blobs each event's command declared, and if it bore a Matter
    refs,     \* blob_references: [blob -> first_position], a partial function
    products, \* blob_products and blob_chunks: a partial function
    files,    \* the authority's blob directory
    staged,   \* the journal's staged_blobs, per uploader
    local,    \* the journal's blob files, per uploader
    up        \* where each upload is

blobVars == <<events, refs, products, files, staged, local, up>>

Outcomes == {"answered", "lost", "crash"}
Idle == [pc |-> "idle"]
Chunk(b, at, size, good) == [blob |-> b, at |-> at, size |-> size, good |-> good]
ChunkFile(c) == <<"s", c>>
ProductFile(b) == <<"v", b>>

\* The rows f with one more, if there is none at x.
With(f, x, row) == [y \in DOMAIN f \cup {x} |-> IF y \in DOMAIN f THEN f[y] ELSE row]

\* verified_offset: where the contiguous chunks end.
Offset(p) == IF p.verified THEN p.length ELSE Max({c.at + c.size : c \in p.chunks} \cup {0})

InitBlobs ==
    /\ events = <<>>
    /\ refs = <<>>
    /\ products = <<>>
    /\ files = {}
    /\ staged = [u \in Uploaders |-> {}]
    /\ local = [u \in Uploaders |-> {}]
    /\ up = [u \in Uploaders |-> Idle]

------------------------------------------------------------------------------
(* The journal *)

\* Journal.StageBlob: the synced file is linked under its digest, then the row
\* is committed.  A file left by a crash is adopted by the next attempt.
StageBlob(u, b, crash) ==
    /\ up[u] = Idle
    /\ b \notin staged[u]
    /\ local' = [local EXCEPT ![u] = @ \cup {b}]
    /\ staged' = [staged EXCEPT ![u] = IF crash THEN @ ELSE @ \cup {b}]
    /\ UNCHANGED <<events, refs, products, files, up>>

\* Journal.OpenBlob, verifyCommandBlobs: a row, and a file that verifies.
OpenBlob(u, b) == b \in staged[u] \cap local[u]

\* The journal's checkBlobFiles, when it is opened: a file needs no row, every
\* row needs its file.
journalBlobFiles == \A u \in Uploaders : staged[u] \subseteq local[u]

------------------------------------------------------------------------------
(* The authority's store *)

\* Room for one more unreferenced product.
Room == Cardinality(DOMAIN products \ DOMAIN refs) < MaxStaged

\* Store.StartBlob: the row as it is, or a new one.
Startable(b) == b \in DOMAIN products \/ Room
Started(b) ==
    With(products, b, [length |-> Size[b], chunks |-> {}, verified |-> FALSE, expired |-> FALSE])

\* Store.StageBlobChunk: a repeated chunk must be the retained one; a new chunk
\* must start where the retained bytes end.
Repeats(c) == c \in products[c.blob].chunks
Extends(c) == c.at = Offset(products[c.blob])
Stageable(c) ==
    /\ c.blob \in DOMAIN products
    /\ ~products[c.blob].verified
    /\ Extends(c) \/ Repeats(c)

MutStageChunk(c, crash) ==
    /\ files' = IF crash THEN files ELSE files \cup {ChunkFile(c)}
    /\ products' = [products EXCEPT ![c.blob].chunks = @ \cup {c}]

\* durableChunk publishes the file before the transaction commits.
StageChunk(c, crash) ==
    /\ files' = files \cup {ChunkFile(c)}
    /\ products' = IF crash THEN products ELSE [products EXCEPT ![c.blob].chunks = @ \cup {c}]

\* Store.FinishBlob: hashChunks over the retained chunks, durableProduct, then
\* the transaction; a product that is short or has another digest is dropped
\* with its chunk rows (their files stay).
Hashes(b) == \A c \in products[b].chunks : c.good
Finishes(b) == Offset(products[b]) = Size[b] /\ Hashes(b)
FinishBlob(b, crash) ==
    \/ /\ products[b].verified
       /\ UNCHANGED <<products, files>>
    \/ /\ ~products[b].verified
       /\ Finishes(b)
       /\ files' = files \cup {ProductFile(b)}
       /\ products' = IF crash THEN products
                      ELSE [products EXCEPT ![b].verified = TRUE, ![b].chunks = {}]
    \/ /\ ~products[b].verified
       /\ ~Finishes(b)
       /\ products' = IF crash THEN products ELSE Restrict(products, DOMAIN products \ {b})
       /\ UNCHANGED files

\* promoteBlobsTx, in the terminal transaction of a command that declares the
\* blobs bs: each must be a verified product.
Promotable(bs) == \A b \in bs : b \in DOMAIN products /\ products[b].verified
CompleteCommand(bs, matter) ==
    /\ Len(events) < MaxLog
    /\ Promotable(bs)
    /\ events' = Append(events, [blobs |-> bs, matter |-> matter])
    /\ refs' = [b \in DOMAIN refs \cup bs |-> IF b \in DOMAIN refs THEN refs[b] ELSE Len(events) + 1]
    /\ UNCHANGED <<products, files, staged, local, up>>

\* stagingTTL passes.
ExpireProduct(b) ==
    /\ b \in DOMAIN products
    /\ ~products[b].expired
    /\ products' = [products EXCEPT ![b].expired = TRUE]
    /\ UNCHANGED <<events, refs, files, staged, local, up>>

\* checkBlobFiles, when the store is opened: a verified product has its file
\* and no chunk rows; the chunks of another are contiguous and have theirs.
Contiguous(p) == \A i \in 0..(Offset(p) - 1) :
                    Cardinality({c \in p.chunks : c.at <= i /\ i < c.at + c.size}) = 1
checkBlobFiles ==
    \A b \in DOMAIN products :
        LET p == products[b] IN
        IF p.verified
        THEN ProductFile(b) \in files /\ p.chunks = {}
        ELSE Contiguous(p) /\ \A c \in p.chunks : ChunkFile(c) \in files

------------------------------------------------------------------------------
(* CommandExchangeClient.UploadBlob, over serveBlobUpload *)

AllIdle == [u \in Uploaders |-> Idle]
Answer(u, o, next) ==
    up' = CASE o = "answered" -> [up EXCEPT ![u] = next]
            [] o = "lost" -> [up EXCEPT ![u] = Idle]
            [] o = "crash" -> AllIdle

\* blob.upload-start: available, or ready at the durable offset.
UploadStart(u, b, o) ==
    /\ up[u] = Idle
    /\ OpenBlob(u, b)
    /\ Startable(b)
    /\ products' = Started(b)
    /\ Answer(u, o, IF products'[b].verified THEN Idle
                    ELSE [pc |-> "send", blob |-> b, at |-> Offset(products'[b])])
    /\ UNCHANGED <<events, refs, files, staged, local>>

NextChunk(u) ==
    LET b == up[u].blob
    IN  Chunk(b, up[u].at, Min({Limit[u], Size[b] - up[u].at}), u \notin Corrupt)

\* blob.upload-chunk: the acknowledged offset must be the end of the chunk sent.
UploadChunk(u, o) ==
    LET c == NextChunk(u)
        b == c.blob
        acked(p) == IF Offset(p) = c.at + c.size
                    THEN [up[u] EXCEPT !.at = c.at + c.size]
                    ELSE Idle
    IN  /\ up[u].pc = "send"
        /\ up[u].at < Size[b]
        /\ \/ /\ Stageable(c)
              /\ IF Repeats(c) THEN UNCHANGED <<products, files>> ELSE StageChunk(c, o = "crash")
              /\ Answer(u, o, acked(products'[b]))
           \/ /\ ~Stageable(c)
              /\ Answer(u, o, Idle)
              /\ UNCHANGED <<products, files>>
        /\ UNCHANGED <<events, refs, staged, local>>

\* blob.upload-finish: StartBlob in a transaction of its own, which starts a
\* product that was collected anew and then reports it incomplete ...
UploadEnd(u, o) ==
    LET b == up[u].blob IN
    /\ up[u].pc = "send"
    /\ up[u].at = Size[b]
    /\ IF Startable(b)
       THEN /\ products' = Started(b)
            /\ Answer(u, o, IF Offset(products'[b]) = Size[b]
                            THEN [up[u] EXCEPT !.pc = "finish"] ELSE Idle)
       ELSE /\ Answer(u, o, Idle)
            /\ UNCHANGED products
    /\ UNCHANGED <<events, refs, files, staged, local>>

\* ... then FinishBlob in a second one.
UploadFinish(u, o) ==
    LET b == up[u].blob IN
    /\ up[u].pc = "finish"
    /\ IF b \in DOMAIN products
       THEN FinishBlob(b, o = "crash")
       ELSE UNCHANGED <<products, files>>
    /\ Answer(u, o, Idle)
    /\ UNCHANGED <<events, refs, staged, local>>

Upload(u, bs) ==
    \/ \E b \in bs, crash \in BOOLEAN : StageBlob(u, b, crash)
    \/ \E b \in bs, o \in Outcomes \ {"crash"} : UploadStart(u, b, o)
    \/ \E o \in Outcomes : UploadChunk(u, o) \/ UploadFinish(u, o)
    \/ \E o \in Outcomes \ {"crash"} : UploadEnd(u, o)
===============================================================================
