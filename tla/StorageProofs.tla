---------------------------- MODULE StorageProofs ----------------------------
(***************************************************************************)
(* That the stores' rows, files and logs agree, that what is referenced     *)
(* can be read, that transfers are exact and that a client's file only      *)
(* grows, for any number of blobs, uploaders, clients and snapshots.        *)
(***************************************************************************)
EXTENDS Storage, SequenceTheorems, FiniteSetTheorems, TLAPS


-----------------------------------------------------------------------------
(* Storage.  The blobs that the first n events of a log declared: every manifest, of a *)
(* snapshot, a session or a file, is this set for some n.                   *)
Named(es, n) == UNION {es[i].blobs : i \in 1 .. n}
Born(es, n) == {i \in 1 .. n : es[i].matter}

Events == [blobs : SUBSET Blobs, matter : BOOLEAN]
Chunks == [blob : Blobs, at : Nat, size : Nat \ {0}, good : BOOLEAN]
Products == [length : Nat, chunks : SUBSET Chunks, verified : BOOLEAN, expired : BOOLEAN]
Sending == [pc : {"send", "finish"}, blob : Blobs, at : Nat]

BlobTypes ==
  /\ events \in Seq(Events)
  /\ DOMAIN refs \subseteq Blobs
  /\ up \in [Uploaders -> {Idle} \cup Sending]
  /\ staged \in [Uploaders -> SUBSET Blobs] /\ local \in [Uploaders -> SUBSET Blobs]

(* The chunks cs cover the bytes before e, each once, and no other.         *)
Over(cs, i) == {c \in cs : c.at <= i /\ i < c.at + c.size}
Tiled(cs, e) ==
  /\ e \in Nat
  /\ \A c \in cs : c.at + c.size <= e
  /\ e = 0 \/ \E c \in cs : c.at + c.size = e
  /\ \A i \in 0 .. e - 1 : \E c \in cs : Over(cs, i) = {c}

(* A product is verified and has its file, or the chunks of its rows have   *)
(* theirs and tile what is there of it.                                     *)
Backed(b, p, fs) ==
  /\ p.verified => ProductFile(b) \in fs /\ p.chunks = {}
  /\ ~p.verified => Tiled(p.chunks, Offset(p)) /\ \A c \in p.chunks : ChunkFile(c) \in fs
Rows(ps, fs) ==
  /\ DOMAIN ps \subseteq Blobs /\ ps \in [DOMAIN ps -> Products]
  /\ \A b \in DOMAIN ps : Backed(b, ps[b], fs)

JournalInv == \A u \in Uploaders : staged[u] \subseteq local[u]

(* A reference is to the first event that declares the blob.                *)
RefInv ==
  /\ \A b \in DOMAIN refs : /\ refs[b] \in 1 .. Len(events) /\ b \in events[refs[b]].blobs
                            /\ b \in DOMAIN products /\ products[b].verified
  /\ \A i \in 1 .. Len(events) : \A b \in events[i].blobs : b \in DOMAIN refs /\ refs[b] <= i

BlobInv == BlobTypes /\ Rows(products, files) /\ JournalInv /\ RefInv

(* Snapshots and transfers agree with the log, however it has grown since.  *)
Pinned(s, es) ==
  /\ s \in [end : Nat, manifest : SUBSET Blobs, items : SUBSET Nat, expired : BOOLEAN]
  /\ s.end <= Len(es) /\ s.manifest = Named(es, s.end) /\ s.items = Born(es, s.end)

(* A boundary of the transfer of n events and m entries.                    *)
Boundaries(n, m, t) ==
  /\ t.event \in 0 .. n /\ t.entry \in 0 .. m
  /\ t.entry > 0 => t.event = n
Carried(t, s) ==
  /\ t \in [start : Nat, event : Nat, entry : Nat]
  /\ t.start <= s.end
  /\ Boundaries(s.end - t.start, Cardinality(s.manifest), t)

SnapInv ==
  /\ pins \in Nat
  /\ DOMAIN snaps \subseteq 1 .. pins /\ DOMAIN transfers \subseteq DOMAIN snaps
  /\ \A i \in DOMAIN snaps : Pinned(snaps[i], events)
  /\ \A i \in DOMAIN transfers : Carried(transfers[i], snaps[i])

(* A client's file is a prefix of the log with its manifest, and so is what *)
(* each process starts from and what it is about to install.                *)
Prefix(fs, bs, es) ==
  /\ fs \in Seq(Events) /\ Len(fs) <= Len(es)
  /\ \A i \in 1 .. Len(fs) : fs[i] = es[i]
  /\ bs = Named(es, Len(fs))
Installable(f, es) ==
  /\ f \in [events : Seq(Events), manifest : SUBSET Blobs, absent : BOOLEAN]
  /\ Prefix(f.events, f.manifest, es)
  /\ f.absent => f.events = <<>>
Session(s, es) ==
  \/ s.pc \in {"idle", "clean"}
  \/ s.pc \in {"ask", "count"} /\ Installable(s.base, es)
  \/ /\ s = [pc |-> s.pc, base |-> s.base, id |-> s.id, whole |-> s.whole, delta |-> s.delta, manifest |-> s.manifest]
     /\ s.pc \in {"built", "received"} /\ Installable(s.base, es)
     /\ s.delta \in Seq(Events) /\ Prefix(s.base.events \o s.delta, s.manifest, es)
ClientInv ==
  /\ Installable(file, events)
  /\ DOMAIN sess = Clients /\ \A c \in Clients : Session(sess[c], events)

(* The i-th boundary of the transfer r of a prefix with the blobs bs.       *)
Item(r, bs, i) ==
  IF i <= r.end - r.start THEN <<"event", r.start + i>>
  ELSE IF i <= r.end - r.start + Cardinality(bs) THEN <<"entry", Ordered(bs)[i - (r.end - r.start)]>>
  ELSE <<"complete", r.end>>
Final(r, bs) == r.end - r.start + Cardinality(bs)
Pos(t) == t.event + t.entry
At(r, bs, t) == t \in [id : {r.id}, event : Nat, entry : Nat] /\ Boundaries(r.end - r.start, Cardinality(bs), t)
Had(r, bs) == IF r.done THEN Final(r, bs) + 1 ELSE IF r.taken = <<>> THEN Pos(r.token) ELSE Pos(r.token) + 1

(* The receiver has the boundaries up to its token, and the one it took; the *)
(* stored progress s is level with the token or, when an answer was lost, one *)
(* boundary ahead; no acknowledgment sent before can move it.               *)
Received(r, bs) ==
  /\ At(r, bs, r.token) /\ \A t \in r.acked : At(r, bs, t)
  /\ r.done \in BOOLEAN
  /\ r.got = [i \in 1 .. Had(r, bs) |-> Item(r, bs, i)]
  /\ r.taken # <<>> => r.taken = Item(r, bs, Pos(r.token) + 1) /\ ~r.done
Level(r, bs, s) ==
  /\ s.start = r.start
  /\ Pos(s) = Pos(r.token) \/ (Pos(s) = Pos(r.token) + 1 /\ r.taken # <<>>)
  /\ \A t \in r.acked : Pos(t) < Pos(s) \/ Pos(t) = Final(r, bs)
Receiver(r) ==
  /\ r = [id |-> r.id, start |-> r.start, end |-> r.end, token |-> r.token, got |-> r.got, taken |-> r.taken,
          acked |-> r.acked, done |-> r.done]
  /\ r.id \in Nat \ {0} /\ r.start \in Nat /\ r.end \in Nat /\ r.start <= r.end
RxInv ==
  \/ rx = NoTransfer
  \/ /\ Receiver(rx) /\ rx.id <= pins /\ rx.end <= Len(events)
     /\ Received(rx, Named(events, rx.end))
     /\ rx.id \in DOMAIN transfers => /\ snaps[rx.id].end = rx.end
                                      /\ Level(rx, Named(events, rx.end), transfers[rx.id])

StorageInv == BlobInv /\ SnapInv /\ ClientInv /\ RxInv

(* The largest of a set, when one is known.                                 *)
LEMMA MaxIs ==
  ASSUME NEW S, NEW e \in S, e \in Int, \A x \in S : x \in Int /\ x <= e
  PROVE  Max(S) = e
<1>1. \A y \in S : e >= y OBVIOUS
<1>2. Max(S) \in S /\ \A y \in S : Max(S) >= y BY <1>1 DEF Max
<1>3. Max(S) \in Int /\ Max(S) <= e /\ Max(S) >= e BY <1>2
<1> QED BY <1>3

(* The size of a chunk is the smaller of the negotiated limit and what is   *)
(* left.                                                                    *)
LEMMA MinOfTwo ==
  ASSUME NEW a \in Nat \ {0}, NEW b \in Nat \ {0}
  PROVE  Min({a, b}) \in Nat \ {0}
<1>1. \E x \in {a, b} : \A y \in {a, b} : x <= y
  <2>1. CASE a <= b BY <2>1
  <2>2. CASE b <= a BY <2>2
  <2> QED BY <2>1, <2>2
<1> QED BY <1>1 DEF Min

(* Where tiling chunks end is the offset that is computed from them, and a  *)
(* chunk that begins there tiles on (StageBlobChunk).                       *)
LEMMA TiledEnds ==
  ASSUME NEW cs \in SUBSET Chunks, NEW e, Tiled(cs, e)
  PROVE  Max({c.at + c.size : c \in cs} \cup {0}) = e
<1>1. e \in Nat /\ \A c \in cs : c.at + c.size <= e /\ c.at + c.size \in Int BY DEF Tiled, Chunks
<1>2. PICK S : S = {c.at + c.size : c \in cs} \cup {0} OBVIOUS
<1>3. e \in S BY <1>2 DEF Tiled
<1>4. e \in Int /\ \A x \in S : x \in Int /\ x <= e BY <1>1, <1>2
<1> QED BY <1>2, <1>3, <1>4, MaxIs

(* A chunk that starts where the retained bytes end continues the tiling.   *)
LEMMA TiledOn ==
  ASSUME NEW cs \in SUBSET Chunks, NEW e, Tiled(cs, e), NEW c \in Chunks, c.at = e
  PROVE  Tiled(cs \cup {c}, e + c.size)
<1>1. e \in Nat /\ c.size \in Nat \ {0} /\ \A d \in cs : d.at \in Nat /\ d.size \in Nat /\ d.at + d.size <= e
  BY DEF Tiled, Chunks
<1>2. PICK f : f = e + c.size OBVIOUS
<1>3. f \in Nat /\ f > e /\ c.at + c.size = f BY <1>1, <1>2
<1>4. ASSUME NEW i \in 0 .. f - 1 PROVE \E d \in cs \cup {c} : Over(cs \cup {c}, i) = {d}
  <2>1. CASE i < e
    <3>1. i \in 0 .. e - 1 /\ ~(c.at <= i) BY <1>1, <1>4, <2>1
    <3>2. PICK d \in cs : Over(cs, i) = {d} BY <3>1 DEF Tiled
    <3>3. Over(cs \cup {c}, i) = Over(cs, i) BY <3>1 DEF Over
    <3> QED BY <3>2, <3>3
  <2>2. CASE i >= e
    <3>1. \A d \in cs : ~(i < d.at + d.size) BY <1>1, <1>4, <2>2
    <3>2. c.at <= i /\ i < c.at + c.size BY <1>3, <1>4, <2>2
    <3>3. Over(cs \cup {c}, i) = {c} BY <3>1, <3>2 DEF Over
    <3> QED BY <3>3
  <2>3. i < e \/ i >= e
    <3>1. i \in Int /\ e \in Int BY <1>1, <1>3, <1>4
    <3> QED BY <3>1
  <2> QED BY <2>1, <2>2, <2>3
<1>5. \A d \in cs \cup {c} : d.at + d.size <= f BY <1>1, <1>3
<1> QED BY <1>2, <1>3, <1>4, <1>5 DEF Tiled

(* The rows of products that stay as references need them.                  *)
Keeps(ps) == \A b \in DOMAIN refs : b \in DOMAIN products /\ products[b].verified => b \in DOMAIN ps /\ ps[b].verified

(* A row of the products is a product.                                      *)
LEMMA RowIn ==
  ASSUME NEW ps, NEW fs, Rows(ps, fs), NEW b \in DOMAIN ps
  PROVE  /\ b \in Blobs /\ ps[b] \in Products /\ Backed(b, ps[b], fs)
         /\ ps[b].length \in Nat /\ ps[b].chunks \in SUBSET Chunks /\ ps[b].verified \in BOOLEAN
         /\ ps[b].expired \in BOOLEAN /\ Offset(ps[b]) \in Nat
<1>1. b \in Blobs /\ ps[b] \in Products /\ Backed(b, ps[b], fs) BY DEF Rows
<1>2. /\ ps[b].length \in Nat /\ ps[b].chunks \in SUBSET Chunks /\ ps[b].verified \in BOOLEAN
      /\ ps[b].expired \in BOOLEAN
  BY <1>1 DEF Products
<1>3. Offset(ps[b]) \in Nat
  <2>1. CASE ps[b].verified BY <1>2, <2>1 DEF Offset
  <2>2. CASE ~ps[b].verified BY <1>1, <2>2 DEF Backed, Tiled
  <2> QED BY <2>1, <2>2
<1> QED BY <1>1, <1>2, <1>3

(* More files keep every row backed, and a row that is unchanged.           *)
LEMMA BackedMore ==
  ASSUME NEW b, NEW p, NEW fs, NEW gs, Backed(b, p, fs), fs \subseteq gs
  PROVE  Backed(b, p, gs)
BY DEF Backed

(* Publishing a file (durableChunk, durableProduct) takes no row's file     *)
(* away.                                                                    *)
LEMMA RowsMore ==
  ASSUME NEW ps, NEW fs, NEW gs, Rows(ps, fs), fs \subseteq gs
  PROVE  Rows(ps, gs)
BY BackedMore DEF Rows

(* One row that changes, or a new one.                                      *)
LEMMA RowsPut ==
  ASSUME NEW fs, NEW gs, Rows(products, fs), fs \subseteq gs, NEW b \in Blobs, NEW p \in Products, Backed(b, p, gs),
         NEW ps, DOMAIN ps = DOMAIN products \cup {b}, ps = [x \in DOMAIN ps |-> IF x = b THEN p ELSE products[x]],
         b \in DOMAIN products /\ products[b].verified => p.verified
  PROVE  Rows(ps, gs) /\ Keeps(ps)
<1>1. \A x \in DOMAIN ps : ps[x] = IF x = b THEN p ELSE products[x] OBVIOUS
<1>2. DOMAIN ps \subseteq Blobs BY DEF Rows
<1>3. \A x \in DOMAIN ps : ps[x] \in Products BY <1>1 DEF Rows
<1>4. \A x \in DOMAIN ps : Backed(x, ps[x], gs)
  <2> SUFFICES ASSUME NEW x \in DOMAIN ps PROVE Backed(x, ps[x], gs) OBVIOUS
  <2>1. CASE x = b BY <1>1, <2>1
  <2>2. CASE x # b BY <1>1, <2>2, BackedMore DEF Rows
  <2> QED BY <2>1, <2>2
<1>5. ps \in [DOMAIN ps -> Products] BY <1>3
<1> QED BY <1>1, <1>2, <1>4, <1>5 DEF Rows, Keeps

(* StartBlob.                                                               *)
LEMMA StartRows ==
  ASSUME Rows(products, files), NEW b \in Blobs
  PROVE  Rows(Started(b), files) /\ Keeps(Started(b)) /\ b \in DOMAIN Started(b)
<1>1. CASE b \in DOMAIN products
  <2>1. PICK r : r = [length |-> Size[b], chunks |-> {}, verified |-> FALSE, expired |-> FALSE] OBVIOUS
  <2>2. Started(b) = With(products, b, r) BY <2>1 DEF Started
  <2>3. products = [x \in DOMAIN products |-> products[x]] BY DEF Rows
  <2>4. DOMAIN products \cup {b} = DOMAIN products BY <1>1
  <2>5. With(products, b, r) = products BY <2>3, <2>4 DEF With
  <2> QED BY <1>1, <2>2, <2>5 DEF Keeps
<1>2. CASE b \notin DOMAIN products
  <2>1. PICK p : p = [length |-> Size[b], chunks |-> {}, verified |-> FALSE, expired |-> FALSE] OBVIOUS
  <2>2. p \in Products /\ p.chunks = {} /\ p.verified = FALSE BY <2>1, BlobConstants DEF Products
  <2>3. Tiled({}, 0) BY DEF Tiled
  <2>4. Offset(p) = 0
    <3>1. Max({c.at + c.size : c \in {}} \cup {0}) = 0 BY <2>3, TiledEnds
    <3> QED BY <2>2, <3>1 DEF Offset
  <2>5. Backed(b, p, files) BY <2>2, <2>3, <2>4 DEF Backed
  <2>6. Started(b) = With(products, b, p) BY <2>1 DEF Started
  <2>7. PICK ps : ps = Started(b) OBVIOUS
  <2>8. DOMAIN ps = DOMAIN products \cup {b} /\ ps = [x \in DOMAIN ps |-> IF x = b THEN p ELSE products[x]]
    BY <1>2, <2>6, <2>7 DEF With
  <2> QED BY <1>2, <2>2, <2>5, <2>7, <2>8, RowsPut
<1> QED BY <1>1, <1>2

(* StageBlobChunk: a chunk where the retained bytes end.                    *)
LEMMA ChunkRows ==
  ASSUME Rows(products, files), NEW c \in Chunks, Stageable(c), ~Repeats(c), NEW crash \in BOOLEAN, StageChunk(c, crash)
  PROVE  Rows(products', files') /\ Keeps(products') /\ c.blob \in DOMAIN products'
<1>1. PICK b : b = c.blob OBVIOUS
<1>2. PICK p : p = products[b] OBVIOUS
<1>3. b \in DOMAIN products /\ ~p.verified /\ c.at = Offset(p) BY <1>1, <1>2 DEF Stageable, Extends
<1>4. b \in Blobs /\ p \in Products /\ p.chunks \in SUBSET Chunks /\ p.verified = FALSE /\ Backed(b, p, files)
  BY <1>2, <1>3, RowIn
<1>5. files' = files \cup {ChunkFile(c)} BY DEF StageChunk
<1>6. CASE products' = products
  BY <1>1, <1>3, <1>5, <1>6, RowsMore DEF Keeps
<1>7. CASE products' = [products EXCEPT ![c.blob].chunks = @ \cup {c}]
  <2>1. PICK q : q = [p EXCEPT !.chunks = @ \cup {c}] OBVIOUS
  <2>2. q \in Products /\ q.chunks = p.chunks \cup {c} /\ q.verified = FALSE BY <1>4, <2>1 DEF Products
  <2>3. PICK ps : ps = products' OBVIOUS
  <2>4. DOMAIN ps = DOMAIN products \cup {b} /\ ps = [x \in DOMAIN ps |-> IF x = b THEN q ELSE products[x]]
    BY <1>1, <1>2, <1>3, <1>7, <2>1, <2>3
  <2>5. Tiled(p.chunks, Offset(p)) /\ \A d \in p.chunks : ChunkFile(d) \in files BY <1>3, <1>4 DEF Backed
  <2>6. Tiled(q.chunks, Offset(p) + c.size) BY <1>3, <1>4, <2>2, <2>5, TiledOn
  <2>7. q.chunks \in SUBSET Chunks BY <1>4, <2>2
  <2>8. Offset(q) = Offset(p) + c.size BY <2>2, <2>6, <2>7, TiledEnds DEF Offset
  <2>9. \A d \in q.chunks : ChunkFile(d) \in files' BY <1>5, <2>2, <2>5
  <2>10. Backed(b, q, files') BY <2>2, <2>6, <2>8, <2>9 DEF Backed
  <2>11. Rows(ps, files') /\ Keeps(ps) BY <1>3, <1>4, <1>2, <1>5, <2>2, <2>4, <2>10, RowsPut
  <2> QED BY <1>1, <2>3, <2>4, <2>11
<1> QED BY <1>6, <1>7 DEF StageChunk

(* FinishBlob: verified, published or dropped.                              *)
LEMMA FinishRows ==
  ASSUME Rows(products, files), NEW b \in DOMAIN products, NEW crash \in BOOLEAN, FinishBlob(b, crash)
  PROVE  Rows(products', files') /\ Keeps(products')
<1>1. PICK p : p = products[b] OBVIOUS
<1>2. b \in Blobs /\ p \in Products /\ p.verified \in BOOLEAN BY <1>1, RowIn
<1>3. files \subseteq files' BY DEF FinishBlob
<1>4. CASE products' = products
  BY <1>3, <1>4, RowsMore DEF Keeps
<1>5. CASE /\ files' = files \cup {ProductFile(b)}
           /\ products' = [products EXCEPT ![b].verified = TRUE, ![b].chunks = {}]
  <2>1. PICK q : q = [[p EXCEPT !.verified = TRUE] EXCEPT !.chunks = {}] OBVIOUS
  <2>2. q \in Products /\ q.chunks = {} /\ q.verified = TRUE BY <1>2, <2>1 DEF Products
  <2>3. PICK ps : ps = products' OBVIOUS
  <2>4. DOMAIN ps = DOMAIN products \cup {b} /\ ps = [x \in DOMAIN ps |-> IF x = b THEN q ELSE products[x]]
    BY <1>1, <1>5, <2>1, <2>3
  <2>5. Backed(b, q, files') BY <1>5, <2>2 DEF Backed
  <2> QED BY <1>2, <1>3, <2>2, <2>3, <2>4, <2>5, RowsPut
<1>6. CASE ~p.verified /\ products' = Restrict(products, DOMAIN products \ {b})
  <2>1. PICK ps : ps = products' OBVIOUS
  <2>2. DOMAIN ps = DOMAIN products \ {b} /\ \A x \in DOMAIN ps : ps[x] = products[x] BY <1>6, <2>1 DEF Restrict
  <2>3. ps \in [DOMAIN ps -> Products] BY <1>6, <2>1, <2>2 DEF Restrict, Rows
  <2>4. Rows(ps, files') BY <1>3, <2>2, <2>3, BackedMore DEF Rows
  <2>5. Keeps(ps) BY <1>1, <1>6, <2>2 DEF Keeps
  <2> QED BY <2>1, <2>4, <2>5
<1> QED BY <1>1, <1>4, <1>5, <1>6 DEF FinishBlob

(* Where an upload is after an answer, a lost answer or a stop.             *)
LEMMA AnswerTypes ==
  ASSUME up \in [Uploaders -> {Idle} \cup Sending], NEW u \in Uploaders, NEW o \in Outcomes,
         NEW s \in {Idle} \cup Sending, Answer(u, o, s)
  PROVE  up' \in [Uploaders -> {Idle} \cup Sending]
BY DEF Answer, AllIdle, Outcomes

(* The chunk an upload sends next is a chunk of its blob.                   *)
LEMMA NextChunkIn ==
  ASSUME BlobTypes, NEW u \in Uploaders, up[u] \in Sending, up[u].at < Size[up[u].blob]
  PROVE  NextChunk(u) \in Chunks /\ NextChunk(u).blob = up[u].blob
         /\ NextChunk(u).at + NextChunk(u).size \in Nat
<1>1. PICK b, at : b = up[u].blob /\ at = up[u].at OBVIOUS
<1>2. b \in Blobs /\ at \in Nat BY <1>1 DEF Sending
<1>3. Limit[u] \in Nat \ {0} /\ Size[b] - at \in Nat \ {0} BY <1>1, <1>2, BlobConstants
<1>4. PICK m : m = Min({Limit[u], Size[b] - at}) OBVIOUS
<1>5. m \in Nat \ {0} BY <1>3, <1>4, MinOfTwo
<1>6. PICK g \in BOOLEAN : g = (u \notin Corrupt) OBVIOUS
<1>7. NextChunk(u) = [blob |-> b, at |-> at, size |-> m, good |-> g] BY <1>1, <1>4, <1>6 DEF NextChunk, Chunk
<1> QED BY <1>1, <1>2, <1>5, <1>6, <1>7 DEF Chunks

(* A step that changes products and uploads only.                           *)
LEMMA BlobStep ==
  ASSUME BlobInv, UNCHANGED <<events, refs, staged, local>>, Rows(products', files'), Keeps(products'),
         up' \in [Uploaders -> {Idle} \cup Sending]
  PROVE  BlobInv'
<1> USE DEF BlobInv
<1>1. BlobTypes' BY DEF BlobTypes
<1>2. JournalInv' BY DEF JournalInv
<1>3. RefInv' BY DEF RefInv, Keeps
<1>4. Rows(products, files)' OBVIOUS
<1> QED BY <1>1, <1>2, <1>3, <1>4

(* Every step of an upload (StageBlob, StartBlob, StageBlobChunk, FinishBlob) *)
(* keeps the stores whole, whoever uploads the same blob meanwhile and wherever *)
(* a process stops.                                                         *)
LEMMA UploadKeeps ==
  ASSUME BlobInv, NEW u \in Uploaders, Upload(u, Blobs)
  PROVE  BlobInv' /\ UNCHANGED <<events, refs>>
<1> USE DEF BlobInv
<1>1. up \in [Uploaders -> {Idle} \cup Sending] BY DEF BlobTypes
<1>2. Keeps(products) BY DEF Keeps
<1>3. ASSUME NEW b \in Blobs, NEW crash \in BOOLEAN, StageBlob(u, b, crash) PROVE BlobInv' /\ UNCHANGED <<events, refs>>
  <2>1. /\ local' = [local EXCEPT ![u] = @ \cup {b}]
        /\ staged' = [staged EXCEPT ![u] = IF crash THEN @ ELSE @ \cup {b}]
        /\ UNCHANGED <<events, refs, products, files, up>>
    BY <1>3 DEF StageBlob
  <2>2. BlobTypes' BY <2>1 DEF BlobTypes
  <2>3. JournalInv' BY <2>1 DEF JournalInv, BlobTypes
  <2>4. RefInv' BY <2>1 DEF RefInv
  <2>5. Rows(products, files)' BY <2>1
  <2> QED BY <2>1, <2>2, <2>3, <2>4, <2>5
<1>4. ASSUME NEW b \in Blobs, NEW o \in Outcomes, UploadStart(u, b, o) PROVE BlobInv' /\ UNCHANGED <<events, refs>>
  <2>1. products' = Started(b) /\ UNCHANGED <<events, refs, files, staged, local>> BY <1>4 DEF UploadStart
  <2>2. Rows(products', files') /\ Keeps(products') /\ b \in DOMAIN products' BY <2>1, StartRows
  <2>3. PICK s : /\ s = IF products'[b].verified THEN Idle ELSE [pc |-> "send", blob |-> b, at |-> Offset(products'[b])]
                 /\ Answer(u, o, s)
    BY <1>4 DEF UploadStart
  <2>4. Offset(products'[b]) \in Nat BY <2>2, RowIn
  <2>5. s \in {Idle} \cup Sending BY <2>3, <2>4 DEF Sending
  <2>6. up' \in [Uploaders -> {Idle} \cup Sending] BY <1>1, <2>3, <2>5, AnswerTypes
  <2> QED BY <2>1, <2>2, <2>6, BlobStep
<1>5. ASSUME NEW o \in Outcomes, UploadChunk(u, o) PROVE BlobInv' /\ UNCHANGED <<events, refs>>
  <2>1. PICK c : c = NextChunk(u) OBVIOUS
  <2>2. up[u].pc = "send" /\ up[u].at < Size[c.blob] /\ c.blob = up[u].blob /\ UNCHANGED <<events, refs, staged, local>>
    BY <1>5, <2>1 DEF UploadChunk, NextChunk, Chunk
  <2>3. up[u] \in Sending BY <1>1, <2>2 DEF Idle
  <2>4. c \in Chunks /\ c.at + c.size \in Nat BY <2>1, <2>2, <2>3, NextChunkIn
  <2>5. CASE ~Stageable(c) /\ Answer(u, o, Idle) /\ UNCHANGED <<products, files>>
    <3>1. up' \in [Uploaders -> {Idle} \cup Sending] BY <1>1, <2>5, AnswerTypes
    <3>2. Rows(products', files') /\ Keeps(products') BY <1>2, <2>5
    <3> QED BY <2>2, <3>1, <3>2, BlobStep
  <2>6. ASSUME NEW s, Answer(u, o, s), s \in {Idle, [up[u] EXCEPT !.at = c.at + c.size]},
               Rows(products', files') /\ Keeps(products')
        PROVE  BlobInv' /\ UNCHANGED <<events, refs>>
    <3>1. [up[u] EXCEPT !.at = c.at + c.size] \in Sending BY <2>3, <2>4 DEF Sending
    <3>2. up' \in [Uploaders -> {Idle} \cup Sending] BY <1>1, <2>6, <3>1, AnswerTypes
    <3> QED BY <2>2, <2>6, <3>2, BlobStep
  <2>7. CASE /\ Stageable(c)
             /\ IF Repeats(c) THEN UNCHANGED <<products, files>> ELSE StageChunk(c, o = "crash")
             /\ Answer(u, o, IF Offset(products'[c.blob]) = c.at + c.size
                             THEN [up[u] EXCEPT !.at = c.at + c.size] ELSE Idle)
    <3>1. Rows(products', files') /\ Keeps(products')
      <4>1. CASE Repeats(c) BY <1>2, <2>7, <4>1
      <4>2. CASE ~Repeats(c)
        <5>1. PICK crash \in BOOLEAN : crash = (o = "crash") OBVIOUS
        <5>2. StageChunk(c, crash) BY <2>7, <4>2, <5>1
        <5> QED BY <2>4, <2>7, <4>2, <5>2, ChunkRows
      <4> QED BY <4>1, <4>2
    <3>2. PICK s : /\ s = IF Offset(products'[c.blob]) = c.at + c.size THEN [up[u] EXCEPT !.at = c.at + c.size] ELSE Idle
                   /\ Answer(u, o, s)
      BY <2>7
    <3> QED BY <2>6, <3>1, <3>2
  <2> QED BY <1>5, <2>1, <2>5, <2>7 DEF UploadChunk
<1>6. ASSUME NEW o \in Outcomes, UploadEnd(u, o) PROVE BlobInv' /\ UNCHANGED <<events, refs>>
  <2>1. PICK b : b = up[u].blob OBVIOUS
  <2>2. up[u].pc = "send" /\ UNCHANGED <<events, refs, files, staged, local>> BY <1>6 DEF UploadEnd
  <2>3. up[u] \in Sending /\ b \in Blobs BY <1>1, <2>1, <2>2 DEF Idle, Sending
  <2>4. PICK s : /\ s \in {Idle, [up[u] EXCEPT !.pc = "finish"]} /\ Answer(u, o, s)
                 /\ products' = Started(b) \/ products' = products
    BY <1>6, <2>1 DEF UploadEnd
  <2>5. [up[u] EXCEPT !.pc = "finish"] \in Sending BY <2>3 DEF Sending
  <2>6. up' \in [Uploaders -> {Idle} \cup Sending] BY <1>1, <2>4, <2>5, AnswerTypes
  <2>7. Rows(products', files') /\ Keeps(products') BY <1>2, <2>2, <2>3, <2>4, StartRows
  <2> QED BY <2>2, <2>6, <2>7, BlobStep
<1>7. ASSUME NEW o \in Outcomes, UploadFinish(u, o) PROVE BlobInv' /\ UNCHANGED <<events, refs>>
  <2>1. PICK b : b = up[u].blob OBVIOUS
  <2>2. PICK crash \in BOOLEAN : crash = (o = "crash") OBVIOUS
  <2>3. /\ Answer(u, o, Idle) /\ UNCHANGED <<events, refs, staged, local>>
        /\ IF b \in DOMAIN products THEN FinishBlob(b, crash) ELSE UNCHANGED <<products, files>>
    BY <1>7, <2>1, <2>2 DEF UploadFinish
  <2>4. up' \in [Uploaders -> {Idle} \cup Sending] BY <1>1, <2>3, AnswerTypes
  <2>5. Rows(products', files') /\ Keeps(products') BY <1>2, <2>3, FinishRows
  <2> QED BY <2>3, <2>4, <2>5, BlobStep
<1> QED BY <1>3, <1>4, <1>5, <1>6, <1>7 DEF Upload

(* ExpireProduct.                                                           *)
LEMMA ExpiryKeeps ==
  ASSUME BlobInv, NEW b \in Blobs, ExpireProduct(b)
  PROVE  BlobInv' /\ UNCHANGED <<events, refs>>
<1> USE DEF BlobInv
<1>1. /\ b \in DOMAIN products /\ products' = [products EXCEPT ![b].expired = TRUE]
      /\ UNCHANGED <<events, refs, files, staged, local, up>>
  BY DEF ExpireProduct
<1>2. PICK p, q : p = products[b] /\ q = [p EXCEPT !.expired = TRUE] OBVIOUS
<1>3. p \in Products /\ Backed(b, p, files) BY <1>1, <1>2, RowIn
<1>4. q \in Products /\ q.verified = p.verified /\ q.chunks = p.chunks /\ q.length = p.length BY <1>2, <1>3 DEF Products
<1>5. Offset(q) = Offset(p) BY <1>4 DEF Offset
<1>6. Backed(b, q, files) BY <1>3, <1>4, <1>5 DEF Backed
<1>7. PICK ps : ps = products' OBVIOUS
<1>8. DOMAIN ps = DOMAIN products \cup {b} /\ ps = [x \in DOMAIN ps |-> IF x = b THEN q ELSE products[x]]
  BY <1>1, <1>2, <1>7
<1>9. Rows(ps, files) /\ Keeps(ps)
  <2>1. products[b].verified => q.verified BY <1>2, <1>4
  <2>2. Rows(products, files) /\ files \subseteq files OBVIOUS
  <2> HIDE DEF BlobInv
  <2> QED BY <1>4, <1>6, <1>8, <2>1, <2>2, RowsPut
<1>10. up' \in [Uploaders -> {Idle} \cup Sending] BY <1>1 DEF BlobTypes
<1> QED BY <1>1, <1>7, <1>9, <1>10, BlobStep

(* CollectExpired: the rows of a referenced product stay, and with them what *)
(* their files are.                                                         *)
LEMMA CollectKeeps ==
  ASSUME BlobInv, CollectExpired
  PROVE  BlobInv' /\ UNCHANGED <<events, refs>>
<1> USE DEF BlobInv
<1>1. PICK ps : ps = Restrict(products, DOMAIN products \ Collectable(Live)) OBVIOUS
<1>2. products' = ps /\ UNCHANGED <<events, refs, staged, local, up>> BY <1>1 DEF CollectExpired
<1>3. PICK removed \in SUBSET Garbage(ps) : files' = files \ removed BY <1>1 DEF CollectExpired
<1>4. /\ DOMAIN ps = DOMAIN products \ Collectable(Live) /\ \A b \in DOMAIN ps : ps[b] = products[b]
      /\ ps = [b \in DOMAIN ps |-> products[b]]
  BY <1>1 DEF Restrict
<1>5. ASSUME NEW b \in DOMAIN ps PROVE Backed(b, ps[b], files')
  <2>1. Backed(b, ps[b], files) BY <1>4 DEF Rows
  <2>2. ASSUME NEW c \in ps[b].chunks PROVE ChunkFile(c) \notin removed
    <3>1. c \in UNION {ps[x].chunks : x \in DOMAIN ps} BY <2>2
    <3> QED BY <1>3, <3>1 DEF Garbage
  <2>3. ps[b].verified => ProductFile(b) \notin removed BY <1>3 DEF Garbage
  <2> QED BY <1>3, <2>1, <2>2, <2>3 DEF Backed
<1>6. ps \in [DOMAIN ps -> Products] /\ DOMAIN ps \subseteq Blobs BY <1>4 DEF Rows
<1>7. Rows(ps, files') BY <1>5, <1>6 DEF Rows
<1>8. Keeps(ps) BY <1>4 DEF Keeps, Collectable
<1>9. up' \in [Uploaders -> {Idle} \cup Sending] BY <1>2 DEF BlobTypes
<1> QED BY <1>2, <1>7, <1>8, <1>9, BlobStep

(* The log only grows.                                                      *)
Grown(es, fs) == Len(es) <= Len(fs) /\ \A i \in 1 .. Len(es) : fs[i] = es[i]

(* promoteBlobsTx with the event of a command: a blob keeps the position of its *)
(* first reference.                                                         *)
LEMMA CommandKeeps ==
  ASSUME BlobInv, NEW bs \in SUBSET Blobs, NEW matter \in BOOLEAN, CompleteCommand(bs, matter)
  PROVE  BlobInv' /\ Grown(events, events')
<1> USE DEF BlobInv
<1>1. PICK e : e = [blobs |-> bs, matter |-> matter] OBVIOUS
<1>2. /\ Promotable(bs) /\ events' = Append(events, e)
      /\ refs' = [b \in DOMAIN refs \cup bs |-> IF b \in DOMAIN refs THEN refs[b] ELSE Len(events) + 1]
      /\ UNCHANGED <<products, files, staged, local, up>>
  BY <1>1 DEF CompleteCommand
<1>3. events \in Seq(Events) /\ e \in Events /\ e.blobs = bs BY <1>1 DEF BlobTypes, Events
<1>4. PICK n : n = Len(events) OBVIOUS
<1>5. n \in Nat /\ \A i \in 1 .. n : events[i] \in Events BY <1>3, <1>4
<1>6. /\ events' \in Seq(Events) /\ Len(events') = n + 1 /\ events'[n + 1] = e
      /\ \A i \in 1 .. n : events'[i] = events[i]
  BY <1>2, <1>3, <1>4, AppendProperties
<1>7. BlobTypes' BY <1>2, <1>6 DEF BlobTypes
<1>8. DOMAIN refs' = DOMAIN refs \cup bs /\ \A b \in DOMAIN refs' : refs'[b] = IF b \in DOMAIN refs THEN refs[b] ELSE n + 1
  BY <1>2, <1>4
<1>9. RefInv'
  <2>1. ASSUME NEW b \in DOMAIN refs'
        PROVE  /\ refs'[b] \in 1 .. n + 1 /\ b \in events'[refs'[b]].blobs
               /\ b \in DOMAIN products /\ products[b].verified
    <3>1. CASE b \in DOMAIN refs
      <4>1. refs[b] \in 1 .. n /\ b \in events[refs[b]].blobs /\ b \in DOMAIN products /\ products[b].verified
        BY <1>4, <3>1 DEF RefInv
      <4> QED BY <1>5, <1>6, <1>8, <3>1, <4>1
    <3>2. CASE b \notin DOMAIN refs BY <1>2, <1>3, <1>5, <1>6, <1>8, <2>1, <3>2 DEF Promotable
    <3> QED BY <3>1, <3>2
  <2>2. ASSUME NEW i \in 1 .. n + 1, NEW b \in events'[i].blobs PROVE b \in DOMAIN refs' /\ refs'[b] <= i
    <3>1. CASE i \in 1 .. n
      <4>1. b \in DOMAIN refs /\ refs[b] <= i BY <1>4, <1>6, <2>2, <3>1 DEF RefInv
      <4> QED BY <1>8, <4>1
    <3>2. CASE i = n + 1
      <4>1. b \in DOMAIN refs' BY <1>3, <1>6, <1>8, <2>2, <3>2
      <4>2. CASE b \in DOMAIN refs
        <5>1. refs[b] \in 1 .. n BY <1>4, <4>2 DEF RefInv
        <5> QED BY <1>5, <1>8, <3>2, <4>1, <4>2, <5>1
      <4> QED BY <1>5, <1>8, <3>2, <4>1, <4>2
    <3> QED BY <1>5, <2>2, <3>1, <3>2
  <2> QED BY <1>2, <1>6, <2>1, <2>2 DEF RefInv
<1>10. JournalInv' /\ Rows(products, files)' BY <1>2 DEF JournalInv
<1>11. Grown(events, events') BY <1>4, <1>5, <1>6 DEF Grown
<1> QED BY <1>7, <1>9, <1>10, <1>11

(* What a prefix of the log says does not change when the log grows, and it is *)
(* what a pin and a check compute from the references (pinSnapshotTx,       *)
(* checkStep6State).                                                        *)
LEMMA NamedStays ==
  ASSUME NEW es, NEW fs, Len(es) \in Nat, Grown(es, fs), NEW n \in Nat, n <= Len(es)
  PROVE  Named(fs, n) = Named(es, n) /\ Born(fs, n) = Born(es, n)
<1>1. \A i \in 1 .. n : i \in 1 .. Len(es) OBVIOUS
<1>2. \A i \in 1 .. n : fs[i] = es[i] BY <1>1 DEF Grown
<1> QED BY <1>2 DEF Named, Born

(* pinSnapshotTx's manifest and items are those of the log's prefix: what   *)
(* an event declared is referenced and verified.                            *)
LEMMA NamedIs ==
  ASSUME BlobInv, NEW n \in Nat, n <= Len(events)
  PROVE  /\ ManifestAt(n) = Named(events, n) /\ ItemsAt(n) = Born(events, n)
         /\ Named(events, n) \subseteq DOMAIN refs /\ Named(events, n) \in SUBSET Blobs
         /\ IsFiniteSet(Named(events, n)) /\ Cardinality(Named(events, n)) \in Nat
         /\ Born(events, n) \in SUBSET Nat
<1> USE DEF BlobInv
<1>1. \A i \in 1 .. n : i \in 1 .. Len(events) BY DEF BlobTypes
<1>2. ASSUME NEW b \in Named(events, n) PROVE b \in DOMAIN refs /\ refs[b] <= n
  <2>1. PICK i \in 1 .. n : b \in events[i].blobs BY DEF Named
  <2>2. b \in DOMAIN refs /\ refs[b] <= i BY <1>1, <2>1 DEF RefInv
  <2>3. refs[b] \in 1 .. Len(events) BY <2>2 DEF RefInv
  <2> QED BY <2>2, <2>3
<1>3. ASSUME NEW b \in DOMAIN refs, refs[b] <= n PROVE b \in Named(events, n)
  <2>1. refs[b] \in 1 .. n /\ b \in events[refs[b]].blobs BY <1>3 DEF RefInv
  <2> QED BY <2>1 DEF Named
<1>4. ManifestAt(n) = Named(events, n)
  <2>1. \A b \in DOMAIN refs : b \in DOMAIN products /\ products[b].verified BY DEF RefInv
  <2> QED BY <1>2, <1>3, <2>1 DEF ManifestAt
<1>5. Named(events, n) \subseteq DOMAIN refs /\ Named(events, n) \in SUBSET Blobs BY <1>2 DEF BlobTypes
<1>6. IsFiniteSet(Named(events, n)) /\ Cardinality(Named(events, n)) \in Nat
  BY <1>5, BlobConstants, FS_Subset, FS_CardinalityType
<1> QED BY <1>4, <1>5, <1>6 DEF ItemsAt, Born

(* A snapshot stays true to the log when the log grows.                     *)
LEMMA PinnedStays ==
  ASSUME NEW es, NEW fs, Len(es) \in Nat, Grown(es, fs), Len(fs) \in Nat, NEW s, Pinned(s, es)
  PROVE  Pinned(s, fs)
<1>1. s.end \in Nat /\ s.end <= Len(es) BY DEF Pinned
<1>2. s.end <= Len(fs) BY <1>1 DEF Grown
<1>3. Named(fs, s.end) = Named(es, s.end) /\ Born(fs, s.end) = Born(es, s.end) BY <1>1, NamedStays
<1> QED BY <1>2, <1>3 DEF Pinned

(* The log is a sequence of events.                                         *)
LEMMA LogLength ==
  ASSUME BlobInv
  PROVE  Len(events) \in Nat /\ events \in Seq(Events)
BY DEF BlobInv, BlobTypes

(* Snapshots under the log's growth, a pin (StartTransfer), a release, an   *)
(* expiry and an acknowledgment.                                            *)
LEMMA SnapGrows ==
  ASSUME SnapInv, Len(events) \in Nat, Len(events') \in Nat, Grown(events, events'), UNCHANGED <<snaps, pins, transfers>>
  PROVE  SnapInv'
BY PinnedStays DEF SnapInv

(* pinSnapshotTx pins the log as it is.                                     *)
LEMMA PinNow ==
  ASSUME BlobInv
  PROVE  Pinned(Pin, events) /\ Pin.end = Len(events)
<1>1. PICK n : n = Len(events) OBVIOUS
<1>2. n \in Nat /\ n <= Len(events) BY <1>1, LogLength
<1>3. Pin = [end |-> n, manifest |-> Named(events, n), items |-> Born(events, n), expired |-> FALSE]
  BY <1>1, <1>2, NamedIs DEF Pin
<1>4. Named(events, n) \in SUBSET Blobs /\ Born(events, n) \in SUBSET Nat BY <1>2, NamedIs
<1> QED BY <1>1, <1>2, <1>3, <1>4 DEF Pinned

(* StartTransfer adds one snapshot and one transfer under a fresh id.       *)
LEMMA SnapPins ==
  ASSUME BlobInv, SnapInv, NEW start \in Nat, StartTransfer(start), UNCHANGED events
  PROVE  /\ SnapInv' /\ pins' = pins + 1 /\ start <= Len(events)
         /\ DOMAIN transfers' = DOMAIN transfers \cup {pins + 1} /\ DOMAIN snaps' = DOMAIN snaps \cup {pins + 1}
         /\ \A i \in DOMAIN transfers : i <= pins /\ transfers'[i] = transfers[i]
         /\ \A i \in DOMAIN snaps : i <= pins /\ snaps'[i] = snaps[i]
         /\ transfers'[pins + 1] = [start |-> start, event |-> 0, entry |-> 0]
         /\ snaps'[pins + 1].end = Len(events)
<1>1. PICK t : t = [start |-> start, event |-> 0, entry |-> 0] OBVIOUS
<1>2. /\ pins' = pins + 1 /\ snaps' = With(snaps, pins + 1, Pin) /\ transfers' = With(transfers, pins + 1, t)
      /\ start <= Len(events)
  BY <1>1 DEF StartTransfer
<1>3. pins \in Nat /\ DOMAIN snaps \subseteq 1 .. pins /\ DOMAIN transfers \subseteq DOMAIN snaps BY DEF SnapInv
<1>4. pins + 1 \notin DOMAIN snaps /\ pins + 1 \notin DOMAIN transfers BY <1>3
<1>5. /\ DOMAIN snaps' = DOMAIN snaps \cup {pins + 1} /\ snaps'[pins + 1] = Pin
      /\ \A i \in DOMAIN snaps : snaps'[i] = snaps[i]
  BY <1>2, <1>4 DEF With
<1>6. /\ DOMAIN transfers' = DOMAIN transfers \cup {pins + 1} /\ transfers'[pins + 1] = t
      /\ \A i \in DOMAIN transfers : transfers'[i] = transfers[i]
  BY <1>2, <1>4 DEF With
<1>7. Pinned(Pin, events) /\ Pin.end = Len(events) BY PinNow
<1>8. Len(events) \in Nat /\ Cardinality(Pin.manifest) \in Nat
  <2>1. Len(events) \in Nat BY LogLength
  <2>2. Pin.manifest = Named(events, Len(events)) BY <1>7 DEF Pinned
  <2> QED BY <2>1, <2>2, NamedIs
<1>9. Carried(t, Pin) BY <1>1, <1>2, <1>7, <1>8 DEF Carried, Boundaries
<1>10. SnapInv'
  <2>1. pins' \in Nat /\ DOMAIN snaps' \subseteq 1 .. pins' /\ DOMAIN transfers' \subseteq DOMAIN snaps'
    BY <1>2, <1>3, <1>5, <1>6
  <2>2. \A i \in DOMAIN snaps' : Pinned(snaps'[i], events) BY <1>5, <1>7 DEF SnapInv
  <2>3. \A i \in DOMAIN transfers' : Carried(transfers'[i], snaps'[i]) BY <1>3, <1>5, <1>6, <1>9 DEF SnapInv
  <2> QED BY <2>1, <2>2, <2>3 DEF SnapInv
<1> QED BY <1>1, <1>2, <1>3, <1>5, <1>6, <1>7, <1>10

(* ReleaseSnapshot and CollectExpired take snapshots away with their        *)
(* transfers.                                                               *)
LEMMA SnapUnpins ==
  ASSUME SnapInv, NEW ids, Unpinned(ids), UNCHANGED <<events, pins>>
  PROVE  /\ SnapInv'
         /\ DOMAIN transfers' \subseteq DOMAIN transfers /\ DOMAIN snaps' \subseteq DOMAIN snaps
         /\ \A i \in DOMAIN transfers' : transfers'[i] = transfers[i]
         /\ \A i \in DOMAIN snaps' : snaps'[i] = snaps[i]
<1>1. /\ DOMAIN snaps' = DOMAIN snaps \ ids /\ \A i \in DOMAIN snaps' : snaps'[i] = snaps[i]
      /\ DOMAIN transfers' = DOMAIN transfers \ ids /\ \A i \in DOMAIN transfers' : transfers'[i] = transfers[i]
  BY DEF Unpinned, Restrict
<1>2. DOMAIN transfers' \subseteq DOMAIN snaps' BY <1>1 DEF SnapInv
<1> QED BY <1>1, <1>2 DEF SnapInv

(* An expiry only marks the snapshot.                                       *)
LEMMA SnapExpires ==
  ASSUME SnapInv, NEW id \in Live, ExpireSnapshot(id)
  PROVE  /\ SnapInv' /\ DOMAIN snaps' = DOMAIN snaps /\ \A i \in DOMAIN snaps : snaps'[i].end = snaps[i].end
<1>1. /\ id \in DOMAIN snaps /\ snaps' = [snaps EXCEPT ![id].expired = TRUE] /\ UNCHANGED <<events, pins, transfers>>
  BY DEF ExpireSnapshot, Live, blobVars
<1>2. PICK q : q = [snaps[id] EXCEPT !.expired = TRUE] OBVIOUS
<1>3. DOMAIN snaps' = DOMAIN snaps /\ \A i \in DOMAIN snaps : snaps'[i] = IF i = id THEN q ELSE snaps[i] BY <1>1, <1>2
<1>4. Pinned(snaps[id], events) BY <1>1 DEF SnapInv
<1>5. Pinned(q, events) /\ q.end = snaps[id].end /\ q.manifest = snaps[id].manifest BY <1>2, <1>4 DEF Pinned
<1>6. \A i \in DOMAIN transfers : Carried(transfers[i], snaps'[i])
  <2> SUFFICES ASSUME NEW i \in DOMAIN transfers PROVE Carried(transfers[i], snaps'[i]) OBVIOUS
  <2>1. Carried(transfers[i], snaps[i]) /\ i \in DOMAIN snaps BY DEF SnapInv
  <2>2. snaps'[i].end = snaps[i].end /\ snaps'[i].manifest = snaps[i].manifest BY <1>3, <1>5, <2>1
  <2> QED BY <2>1, <2>2 DEF Carried
<1>7. SnapInv' BY <1>1, <1>3, <1>5, <1>6 DEF SnapInv
<1> QED BY <1>3, <1>5, <1>7

(* A prefix of the log stays one, and so do a client's file and sessions.   *)
LEMMA PrefixStays ==
  ASSUME NEW es, NEW gs, Len(es) \in Nat, Len(gs) \in Nat, Grown(es, gs), NEW fs, NEW bs, Prefix(fs, bs, es)
  PROVE  Prefix(fs, bs, gs)
<1>1. PICK n : n = Len(fs) OBVIOUS
<1>2. n \in Nat /\ n <= Len(es) /\ fs \in Seq(Events) BY <1>1 DEF Prefix
<1>3. Named(gs, n) = Named(es, n) BY <1>2, NamedStays
<1>4. \A i \in 1 .. n : fs[i] = gs[i] BY <1>1, <1>2 DEF Prefix, Grown
<1>5. n <= Len(gs) BY <1>2 DEF Grown
<1> QED BY <1>1, <1>2, <1>3, <1>4, <1>5 DEF Prefix

(* A file stays a prefix when the log grows ...                             *)
LEMMA InstallableStays ==
  ASSUME NEW es, NEW gs, Len(es) \in Nat, Len(gs) \in Nat, Grown(es, gs), NEW f, Installable(f, es)
  PROVE  Installable(f, gs)
BY PrefixStays DEF Installable

(* ... and so does what a process is about to install ...                   *)
LEMMA SessionStays ==
  ASSUME NEW es, NEW gs, Len(es) \in Nat, Len(gs) \in Nat, Grown(es, gs), NEW s, Session(s, es)
  PROVE  Session(s, gs)
BY PrefixStays, InstallableStays DEF Session

(* ... and so do all of them.                                               *)
LEMMA ClientGrows ==
  ASSUME ClientInv, Len(events) \in Nat, Len(events') \in Nat, Grown(events, events'), UNCHANGED <<file, sess>>
  PROVE  ClientInv'
<1>1. Installable(file, events') BY InstallableStays DEF ClientInv
<1>2. \A c \in Clients : Session(sess[c], events') BY SessionStays DEF ClientInv
<1> QED BY <1>1, <1>2 DEF ClientInv

(* What transferProduct sends after the records fs.                         *)
Delta(fs) == SubSeq(events, Len(fs) + 1, Len(events))

(* transferProduct: the file's records and those after them are the log as it *)
(* was pinned.                                                              *)
LEMMA DeltaCompletes ==
  ASSUME BlobInv, NEW fs, NEW bs, Prefix(fs, bs, events), NEW d, d = Delta(fs)
  PROVE  d \in Seq(Events) /\ Prefix(fs \o d, ManifestAt(Len(events)), events)
<1>1. PICK n, k : n = Len(events) /\ k = Len(fs) OBVIOUS
<1>2. n \in Nat /\ events \in Seq(Events) BY <1>1, LogLength
<1>3. k \in Nat /\ k <= n /\ fs \in Seq(Events) /\ \A i \in 1 .. k : fs[i] = events[i] BY <1>1 DEF Prefix
<1>4. \A i \in 1 .. n : events[i] \in Events BY <1>1, <1>2
<1>5. \A i \in k + 1 .. n : events[i] \in Events BY <1>2, <1>3, <1>4
<1>6. /\ d \in Seq(Events) /\ Len(d) = IF k + 1 <= n THEN n - (k + 1) + 1 ELSE 0
      /\ \A i \in 1 .. n - (k + 1) + 1 : d[i] = events[k + 1 + i - 1]
  <2>1. k + 1 \in Int /\ n \in Int BY <1>2, <1>3
  <2> QED BY <1>1, <1>5, <2>1, SubSeqProperties DEF Delta
<1>7. Len(d) = n - k
  <2>1. Len(d) = IF k + 1 <= n THEN n - (k + 1) + 1 ELSE 0 BY <1>6
  <2>2. n \in Nat /\ k \in Nat /\ k <= n BY <1>2, <1>3
  <2> QED BY <2>1, <2>2
<1>8. /\ fs \o d \in Seq(Events) /\ Len(fs \o d) = k + (n - k)
      /\ \A i \in 1 .. k + (n - k) : (fs \o d)[i] = IF i <= k THEN fs[i] ELSE d[i - k]
  BY <1>1, <1>3, <1>6, <1>7, ConcatProperties
<1>9. Len(fs \o d) = n BY <1>2, <1>3, <1>8
<1>10. ASSUME NEW i \in 1 .. n PROVE (fs \o d)[i] = events[i]
  <2>1. i \in 1 .. k + (n - k) BY <1>2, <1>3, <1>10
  <2>2. CASE i <= k BY <1>2, <1>3, <1>8, <1>10, <2>1, <2>2
  <2>3. CASE ~(i <= k)
    <3>1. i - k \in 1 .. n - (k + 1) + 1 /\ k + 1 + (i - k) - 1 = i BY <1>2, <1>3, <1>10, <2>3
    <3>2. (fs \o d)[i] = d[i - k] BY <1>8, <2>1, <2>3
    <3> QED BY <1>6, <3>1, <3>2
  <2> QED BY <2>2, <2>3
<1>11. ManifestAt(n) = Named(events, n) BY <1>1, <1>2, NamedIs
<1> QED BY <1>1, <1>2, <1>6, <1>8, <1>9, <1>10, <1>11 DEF Prefix

(* What is about to be installed is a prefix of the log.                    *)
LEMMA VerifiedIs ==
  ASSUME BlobInv, ClientInv, NEW c \in Clients, sess[c].pc = "received"
  PROVE  Installable(Verified(c), events) /\ Installable(sess[c].base, events)
         /\ Len(Verified(c).events) >= Len(sess[c].base.events)
<1>1. PICK s, n : s = sess[c] /\ n = Len(s.base.events \o s.delta) OBVIOUS
<1>2. /\ Installable(s.base, events) /\ s.delta \in Seq(Events)
      /\ Prefix(s.base.events \o s.delta, s.manifest, events)
  BY <1>1 DEF ClientInv, Session
<1>3. s.base.events \in Seq(Events) BY <1>2 DEF Installable, Prefix
<1>4. s.base.events \o s.delta \in Seq(Events) /\ n = Len(s.base.events) + Len(s.delta)
  BY <1>1, <1>2, <1>3, ConcatProperties
<1>5. n \in Nat /\ n >= Len(s.base.events)
  <2>1. PICK x, y : x = Len(s.base.events) /\ y = Len(s.delta) OBVIOUS
  <2>2. x \in Nat /\ y \in Nat /\ n = x + y BY <1>2, <1>3, <1>4, <2>1
  <2>3. n \in Nat /\ n >= x BY <2>2
  <2> QED BY <2>1, <2>3
<1>6. s.manifest \in SUBSET Blobs
  <2>1. s.manifest = Named(events, n) /\ n <= Len(events) BY <1>1, <1>2 DEF Prefix
  <2> QED BY <1>5, <2>1, NamedIs
<1>7. Verified(c) = [events |-> s.base.events \o s.delta, manifest |-> s.manifest, absent |-> FALSE]
  BY <1>1 DEF Verified
<1>8. Installable(Verified(c), events) BY <1>2, <1>4, <1>6, <1>7 DEF Installable
<1>9. Len(Verified(c).events) = n BY <1>1, <1>7
<1> QED BY <1>1, <1>2, <1>5, <1>8, <1>9

(* A sequence that agrees with a longer one is its first part.              *)
LEMMA FirstPart ==
  ASSUME NEW S, NEW f \in Seq(S), NEW g \in Seq(S), NEW n \in Nat, Len(f) = n, n <= Len(g), \A i \in 1 .. n : f[i] = g[i]
  PROVE  f = SubSeq(g, 1, n)
<1>1. Len(g) \in Nat /\ \A i \in 1 .. n : i \in 1 .. Len(g) OBVIOUS
<1>2. PICK t : t = SubSeq(g, 1, n) OBVIOUS
<1>3. /\ t \in Seq(S) /\ Len(t) = (IF 1 <= n THEN n - 1 + 1 ELSE 0) /\ \A i \in 1 .. n - 1 + 1 : t[i] = g[1 + i - 1]
  BY <1>1, <1>2, SubSeqProperties
<1>4. n - 1 + 1 = n /\ (\A i \in 1 .. n : 1 + i - 1 = i) /\ (1 <= n \/ n = 0) OBVIOUS
<1>5. Len(t) = n BY <1>3, <1>4
<1>6. \A i \in 1 .. n : t[i] = g[i] BY <1>3, <1>4
<1>7. f = t BY <1>3, <1>5, <1>6, SeqEqual
<1> QED BY <1>2, <1>7

(* A prefix is the first part of the log, as the property writes it.        *)
LEMMA PrefixIs ==
  ASSUME NEW es \in Seq(Events), NEW fs, NEW bs, Prefix(fs, bs, es)
  PROVE  /\ Len(fs) <= Len(es) /\ fs = SubSeq(es, 1, Len(fs)) /\ bs = UNION {es[i].blobs : i \in 1 .. Len(fs)}
<1>1. PICK n : n = Len(fs) OBVIOUS
<1>2. n \in Nat /\ n <= Len(es) /\ fs \in Seq(Events) /\ \A i \in 1 .. n : fs[i] = es[i] BY <1>1 DEF Prefix
<1>3. fs = SubSeq(es, 1, n) BY <1>1, <1>2, FirstPart
<1> QED BY <1>1, <1>2, <1>3 DEF Prefix, Named

(* What a client's step may do to its file.                                 *)
FileMoves ==
  file' # file =>
    /\ Len(file'.events) \in Len(file.events) .. Len(events)
    /\ file'.events = SubSeq(events, 1, Len(file'.events))
    /\ file'.manifest = UNION {events[i].blobs : i \in 1 .. Len(file'.events)}

(* One process moves on.                                                    *)
LEMMA SessStep ==
  ASSUME ClientInv, NEW c \in Clients, NEW s, sess' = [sess EXCEPT ![c] = s], Session(s, events), UNCHANGED <<events, file>>
  PROVE  ClientInv' /\ FileMoves
BY DEF ClientInv, FileMoves

(* A process that gives up holds nothing.                                   *)
LEMMA QuietIs ==
  ASSUME NEW es
  PROVE  Session(Quiet, es)
BY DEF Session, Quiet

(* What a process verified takes the file's place.                          *)
NoShorter(c) == Len(sess[c].base.events) >= Len(file.events)
Ends(c, s) == s.pc \in {"idle", "clean"} /\ sess' = [sess EXCEPT ![c] = s]

(* installState and replaceInstalledState: the file moves to what the       *)
(* process verified.                                                        *)
LEMMA FileInstalled ==
  ASSUME BlobInv, ClientInv, UNCHANGED events, NEW c \in Clients, sess[c].pc = "received", file' = Verified(c),
         NoShorter(c), NEW s, Ends(c, s)
  PROVE  ClientInv' /\ FileMoves
<1>1. /\ Installable(Verified(c), events) /\ Installable(sess[c].base, events)
      /\ Len(Verified(c).events) >= Len(sess[c].base.events)
  BY VerifiedIs
<1>2. /\ Len(file'.events) \in Nat /\ Len(sess[c].base.events) \in Nat /\ Len(file.events) \in Nat
  BY <1>1 DEF Installable, Prefix, ClientInv
<1>3. Len(file'.events) >= Len(file.events) BY <1>1, <1>2 DEF NoShorter
<1>4. events \in Seq(Events) BY LogLength
<1>5. Prefix(file'.events, file'.manifest, events) BY <1>1 DEF Installable
<1>6. FileMoves
  <2>1. PICK n, m, e : n = Len(file'.events) /\ m = Len(file.events) /\ e = Len(events) OBVIOUS
  <2>2. n \in Nat /\ m \in Nat /\ e \in Nat /\ n >= m BY <1>2, <1>3, <2>1, LogLength
  <2>3. /\ n <= e /\ file'.events = SubSeq(events, 1, n) /\ file'.manifest = UNION {events[i].blobs : i \in 1 .. n}
    BY <1>4, <1>5, <2>1, PrefixIs
  <2>4. n \in m .. e BY <2>2, <2>3
  <2> QED BY <2>1, <2>3, <2>4 DEF FileMoves
<1>7. Session(s, events) BY DEF Session, Ends
<1>8. ClientInv' BY <1>1, <1>7 DEF ClientInv, Ends
<1> QED BY <1>6, <1>8

(* Every step of a client's process: its file stays a prefix, and moves only to *)
(* a longer one, whichever process ends last (installState,                 *)
(* replaceInstalledState).                                                  *)
LEMMA ClientKeeps ==
  ASSUME BlobInv, ClientInv, ClientStep
  PROVE  ClientInv' /\ FileMoves /\ UNCHANGED events
<1>1. UNCHANGED events
  BY DEF ClientStep, SavePending, Ask, ReadCurrent, PinProduct, Respond, InstallState, RemovePending,
     ReplaceInstalledState, Stop, storeVars, blobVars
<1>2. ASSUME NEW crash \in BOOLEAN, SavePending(crash) PROVE ClientInv' /\ FileMoves
  BY <1>1, <1>2 DEF SavePending, ClientInv, FileMoves
<1>3. ASSUME NEW c \in Clients, Quit(c), UNCHANGED file PROVE ClientInv' /\ FileMoves
  BY <1>1, <1>3, QuietIs, SessStep DEF Quit
<1>4. ASSUME NEW c \in Clients, Ask(c) PROVE ClientInv' /\ FileMoves
  <2>1. PICK s : s = [pc |-> "ask", base |-> file] OBVIOUS
  <2>2. sess' = [sess EXCEPT ![c] = s] /\ UNCHANGED file BY <1>4, <2>1 DEF Ask
  <2>3. Session(s, events) BY <2>1 DEF Session, ClientInv
  <2> QED BY <1>1, <2>2, <2>3, SessStep
<1>5. ASSUME NEW c \in Clients, ReadCurrent(c) PROVE ClientInv' /\ FileMoves
  <2>1. UNCHANGED file /\ sess[c].pc = "ask" BY <1>5 DEF ReadCurrent
  <2>2. PICK s : s = [pc |-> "count", base |-> sess[c].base, current |-> Len(events)] OBVIOUS
  <2>3. CASE sess' = [sess EXCEPT ![c] = s]
    <3>1. Installable(sess[c].base, events) BY <2>1 DEF ClientInv, Session
    <3>2. Session(s, events) BY <2>2, <3>1 DEF Session
    <3> QED BY <1>1, <2>1, <2>3, <3>2, SessStep
  <2> QED BY <1>3, <1>5, <2>1, <2>2, <2>3 DEF ReadCurrent, ClientInv
<1>6. ASSUME NEW c \in Clients, PinProduct(c) PROVE ClientInv' /\ FileMoves
  <2>1. UNCHANGED file /\ sess[c].pc = "count" BY <1>6 DEF PinProduct
  <2>2. Installable(sess[c].base, events) BY <2>1 DEF ClientInv, Session
  <2>3. PICK d : d = Delta(sess[c].base.events) OBVIOUS
  <2>4. PICK w : w = Product(c) OBVIOUS
  <2>5. PICK s : s = [pc |-> "built", base |-> sess[c].base, id |-> pins + 1, whole |-> w, delta |-> d,
                      manifest |-> ManifestAt(Len(events))]
    OBVIOUS
  <2>6. CASE sess' = [sess EXCEPT ![c] = s]
    <3>1. d \in Seq(Events) /\ Prefix(sess[c].base.events \o d, ManifestAt(Len(events)), events)
      BY <2>2, <2>3, DeltaCompletes DEF Installable
    <3>2. Session(s, events) BY <2>2, <2>5, <3>1 DEF Session
    <3> QED BY <1>1, <2>1, <2>6, <3>2, SessStep
  <2>7. CASE ~Pinnable BY <1>3, <1>6, <2>1, <2>7 DEF PinProduct
  <2>8. CASE Pinnable
    <3>1. sess' = [sess EXCEPT ![c] = s] BY <1>6, <2>3, <2>4, <2>5, <2>8 DEF PinProduct, ClientInv, Delta
    <3> QED BY <2>6, <3>1
  <2> QED BY <2>7, <2>8
<1>7. ASSUME NEW c \in Clients, NEW o \in Outcomes, Respond(c, o) PROVE ClientInv' /\ FileMoves
  <2>1. UNCHANGED file /\ sess[c].pc = "built" BY <1>7 DEF Respond
  <2>2. PICK r, s : r = sess[c] /\ s = [r EXCEPT !.pc = "received"] OBVIOUS
  <2>3. CASE sess' = [sess EXCEPT ![c].pc = "received"]
    <3>1. /\ r = [pc |-> r.pc, base |-> r.base, id |-> r.id, whole |-> r.whole, delta |-> r.delta, manifest |-> r.manifest]
          /\ Installable(r.base, events) /\ r.delta \in Seq(Events)
          /\ Prefix(r.base.events \o r.delta, r.manifest, events)
      BY <2>1, <2>2 DEF ClientInv, Session
    <3>2. s = [pc |-> "received", base |-> r.base, id |-> r.id, whole |-> r.whole, delta |-> r.delta, manifest |-> r.manifest]
      BY <2>2, <3>1
    <3>3. Session(s, events) BY <3>1, <3>2 DEF Session
    <3>4. sess' = [sess EXCEPT ![c] = s] BY <2>2, <2>3 DEF ClientInv
    <3> QED BY <1>1, <2>1, <3>3, <3>4, SessStep
  <2> QED BY <1>3, <1>7, <2>1, <2>3 DEF Respond
<1>8. ASSUME NEW c \in Clients, InstallState(c) PROVE ClientInv' /\ FileMoves
  <2>1. CASE file.absent
    <3>1. /\ sess[c].pc = "received" /\ file' = Verified(c) /\ sess' = [sess EXCEPT ![c] = [pc |-> "clean"]]
      BY <1>8, <2>1 DEF InstallState
    <3>2. Len(file.events) = 0 BY <2>1 DEF ClientInv, Installable
    <3>3. Len(sess[c].base.events) \in Nat BY <3>1, VerifiedIs DEF Installable, Prefix
    <3>4. PICK s : s = [pc |-> "clean"] OBVIOUS
    <3>5. NoShorter(c) /\ Ends(c, s) BY <3>1, <3>2, <3>3, <3>4 DEF NoShorter, Ends
    <3> QED BY <1>1, <3>1, <3>5, FileInstalled
  <2>2. CASE ~file.absent
    <3>1. UNCHANGED file BY <1>8, <2>2 DEF InstallState
    <3>2. PICK s : s = [pc |-> "clean"] OBVIOUS
    <3>3. CASE sess' = [sess EXCEPT ![c] = s]
      <4>1. Session(s, events) BY <3>2 DEF Session
      <4> QED BY <1>1, <3>1, <3>3, <4>1, SessStep
    <3> QED BY <1>3, <1>8, <3>1, <3>2, <3>3 DEF InstallState
  <2> QED BY <2>1, <2>2
<1>9. ASSUME NEW c \in Clients, ReplaceInstalledState(c) PROVE ClientInv' /\ FileMoves
  <2>1. CASE UnchangedSince(c)
    <3>1. /\ sess[c].pc = "received" /\ file' = Verified(c) /\ sess' = [sess EXCEPT ![c] = Quiet] /\ file = sess[c].base
      BY <1>9, <2>1 DEF ReplaceInstalledState, Quit, UnchangedSince
    <3>2. Len(file.events) \in Nat BY DEF ClientInv, Installable, Prefix
    <3>3. NoShorter(c) /\ Ends(c, Quiet) BY <3>1, <3>2 DEF Quiet, NoShorter, Ends
    <3> QED BY <1>1, <3>1, <3>3, FileInstalled
  <2>2. CASE ~UnchangedSince(c) BY <1>3, <1>9, <2>2 DEF ReplaceInstalledState
  <2> QED BY <2>1, <2>2
<1>10. ASSUME NEW c \in Clients, RemovePending(c) \/ Stop(c) PROVE ClientInv' /\ FileMoves
  BY <1>3, <1>10 DEF RemovePending, Stop
<1> QED BY <1>1, <1>2, <1>4, <1>5, <1>6, <1>7, <1>8, <1>9, <1>10 DEF ClientStep

(* The receiver while the log grows, and while other snapshots come and go. *)
LEMMA RxGrows ==
  ASSUME BlobInv, RxInv, Len(events') \in Nat, Grown(events, events'), UNCHANGED <<snaps, pins, transfers, rx>>
  PROVE  RxInv'
<1>1. CASE rx = NoTransfer BY <1>1 DEF RxInv
<1>2. CASE rx # NoTransfer
  <2>1. Receiver(rx) /\ rx.end <= Len(events) BY <1>2 DEF RxInv
  <2>2. rx.end \in Nat /\ Len(events) \in Nat BY <2>1, LogLength DEF Receiver
  <2>3. Named(events', rx.end) = Named(events, rx.end) BY <2>1, <2>2, NamedStays
  <2>4. rx.end <= Len(events') BY <2>1, <2>2 DEF Grown
  <2> QED BY <1>2, <2>1, <2>3, <2>4 DEF RxInv
<1> QED BY <1>1, <1>2

(* Steps that leave the receiver's transfer as it is, or take it away, keep *)
(* it.                                                                      *)
LEMMA RxKept ==
  ASSUME RxInv, pins \in Nat, UNCHANGED <<events, rx>>, pins' \in Nat, pins <= pins',
         \A i \in DOMAIN transfers' : i <= pins =>
           i \in DOMAIN transfers /\ transfers'[i] = transfers[i] /\ snaps'[i].end = snaps[i].end
  PROVE  RxInv'
<1>1. CASE rx = NoTransfer BY <1>1 DEF RxInv
<1>2. CASE rx # NoTransfer
  <2>1. Receiver(rx) /\ rx.id <= pins BY <1>2 DEF RxInv
  <2>2. rx.id <= pins' BY <2>1 DEF Receiver
  <2> QED BY <1>2, <2>1, <2>2 DEF RxInv
<1> QED BY <1>1, <1>2

(* The transfer r is stored, of a prefix with the blobs bs.                 *)
Stored(r, bs) ==
  /\ Receiver(r) /\ r.end <= Len(events) /\ bs = Named(events, r.end)
  /\ r.id \in DOMAIN transfers /\ snaps[r.id].end = r.end /\ transfers[r.id].start = r.start

(* What the stored row and its snapshot say of the receiver's transfer.     *)
LEMMA StoredIs ==
  ASSUME BlobInv, SnapInv, NEW r, NEW bs, Stored(r, bs)
  PROVE  /\ Span(r.id) = r.end - r.start /\ snaps[r.id].manifest = bs /\ Cardinality(bs) \in Nat
         /\ transfers[r.id] \in [start : Nat, event : Nat, entry : Nat]
         /\ Boundaries(r.end - r.start, Cardinality(bs), transfers[r.id])
         /\ r.end - r.start \in Nat
<1>1. r.end \in Nat /\ r.start \in Nat /\ r.start <= r.end /\ r.end <= Len(events) /\ bs = Named(events, r.end)
  BY DEF Stored, Receiver
<1>2. Pinned(snaps[r.id], events) /\ Carried(transfers[r.id], snaps[r.id]) BY DEF SnapInv, Stored
<1>3. snaps[r.id].manifest = bs BY <1>1, <1>2 DEF Pinned, Stored
<1>4. Cardinality(bs) \in Nat BY <1>1, NamedIs
<1>5. Span(r.id) = r.end - r.start BY DEF Span, Stored
<1>6. transfers[r.id] \in [start : Nat, event : Nat, entry : Nat] BY <1>2 DEF Carried
<1>7. Boundaries(r.end - r.start, Cardinality(bs), transfers[r.id]) BY <1>2, <1>3 DEF Carried, Stored
<1>8. r.end - r.start \in Nat BY <1>1
<1> QED BY <1>3, <1>4, <1>5, <1>6, <1>7, <1>8

(* NextTransfer gives the boundary after a token's.                         *)
LEMMA BoundaryIs ==
  ASSUME BlobInv, SnapInv, NEW r, NEW bs, Stored(r, bs), NEW t, At(r, bs, t)
  PROVE  /\ Boundary(t) = Item(r, bs, Pos(t) + 1) /\ Boundary(t) # <<>>
         /\ Boundary(t)[1] = "event" <=> t.event < r.end - r.start
         /\ Boundary(t)[1] = "entry" <=> t.event = r.end - r.start /\ t.entry < Cardinality(bs)
         /\ Boundary(t)[1] = "complete" <=> Pos(t) = Final(r, bs)
         /\ Pos(t) \in Nat /\ Pos(t) <= Final(r, bs) /\ Final(r, bs) \in Nat
<1>1. PICK n, m, st, en : n = r.end - r.start /\ m = Cardinality(bs) /\ st = r.start /\ en = r.end OBVIOUS
<1>2. /\ Span(r.id) = n /\ snaps[r.id].manifest = bs /\ m \in Nat /\ n \in Nat
  BY <1>1, StoredIs
<1>3. PICK e, k : e = t.event /\ k = t.entry OBVIOUS
<1>4. t.id = r.id /\ e \in 0 .. n /\ k \in 0 .. m /\ (k > 0 => e = n) /\ e \in Nat /\ k \in Nat
  BY <1>1, <1>3 DEF At, Boundaries
<1>5. st \in Nat /\ transfers[r.id].start = st /\ snaps[r.id].end = en BY <1>1 DEF Stored, Receiver
<1>6. Boundary(t) = IF e < n THEN <<"event", st + e + 1>>
                    ELSE IF k < m THEN <<"entry", Ordered(bs)[k + 1]>> ELSE <<"complete", en>>
  BY <1>1, <1>2, <1>3, <1>4, <1>5 DEF Boundary, Manifest
<1>7. Pos(t) = e + k /\ Final(r, bs) = n + m BY <1>1, <1>3 DEF Pos, Final
<1>8. PICK i, b : i = Pos(t) + 1 /\ b = Boundary(t) OBVIOUS
<1>9. Item(r, bs, i) = IF i <= n THEN <<"event", st + i>>
                        ELSE IF i <= n + m THEN <<"entry", Ordered(bs)[i - n]>> ELSE <<"complete", en>>
  BY <1>1 DEF Item
<1>10. SUFFICES /\ b = Item(r, bs, i) /\ b # <<>>
                /\ b[1] = "event" <=> e < n
                /\ b[1] = "entry" <=> e = n /\ k < m
                /\ b[1] = "complete" <=> e + k = n + m
                /\ e + k \in Nat /\ e + k <= n + m /\ n + m \in Nat
  BY <1>1, <1>3, <1>7, <1>8
<1>11. e + k \in Nat /\ e + k <= n + m /\ n + m \in Nat BY <1>2, <1>4
<1>12. CASE e < n
  <2>1. k = 0 BY <1>2, <1>4, <1>12
  <2>2. i <= n /\ i = e + 1 BY <1>2, <1>4, <1>7, <1>8, <1>12, <2>1
  <2>3. st + i = st + e + 1 BY <1>4, <1>5, <2>2
  <2>4. e + k # n + m BY <1>2, <1>4, <1>12, <2>1
  <2>5. b = <<"event", st + e + 1>> BY <1>6, <1>8, <1>12
  <2>6. Item(r, bs, i) = <<"event", st + e + 1>> BY <1>9, <2>2, <2>3
  <2>7. b[1] = "event" /\ b # <<>> BY <2>5
  <2>8. e # n BY <1>2, <1>4, <1>12
  <2> QED BY <1>11, <1>12, <2>4, <2>5, <2>6, <2>7, <2>8
<1>13. CASE e = n /\ k < m
  <2>1. ~(i <= n) /\ i <= n + m /\ i - n = k + 1 BY <1>2, <1>4, <1>7, <1>8, <1>13
  <2>2. e + k # n + m /\ ~(e < n) BY <1>2, <1>4, <1>13
  <2>3. b = <<"entry", Ordered(bs)[k + 1]>> BY <1>6, <1>8, <1>13, <2>2
  <2>4. Item(r, bs, i) = <<"entry", Ordered(bs)[k + 1]>> BY <1>9, <2>1
  <2>5. b[1] = "entry" /\ b # <<>> BY <2>3
  <2> QED BY <1>11, <1>13, <2>2, <2>3, <2>4, <2>5
<1>14. CASE e = n /\ k = m
  <2>1. ~(i <= n) /\ ~(i <= n + m) BY <1>2, <1>4, <1>7, <1>8, <1>14
  <2>2. e + k = n + m /\ ~(e < n) /\ ~(k < m) BY <1>2, <1>4, <1>14
  <2>3. b = <<"complete", en>> BY <1>6, <1>8, <1>14, <2>2
  <2>4. Item(r, bs, i) = <<"complete", en>> BY <1>9, <2>1
  <2>5. b[1] = "complete" /\ b # <<>> BY <2>3
  <2> QED BY <1>11, <1>14, <2>2, <2>3, <2>4, <2>5
<1>15. e < n \/ (e = n /\ k < m) \/ (e = n /\ k = m) BY <1>2, <1>4
<1> QED BY <1>12, <1>13, <1>14, <1>15

(* AcknowledgeTransfer: a token that is behind changes nothing, one that is level *)
(* moves the stored progress by one boundary, unless it is the last.        *)
LEMMA AcknowledgeIs ==
  ASSUME BlobInv, SnapInv, NEW r, NEW bs, Stored(r, bs), NEW t, At(r, bs, t), Honoured(t), Acknowledge(t),
         UNCHANGED <<events, snaps, pins>>
  PROVE  /\ SnapInv' /\ At(r, bs, Token(r.id, transfers'[r.id])) /\ transfers'[r.id].start = r.start
         /\ DOMAIN transfers' = DOMAIN transfers /\ \A i \in DOMAIN transfers : i # r.id => transfers'[i] = transfers[i]
         /\ Pos(t) < Pos(transfers[r.id]) => transfers'[r.id] = transfers[r.id]
         /\ Pos(t) = Pos(transfers[r.id]) /\ Pos(t) = Final(r, bs) => transfers'[r.id] = transfers[r.id]
         /\ Pos(t) = Pos(transfers[r.id]) /\ Pos(t) # Final(r, bs) =>
              Pos(transfers'[r.id]) = Pos(transfers[r.id]) + 1
<1>1. PICK n, m, s, kind_ : n = r.end - r.start /\ m = Cardinality(bs) /\ s = transfers[r.id] /\ kind_ = Boundary(t)[1]
  OBVIOUS
<1>2. /\ snaps[r.id].manifest = bs /\ m \in Nat /\ n \in Nat
      /\ s \in [start : Nat, event : Nat, entry : Nat] /\ Boundaries(n, m, s)
  BY <1>1, StoredIs
<1>3. /\ t.id = r.id /\ t.event \in 0 .. n /\ t.entry \in 0 .. m /\ (t.entry > 0 => t.event = n)
      /\ t.event \in Nat /\ t.entry \in Nat
  BY <1>1 DEF At, Boundaries
<1>4. /\ (kind_ = "event" <=> t.event < n) /\ (kind_ = "entry" <=> t.event = n /\ t.entry < m)
  BY <1>1, BoundaryIs
<1>5. PICK e, k : /\ e = IF kind_ = "event" /\ t.event = s.event THEN s.event + 1 ELSE s.event
                  /\ k = IF kind_ = "entry" /\ t.entry = s.entry THEN s.entry + 1 ELSE s.entry
  OBVIOUS
<1>6. PICK q : q = [start |-> s.start, event |-> e, entry |-> k] OBVIOUS
<1>7. r.id \in DOMAIN transfers /\ s.start = r.start /\ snaps[r.id].end = r.end BY <1>1 DEF Stored
<1>8. [[s EXCEPT !.event = e] EXCEPT !.entry = k] = q
  <2>1. PICK x, y, z : s = [start |-> x, event |-> y, entry |-> z] BY <1>2
  <2>2. PICK f : f = [s EXCEPT !.event = e] OBVIOUS
  <2>3. f = [start |-> x, event |-> e, entry |-> z] BY <2>1, <2>2
  <2>4. [f EXCEPT !.entry = k] = [start |-> x, event |-> e, entry |-> k] BY <2>3
  <2>5. q = [start |-> x, event |-> e, entry |-> k] BY <1>6, <2>1
  <2> QED BY <2>2, <2>4, <2>5
<1>9. /\ DOMAIN transfers' = DOMAIN transfers /\ transfers'[r.id] = q
      /\ \A i \in DOMAIN transfers : i # r.id => transfers'[i] = transfers[i]
  <2>1. transfers' = [[transfers EXCEPT ![r.id].event = e] EXCEPT ![r.id].entry = k]
    <3>1. transfers' = [transfers EXCEPT
            ![r.id].event = IF kind_ = "event" /\ t.event = s.event THEN @ + 1 ELSE @,
            ![r.id].entry = IF kind_ = "entry" /\ t.entry = s.entry THEN @ + 1 ELSE @]
      BY <1>1, <1>3 DEF Acknowledge
    <3> QED BY <1>1, <1>2, <1>5, <1>7, <3>1
  <2> QED BY <1>1, <1>7, <1>8, <2>1
<1>10. s.event \in 0 .. n /\ s.entry \in 0 .. m /\ (s.entry > 0 => s.event = n) BY <1>2 DEF Boundaries
<1>11. /\ e \in 0 .. n /\ k \in 0 .. m /\ (k > 0 => e = n)
  <2>1. PICK x, y : x = s.event /\ y = s.entry OBVIOUS
  <2>2. x \in 0 .. n /\ y \in 0 .. m /\ (y > 0 => x = n) /\ n \in Nat /\ m \in Nat BY <1>2, <1>10, <2>1
  <2>3. CASE kind_ = "event" /\ t.event = x
    <3>1. x < n /\ e = x + 1 /\ k = y BY <1>4, <1>5, <2>1, <2>3
    <3> QED BY <2>2, <3>1
  <2>4. CASE kind_ = "entry" /\ t.entry = y
    <3>1. y < m /\ t.event = n /\ k = y + 1 /\ e = x BY <1>4, <1>5, <2>1, <2>4
    <3>2. t.event <= x BY <1>1, <1>3, <2>1 DEF Honoured
    <3>3. x = n BY <2>2, <3>1, <3>2
    <3> QED BY <2>2, <3>1, <3>3
  <2>5. CASE ~(kind_ = "event" /\ t.event = x) /\ ~(kind_ = "entry" /\ t.entry = y)
    <3>1. e = x /\ k = y BY <1>5, <2>1, <2>5
    <3> QED BY <2>2, <3>1
  <2> QED BY <2>3, <2>4, <2>5
<1>12. q \in [start : Nat, event : Nat, entry : Nat] /\ q.start = s.start /\ q.event = e /\ q.entry = k
  BY <1>2, <1>6, <1>11
<1>13. Carried(q, snaps[r.id])
  <2>1. Carried(s, snaps[r.id]) BY <1>1, <1>7 DEF SnapInv
  <2>2. Boundaries(n, m, q) BY <1>11, <1>12 DEF Boundaries
  <2> QED BY <1>1, <1>2, <1>7, <1>12, <2>1, <2>2 DEF Carried
<1>14. SnapInv' BY <1>9, <1>13 DEF SnapInv
<1>15. At(r, bs, Token(r.id, q)) /\ q.start = r.start
  <2>1. PICK k_ : k_ = Token(r.id, q) OBVIOUS
  <2>2. k_ = [id |-> r.id, event |-> e, entry |-> k] BY <1>12, <2>1 DEF Token
  <2>3. k_ \in [id : {r.id}, event : Nat, entry : Nat] /\ k_.event = e /\ k_.entry = k BY <1>2, <1>11, <2>2
  <2> QED BY <1>1, <1>7, <1>11, <1>12, <2>1, <2>3 DEF At, Boundaries
<1>16. Pos(t) = t.event + t.entry /\ Pos(s) = s.event + s.entry /\ Pos(q) = e + k /\ Final(r, bs) = n + m
  BY <1>1, <1>12 DEF Pos, Final
<1>17. PICK x, y, a, b : x = s.event /\ y = s.entry /\ a = t.event /\ b = t.entry OBVIOUS
<1>18. /\ n \in Nat /\ m \in Nat /\ x \in 0 .. n /\ y \in 0 .. m /\ (y > 0 => x = n)
       /\ a \in 0 .. n /\ b \in 0 .. m /\ (b > 0 => a = n)
  BY <1>2, <1>3, <1>10, <1>17
<1>19. ASSUME ~(kind_ = "event" /\ a = x), ~(kind_ = "entry" /\ b = y) PROVE q = s
  BY <1>2, <1>5, <1>6, <1>17, <1>19
<1>20. ASSUME Pos(t) < Pos(s) PROVE q = s
  <2>1. a + b < x + y BY <1>16, <1>20, <1>17
  <2>2. a < n /\ a = x => b = 0 /\ y = 0 BY <1>18
  <2>3. ~(a < n /\ a = x) BY <1>18, <2>1, <2>2
  <2>4. ~(a = n /\ b < m /\ b = y) BY <1>18, <2>1
  <2> QED BY <1>4, <1>17, <1>19, <2>3, <2>4
<1>21. ASSUME Pos(t) = Pos(s), Pos(t) = Final(r, bs) PROVE q = s
  <2>1. a + b = n + m BY <1>16, <1>21, <1>17
  <2>2. ~(a < n) /\ ~(b < m) BY <1>18, <2>1
  <2> QED BY <1>4, <1>17, <1>19, <2>2
<1>22. ASSUME Pos(t) = Pos(s), Pos(t) # Final(r, bs) PROVE Pos(q) = Pos(s) + 1
  <2>1. t.event = s.event /\ t.entry = s.entry BY <1>2, <1>3, <1>10, <1>16, <1>22
  <2>2. CASE t.event < n
    <3>1. e = s.event + 1 /\ k = s.entry BY <1>4, <1>5, <2>1, <2>2
    <3> QED BY <1>10, <1>16, <3>1
  <2>3. CASE t.event = n
    <3>1. t.entry < m BY <1>2, <1>3, <1>16, <1>22, <2>3
    <3>2. e = s.event /\ k = s.entry + 1 BY <1>2, <1>4, <1>5, <2>1, <2>3, <3>1
    <3> QED BY <1>10, <1>16, <3>2
  <2> QED BY <1>2, <1>3, <2>2, <2>3
<1> QED BY <1>1, <1>9, <1>14, <1>15, <1>20, <1>21, <1>22

(* What a transfer's boundaries depend on.                                  *)
LEMMA ItemSame ==
  ASSUME NEW r, NEW q, NEW bs, q.start = r.start, q.end = r.end, q.id = r.id
  PROVE  /\ \A i : Item(q, bs, i) = Item(r, bs, i)
         /\ Final(q, bs) = Final(r, bs) /\ \A t : At(q, bs, t) <=> At(r, bs, t)
BY DEF Item, Final, At

(* One more item.                                                           *)
LEMMA GotMore ==
  ASSUME NEW r, NEW bs, NEW n \in Nat
  PROVE  /\ Len([i \in 1 .. n |-> Item(r, bs, i)]) = n
         /\ Append([i \in 1 .. n |-> Item(r, bs, i)], Item(r, bs, n + 1)) = [i \in 1 .. n + 1 |-> Item(r, bs, i)]
<1>1. PICK S : S = {Item(r, bs, i) : i \in 1 .. n + 1} OBVIOUS
<1>2. PICK f, g : f = [i \in 1 .. n |-> Item(r, bs, i)] /\ g = [i \in 1 .. n + 1 |-> Item(r, bs, i)] OBVIOUS
<1>3. \A i \in 1 .. n : i \in 1 .. n + 1 OBVIOUS
<1>4. n + 1 \in Nat /\ Item(r, bs, n + 1) \in S /\ \A i \in 1 .. n + 1 : Item(r, bs, i) \in S BY <1>1
<1>5. f \in [1 .. n -> S] /\ g \in [1 .. n + 1 -> S] BY <1>2, <1>3, <1>4
<1>6. f \in Seq(S) /\ Len(f) = n /\ g \in Seq(S) /\ Len(g) = n + 1 BY <1>4, <1>5
<1>7. PICK h : h = Append(f, Item(r, bs, n + 1)) OBVIOUS
<1>8. /\ h \in Seq(S) /\ Len(h) = n + 1 /\ h[n + 1] = Item(r, bs, n + 1) /\ \A i \in 1 .. n : h[i] = f[i]
  BY <1>4, <1>6, <1>7, AppendProperties
<1>9. \A i \in 1 .. n + 1 : h[i] = g[i]
  <2> SUFFICES ASSUME NEW i \in 1 .. n + 1 PROVE h[i] = g[i] OBVIOUS
  <2>1. CASE i \in 1 .. n BY <1>2, <1>8, <2>1
  <2>2. CASE i = n + 1 BY <1>2, <1>8, <2>2
  <2> QED BY <2>1, <2>2
<1>10. h = g BY <1>6, <1>8, <1>9, SeqEqual
<1> QED BY <1>2, <1>6, <1>7, <1>10

(* A token that is honoured is of a transfer that is stored.                *)
LEMMA HonouredStored ==
  ASSUME BlobInv, SnapInv, RxInv, rx.id # 0, NEW t, Honoured(t), NEW bs, bs = Named(events, rx.end),
         At(rx, bs, t)
  PROVE  /\ Receiver(rx) /\ Received(rx, bs) /\ rx.id <= pins /\ rx.end <= Len(events)
         /\ Stored(rx, bs) /\ Level(rx, bs, transfers[rx.id])
<1>1. rx # NoTransfer BY DEF NoTransfer
<1>2. t.id = rx.id BY DEF At
<1>3. rx.id \in DOMAIN transfers BY <1>2 DEF Honoured
<1> QED BY <1>1, <1>3 DEF RxInv, Stored, Level

(* The receiver's state after a step, from its parts.                       *)
LEMMA RxIs ==
  ASSUME NEW r, Receiver(r), rx' = r, r.id <= pins', UNCHANGED events, r.end <= Len(events),
         NEW bs, bs = Named(events, r.end), Received(r, bs),
         r.id \in DOMAIN transfers' => snaps'[r.id].end = r.end /\ Level(r, bs, transfers'[r.id])
  PROVE  RxInv'
BY DEF RxInv

(* Take: the receiver keeps the boundary that NextTransfer answers.         *)
LEMMA TakeKeeps ==
  ASSUME BlobInv, SnapInv, RxInv, Take
  PROVE  RxInv'
<1>1. PICK r, bs : r = rx /\ bs = Named(events, rx.end) OBVIOUS
<1>2. /\ r.id # 0 /\ ~r.done /\ r.taken = <<>> /\ Honoured(r.token) /\ UNCHANGED <<events, snaps, pins, transfers>>
  BY <1>1 DEF Take, blobVars
<1>3. At(r, bs, r.token) BY <1>1, <1>2 DEF RxInv, Received, NoTransfer
<1>4. /\ Receiver(r) /\ Received(r, bs) /\ r.id <= pins /\ r.end <= Len(events)
      /\ Stored(r, bs) /\ Level(r, bs, transfers[r.id])
  BY <1>1, <1>2, <1>3, HonouredStored
<1>5. PICK n, b : n = Pos(r.token) /\ b = Boundary(r.token) OBVIOUS
<1>6. b = Item(r, bs, n + 1) /\ b # <<>> /\ n \in Nat BY <1>3, <1>4, <1>5, BoundaryIs
<1>7. r.got = [i \in 1 .. n |-> Item(r, bs, i)] BY <1>2, <1>4, <1>5 DEF Received, Had
<1>8. Len(r.got) = n /\ Append(r.got, b) = [i \in 1 .. n + 1 |-> Item(r, bs, i)] BY <1>6, <1>7, GotMore
<1>9. PICK g : g = Append(r.got, b) OBVIOUS
<1>10. PICK q : q = [[r EXCEPT !.taken = b] EXCEPT !.got = g] OBVIOUS
<1>11. rx' = q
  <2>1. r.token.event + r.token.entry = n BY <1>5 DEF Pos
  <2>2. rx' = [rx EXCEPT !.taken = b, !.got = IF Len(@) = n THEN Append(@, b) ELSE @]
    BY <1>1, <1>5, <2>1 DEF Take
  <2>3. rx' = [rx EXCEPT !.taken = b, !.got = IF Len(rx.got) = n THEN Append(rx.got, b) ELSE rx.got]
    BY <1>1, <1>4, <2>2 DEF Receiver
  <2> QED BY <1>1, <1>8, <1>9, <1>10, <2>3
<1>12. PICK id, st, en, tk, gt, tn, ak, dn :
         r = [id |-> id, start |-> st, end |-> en, token |-> tk, got |-> gt, taken |-> tn, acked |-> ak, done |-> dn]
  BY <1>4 DEF Receiver
<1>13. q = [id |-> id, start |-> st, end |-> en, token |-> tk, got |-> g, taken |-> b, acked |-> ak, done |-> dn]
  <2>1. [r EXCEPT !.taken = b]
          = [id |-> id, start |-> st, end |-> en, token |-> tk, got |-> gt, taken |-> b, acked |-> ak, done |-> dn]
    BY <1>12
  <2> QED BY <1>10, <2>1
<1>14. /\ q.id = r.id /\ q.start = r.start /\ q.end = r.end /\ q.token = r.token /\ q.acked = r.acked
       /\ q.done = r.done /\ q.taken = b /\ q.got = g
  BY <1>12, <1>13
<1>15. Receiver(q) BY <1>4, <1>13, <1>14 DEF Receiver
<1>16. (\A i : Item(q, bs, i) = Item(r, bs, i)) /\ Final(q, bs) = Final(r, bs) /\ \A t : At(q, bs, t) <=> At(r, bs, t)
  BY <1>14, ItemSame
<1>17. Had(q, bs) = n + 1 BY <1>2, <1>5, <1>6, <1>14 DEF Had
<1>18. Received(q, bs)
  <2>1. q.got = [i \in 1 .. Had(q, bs) |-> Item(q, bs, i)] BY <1>8, <1>9, <1>14, <1>16, <1>17
  <2>2. q.taken = Item(q, bs, Pos(q.token) + 1) BY <1>5, <1>6, <1>14, <1>16
  <2>3. At(q, bs, q.token) /\ (\A t \in q.acked : At(q, bs, t)) /\ q.done \in BOOLEAN /\ ~q.done
    BY <1>2, <1>4, <1>14, <1>16 DEF Received
  <2> QED BY <2>1, <2>2, <2>3 DEF Received
<1>19. Level(q, bs, transfers[q.id]) BY <1>2, <1>4, <1>14, <1>16 DEF Level
<1>20. snaps[q.id].end = q.end BY <1>4, <1>14 DEF Stored
<1> QED BY <1>1, <1>2, <1>4, <1>11, <1>14, <1>15, <1>18, <1>19, <1>20, RxIs

(* What a step makes of the stored progress, seen from the receiver's token: it is *)
(* one boundary ahead, or level at the end; and no older acknowledgment is ahead. *)
LEMMA AckedLevel ==
  ASSUME BlobInv, SnapInv, NEW r, NEW bs, Stored(r, bs), At(r, bs, r.token), \A t \in r.acked : At(r, bs, t),
         Level(r, bs, transfers[r.id]), Honoured(r.token), Acknowledge(r.token), UNCHANGED <<events, snaps, pins>>
  PROVE  LET s == transfers'[r.id] IN
         /\ Pos(s) \in Nat /\ Pos(s) <= Final(r, bs)
         /\ Pos(s) = IF Pos(r.token) = Final(r, bs) THEN Pos(r.token) ELSE Pos(r.token) + 1
         /\ \A t \in r.acked \cup {r.token} : Pos(t) < Pos(s) \/ Pos(t) = Final(r, bs)
<1>1. PICK s, q, n, z : s = transfers[r.id] /\ q = transfers'[r.id] /\ n = Pos(r.token) /\ z = Final(r, bs) OBVIOUS
<1>2. /\ At(r, bs, Token(r.id, q)) /\ (n < Pos(s) => q = s) /\ (n = Pos(s) /\ n = z => q = s)
      /\ (n = Pos(s) /\ n # z => Pos(q) = Pos(s) + 1)
  BY <1>1, AcknowledgeIs
<1>3. \A t : At(r, bs, t) => Pos(t) \in Nat /\ Pos(t) <= z /\ z \in Nat BY <1>1, BoundaryIs
<1>4. Pos(Token(r.id, q)) = Pos(q) BY DEF Pos, Token
<1>5. n \in Nat /\ n <= z /\ z \in Nat /\ Pos(q) \in Nat /\ Pos(q) <= z BY <1>1, <1>2, <1>3, <1>4
<1>6. Pos(s) = n \/ Pos(s) = n + 1 BY <1>1 DEF Level
<1>7. Pos(q) = (IF n = z THEN n ELSE n + 1) /\ Pos(s) <= Pos(q)
  <2>1. CASE Pos(s) = n
    <3>1. CASE n = z BY <1>2, <1>5, <2>1, <3>1
    <3>2. CASE n # z BY <1>2, <1>5, <2>1, <3>2
    <3> QED BY <3>1, <3>2
  <2>2. CASE Pos(s) = n + 1
    <3>1. q = s BY <1>2, <1>5, <2>2
    <3>2. n # z BY <1>5, <2>2, <3>1
    <3> QED BY <1>5, <2>2, <3>1, <3>2
  <2> QED BY <1>6, <2>1, <2>2
<1>8. ASSUME NEW t \in r.acked PROVE Pos(t) < Pos(q) \/ Pos(t) = z
  <2>1. Pos(t) < Pos(s) \/ Pos(t) = z BY <1>1 DEF Level
  <2>2. Pos(t) \in Nat BY <1>3
  <2> QED BY <1>5, <1>6, <1>7, <2>1, <2>2
<1>9. n < Pos(q) \/ n = z BY <1>5, <1>7
<1> QED BY <1>1, <1>5, <1>7, <1>8, <1>9

(* AcknowledgeTransfer, its answer read or lost.                            *)
LEMMA AckKeeps ==
  ASSUME BlobInv, SnapInv, RxInv, NEW o \in Outcomes \ {"crash"}, AcknowledgeTransfer(o)
  PROVE  SnapInv' /\ RxInv'
<1>1. PICK r, bs : r = rx /\ bs = Named(events, rx.end) OBVIOUS
<1>2. /\ r.id # 0 /\ r.taken # <<>> /\ Honoured(r.token) /\ Boundary(r.token) = r.taken /\ Acknowledge(r.token)
      /\ UNCHANGED <<events, snaps, pins>>
  BY <1>1 DEF AcknowledgeTransfer, blobVars
<1>3. At(r, bs, r.token)
  <2>1. r # NoTransfer BY <1>2 DEF NoTransfer
  <2>2. Received(r, bs) BY <1>1, <2>1 DEF RxInv
  <2> QED BY <2>2 DEF Received
<1>4. /\ Receiver(r) /\ Received(r, bs) /\ r.id <= pins /\ r.end <= Len(events)
      /\ Stored(r, bs) /\ Level(r, bs, transfers[r.id])
  BY <1>1, <1>2, <1>3, HonouredStored
<1>5. /\ SnapInv' /\ At(r, bs, Token(r.id, transfers'[r.id])) /\ transfers'[r.id].start = r.start
  BY <1>2, <1>3, <1>4, AcknowledgeIs
<1>6. PICK s, n, z : s = transfers'[r.id] /\ n = Pos(r.token) /\ z = Final(r, bs) OBVIOUS
<1>7. /\ n \in Nat /\ n <= z /\ z \in Nat /\ (r.taken[1] = "complete" <=> n = z)
  BY <1>2, <1>3, <1>4, <1>6, BoundaryIs
<1>8. /\ Pos(s) = (IF n = z THEN n ELSE n + 1)
      /\ \A t \in r.acked \cup {r.token} : Pos(t) < Pos(s) \/ Pos(t) = z
  BY <1>2, <1>3, <1>4, <1>6, AckedLevel DEF Received
<1>9. ~r.done /\ r.got = [i \in 1 .. n + 1 |-> Item(r, bs, i)]
  <2>1. ~r.done BY <1>2, <1>4 DEF Received
  <2>2. Had(r, bs) = n + 1 BY <1>2, <1>6, <2>1 DEF Had
  <2> QED BY <1>4, <2>1, <2>2 DEF Received
<1>10. PICK ak, tn, tk : /\ ak = r.acked \cup {r.token} /\ tn = (IF o = "answered" THEN <<>> ELSE r.taken)
                         /\ tk = (IF o = "answered" THEN Token(r.id, s) ELSE r.token)
  OBVIOUS
<1>11. PICK dn \in BOOLEAN : dn = (o = "answered" /\ r.taken[1] = "complete") OBVIOUS
<1>12. PICK q : q = [id |-> r.id, start |-> r.start, end |-> r.end, token |-> tk, got |-> r.got, taken |-> tn,
                     acked |-> ak, done |-> dn]
  OBVIOUS
<1>13. rx' = q
  <2>1. rx' = [rx EXCEPT !.acked = @ \cup {rx.token}, !.taken = IF o = "answered" THEN <<>> ELSE @,
                         !.done = o = "answered" /\ rx.taken[1] = "complete",
                         !.token = IF o = "answered" THEN Token(rx.id, transfers'[rx.id]) ELSE @]
    BY DEF AcknowledgeTransfer
  <2>2. PICK id, st, en, t0, gt, n0, a0, d0 :
          r = [id |-> id, start |-> st, end |-> en, token |-> t0, got |-> gt, taken |-> n0, acked |-> a0, done |-> d0]
    BY <1>4 DEF Receiver
  <2>3. id = r.id /\ st = r.start /\ en = r.end /\ gt = r.got BY <2>2
  <2>4. rx' = [[[[r EXCEPT !.acked = ak] EXCEPT !.taken = tn] EXCEPT !.done = dn] EXCEPT !.token = tk]
    BY <1>1, <1>6, <1>10, <1>11, <2>1
  <2>5. PICK r1, r2, r3 :
        /\ r1 = [id |-> id, start |-> st, end |-> en, token |-> t0, got |-> gt, taken |-> n0, acked |-> ak, done |-> d0]
        /\ r2 = [id |-> id, start |-> st, end |-> en, token |-> t0, got |-> gt, taken |-> tn, acked |-> ak, done |-> d0]
        /\ r3 = [id |-> id, start |-> st, end |-> en, token |-> t0, got |-> gt, taken |-> tn, acked |-> ak, done |-> dn]
    OBVIOUS
  <2>6. [r EXCEPT !.acked = ak] = r1 BY <2>2, <2>5
  <2>7. [r1 EXCEPT !.taken = tn] = r2 BY <2>5
  <2>8. [r2 EXCEPT !.done = dn] = r3 BY <2>5
  <2>9. [r3 EXCEPT !.token = tk]
          = [id |-> id, start |-> st, end |-> en, token |-> tk, got |-> gt, taken |-> tn, acked |-> ak, done |-> dn]
    BY <2>5
  <2>10. rx' = [r3 EXCEPT !.token = tk] BY <2>4, <2>6, <2>7, <2>8, Zenon
  <2> QED BY <1>12, <2>3, <2>9, <2>10
<1>14. /\ q.id = r.id /\ q.start = r.start /\ q.end = r.end /\ q.token = tk /\ q.acked = ak
       /\ q.done = dn /\ q.taken = tn /\ q.got = r.got
  BY <1>12
<1>15. Receiver(q) BY <1>4, <1>12, <1>14 DEF Receiver
<1>16. (\A i : Item(q, bs, i) = Item(r, bs, i)) /\ Final(q, bs) = z /\ \A t : At(q, bs, t) <=> At(r, bs, t)
  <2>1. q.start = r.start /\ q.end = r.end /\ q.id = r.id BY <1>14
  <2>2. /\ \A i : Item(q, bs, i) = Item(r, bs, i)
        /\ Final(q, bs) = Final(r, bs) /\ \A t : At(q, bs, t) <=> At(r, bs, t)
    BY <2>1, ItemSame
  <2> QED BY <1>6, <2>2
<1>17. At(q, bs, tk) /\ \A t \in ak : At(q, bs, t) BY <1>3, <1>4, <1>5, <1>6, <1>10, <1>16 DEF Received
<1>18. CASE o = "answered"
  <2>1. tk = Token(r.id, s) /\ Pos(tk) = Pos(s) /\ tn = <<>> /\ (dn <=> n = z) BY <1>7, <1>10, <1>11, <1>18 DEF Token, Pos
  <2>2. Had(q, bs) = n + 1
    <3>1. CASE dn BY <1>14, <1>16, <2>1, <3>1 DEF Had
    <3>2. CASE ~dn BY <1>8, <1>14, <2>1, <3>2 DEF Had
    <3> QED BY <3>1, <3>2
  <2>3. Received(q, bs) BY <1>9, <1>11, <1>14, <1>16, <1>17, <2>1, <2>2 DEF Received
  <2>4. Level(q, bs, s) BY <1>5, <1>6, <1>8, <1>10, <1>14, <1>16, <2>1 DEF Level
  <2>5. snaps'[q.id].end = q.end BY <1>2, <1>4, <1>14 DEF Stored
  <2>6. RxInv' BY <1>1, <1>2, <1>4, <1>6, <1>13, <1>14, <1>15, <2>3, <2>4, <2>5, RxIs
  <2> QED BY <1>5, <2>6
<1>19. CASE o # "answered"
  <2>1. tk = r.token /\ tn = r.taken /\ ~dn BY <1>10, <1>11, <1>19
  <2>2. Had(q, bs) = n + 1 BY <1>2, <1>6, <1>14, <2>1 DEF Had
  <2>3. Received(q, bs)
    <3>1. tn = Item(q, bs, Pos(tk) + 1) BY <1>2, <1>4, <1>16, <2>1 DEF Received
    <3> QED BY <1>9, <1>11, <1>14, <1>16, <1>17, <2>1, <2>2, <3>1 DEF Received
  <2>4. Level(q, bs, s) BY <1>2, <1>5, <1>6, <1>8, <1>10, <1>14, <1>16, <2>1 DEF Level
  <2>5. snaps'[q.id].end = q.end BY <1>2, <1>4, <1>14 DEF Stored
  <2>6. RxInv' BY <1>1, <1>2, <1>4, <1>6, <1>13, <1>14, <1>15, <2>3, <2>4, <2>5, RxIs
  <2> QED BY <1>5, <2>6
<1> QED BY <1>18, <1>19

(* A late copy of an acknowledgment moves nothing.                          *)
LEMMA RedeliverKeeps ==
  ASSUME BlobInv, SnapInv, RxInv, Redeliver
  PROVE  SnapInv' /\ RxInv'
<1>1. PICK r, bs : r = rx /\ bs = Named(events, rx.end) OBVIOUS
<1>2. PICK t \in r.acked : Honoured(t) /\ Acknowledge(t) BY <1>1 DEF Redeliver
<1>3. r.id # 0 /\ UNCHANGED <<events, snaps, pins, rx>> BY <1>1 DEF Redeliver, blobVars
<1>4. At(r, bs, t) BY <1>1, <1>2, <1>3 DEF RxInv, Received, NoTransfer
<1>5. Stored(r, bs) /\ Level(r, bs, transfers[r.id]) BY <1>1, <1>2, <1>3, <1>4, HonouredStored
<1>6. PICK s, n, z : s = transfers[r.id] /\ n = Pos(t) /\ z = Final(r, bs) OBVIOUS
<1>7. /\ SnapInv' /\ DOMAIN transfers' = DOMAIN transfers
      /\ \A i \in DOMAIN transfers : i # r.id => transfers'[i] = transfers[i]
      /\ n < Pos(s) => transfers'[r.id] = s
      /\ n = Pos(s) /\ n = z => transfers'[r.id] = s
  BY <1>2, <1>3, <1>4, <1>5, <1>6, AcknowledgeIs
<1>8. n < Pos(s) \/ n = z BY <1>2, <1>5, <1>6 DEF Level
<1>9. ASSUME n = z PROVE n = Pos(s)
  <2>1. PICK x, y, e, k : x = s.event /\ y = s.entry /\ e = t.event /\ k = t.entry OBVIOUS
  <2>2. PICK m, w : m = r.end - r.start /\ w = Cardinality(bs) OBVIOUS
  <2>3. m \in Nat /\ w \in Nat /\ x \in 0 .. m /\ y \in 0 .. w
    BY <1>5, <1>6, <2>1, <2>2, StoredIs DEF Boundaries
  <2>4. e \in Nat /\ k \in Nat /\ e <= x /\ k <= y
    BY <1>2, <1>4, <1>6, <2>1 DEF Honoured, At
  <2>5. n = e + k /\ z = m + w /\ Pos(s) = x + y BY <1>6, <2>1, <2>2 DEF Pos, Final
  <2>6. e <= m /\ k <= w BY <2>3, <2>4
  <2>7. e + k = m + w BY <1>9, <2>5
  <2>8. e = m /\ k = w BY <2>3, <2>4, <2>6, <2>7
  <2>9. x = m /\ y = w BY <2>3, <2>4, <2>8
  <2> QED BY <2>5, <2>8, <2>9
<1>10. \A i \in DOMAIN transfers : transfers'[i] = transfers[i] BY <1>6, <1>7, <1>8, <1>9
<1>11. pins \in Nat BY DEF SnapInv
<1>12. RxInv' BY <1>3, <1>7, <1>10, <1>11, RxKept
<1> QED BY <1>7, <1>12

(* Begin: the receiver starts at the first boundary of a snapshot of the log. *)
LEMMA BeginKeeps ==
  ASSUME BlobInv, SnapInv, NEW start \in Nat, Begin(start)
  PROVE  SnapInv' /\ RxInv'
<1>1. StartTransfer(start) /\ UNCHANGED events BY DEF Begin, blobVars
<1>2. PICK id, n, s : id = pins + 1 /\ n = Len(events) /\ s = [start |-> start, event |-> 0, entry |-> 0] OBVIOUS
<1>3. /\ SnapInv' /\ pins' = id /\ start <= n /\ transfers'[id] = s /\ snaps'[id].end = n
  BY <1>1, <1>2, SnapPins
<1>4. n \in Nat /\ id \in Nat \ {0} BY <1>2, LogLength DEF SnapInv
<1>5. PICK bs : bs = Named(events, n) OBVIOUS
<1>6. Cardinality(bs) \in Nat BY <1>2, <1>4, <1>5, NamedIs
<1>7. PICK tk : tk = [id |-> id, event |-> 0, entry |-> 0] OBVIOUS
<1>8. Token(id, s) = tk BY <1>2, <1>7 DEF Token
<1>9. PICK r : r = [id |-> id, start |-> start, end |-> n, token |-> tk, got |-> <<>>, taken |-> <<>>, acked |-> {},
                    done |-> FALSE]
  OBVIOUS
<1>10. rx' = r BY <1>2, <1>3, <1>8, <1>9 DEF Begin
<1>11. /\ r.id = id /\ r.start = start /\ r.end = n /\ r.token = tk /\ r.got = <<>> /\ r.taken = <<>> /\ r.acked = {}
       /\ r.done = FALSE
  BY <1>9
<1>12. Receiver(r) BY <1>3, <1>4, <1>9, <1>11 DEF Receiver
<1>13. Pos(tk) = 0 /\ Pos(s) = 0 BY <1>2, <1>7 DEF Pos
<1>14. At(r, bs, tk)
  <2>1. PICK k, w : k = n - start /\ w = Cardinality(bs) OBVIOUS
  <2>2. k \in Nat /\ w \in Nat BY <1>3, <1>4, <1>6, <2>1
  <2>3. tk.event = 0 /\ tk.entry = 0 /\ 0 \in 0 .. k /\ 0 \in 0 .. w /\ ~(0 > 0) BY <1>7, <2>2
  <2>4. Boundaries(k, w, tk) BY <2>3 DEF Boundaries
  <2>5. tk \in [id : {r.id}, event : Nat, entry : Nat] BY <1>7, <1>11
  <2> QED BY <1>11, <2>1, <2>4, <2>5 DEF At
<1>15. Had(r, bs) = 0 BY <1>11, <1>13 DEF Had
<1>16. <<>> = [i \in 1 .. 0 |-> Item(r, bs, i)]
  <2>1. 1 .. 0 = {} OBVIOUS
  <2> QED BY <2>1
<1>17. Received(r, bs) BY <1>11, <1>14, <1>15, <1>16 DEF Received
<1>18. Level(r, bs, s) BY <1>2, <1>11, <1>13 DEF Level
<1>19. r.id <= pins' BY <1>3, <1>4, <1>11
<1>20. r.end <= Len(events) BY <1>2, <1>4, <1>11
<1>21. RxInv' BY <1>1, <1>2, <1>3, <1>5, <1>10, <1>11, <1>12, <1>17, <1>18, <1>19, <1>20, RxIs
<1> QED BY <1>3, <1>21

(* Every step of a transfer.                                                *)
LEMMA TransferKeeps ==
  ASSUME BlobInv, SnapInv, RxInv, TransferStep
  PROVE  SnapInv' /\ RxInv' /\ UNCHANGED blobVars
<1>1. pins \in Nat BY DEF SnapInv
<1>2. ASSUME NEW start \in 0 .. Len(events), Begin(start) PROVE SnapInv' /\ RxInv'
  <2>1. start \in Nat BY LogLength
  <2> QED BY <1>2, <2>1, BeginKeeps
<1>3. ASSUME Take PROVE SnapInv' /\ RxInv'
  <2>1. UNCHANGED <<events, snaps, pins, transfers>> BY <1>3 DEF Take, blobVars
  <2>2. SnapInv' BY <2>1 DEF SnapInv
  <2> QED BY <1>3, <2>2, TakeKeeps
<1>4. ASSUME Refused PROVE SnapInv' /\ RxInv'
  <2>1. UNCHANGED <<events, snaps, pins, transfers>> /\ rx' = NoTransfer BY <1>4 DEF Refused, blobVars
  <2>2. SnapInv' BY <2>1 DEF SnapInv
  <2> QED BY <2>1, <2>2 DEF RxInv
<1>5. ASSUME NEW id \in Live, ExpireSnapshot(id) PROVE SnapInv' /\ RxInv'
  <2>1. /\ SnapInv' /\ DOMAIN snaps' = DOMAIN snaps /\ \A i \in DOMAIN snaps : snaps'[i].end = snaps[i].end
    BY <1>5, SnapExpires
  <2>2. UNCHANGED <<events, pins, transfers, rx>> BY <1>5 DEF ExpireSnapshot, blobVars
  <2>3. \A i \in DOMAIN transfers' : i \in DOMAIN transfers /\ transfers'[i] = transfers[i] /\ snaps'[i].end = snaps[i].end
    BY <2>1, <2>2 DEF SnapInv
  <2>4. RxInv' BY <1>1, <2>2, <2>3, RxKept
  <2> QED BY <2>1, <2>4
<1>6. UNCHANGED blobVars
  BY DEF TransferStep, Begin, Take, Redeliver, Refused, AcknowledgeTransfer, ExpireSnapshot
<1> QED BY <1>2, <1>3, <1>4, <1>5, <1>6, RedeliverKeeps, AckKeeps DEF TransferStep

(* What a client's step does to the authority's snapshots.                  *)
LEMMA ClientPins ==
  ASSUME BlobInv, SnapInv, RxInv, ClientInv, ClientStep
  PROVE  SnapInv' /\ RxInv' /\ UNCHANGED blobVars
<1>1. pins \in Nat BY DEF SnapInv
<1>2. UNCHANGED <<blobVars, rx>>
  BY DEF ClientStep, SavePending, Ask, ReadCurrent, PinProduct, Respond, InstallState, RemovePending,
     ReplaceInstalledState, Stop, storeVars, transferVars
<1>3. UNCHANGED <<events, rx>> BY <1>2 DEF blobVars
<1>4. ASSUME UNCHANGED <<snaps, pins, transfers>> PROVE SnapInv' /\ RxInv'
  BY <1>3, <1>4 DEF SnapInv, RxInv
<1>5. ASSUME NEW c \in Clients, PinProduct(c) PROVE SnapInv' /\ RxInv'
  <2>1. CASE ~Pinnable BY <1>4, <1>5, <2>1 DEF PinProduct
  <2>2. CASE Pinnable
    <3>1. PICK n : n = Len(sess[c].base.events) OBVIOUS
    <3>2. sess[c].pc = "count" /\ StartTransfer(n) BY <1>5, <2>2, <3>1 DEF PinProduct
    <3>3. Installable(sess[c].base, events) BY <3>2 DEF ClientInv, Session
    <3>4. n \in Nat BY <3>1, <3>3 DEF Installable
    <3>5. /\ SnapInv' /\ pins' = pins + 1
          /\ DOMAIN transfers' = DOMAIN transfers \cup {pins + 1}
          /\ \A i \in DOMAIN transfers : i <= pins /\ transfers'[i] = transfers[i]
          /\ \A i \in DOMAIN snaps : i <= pins /\ snaps'[i] = snaps[i]
      BY <1>3, <3>2, <3>4, SnapPins
    <3>6. DOMAIN transfers \subseteq DOMAIN snaps BY DEF SnapInv
    <3>7. \A i \in DOMAIN transfers' : i <= pins =>
            i \in DOMAIN transfers /\ transfers'[i] = transfers[i] /\ snaps'[i].end = snaps[i].end
      BY <1>1, <3>5, <3>6
    <3>8. RxInv' BY <1>1, <1>3, <3>5, <3>7, RxKept
    <3> QED BY <3>5, <3>8
  <2> QED BY <2>1, <2>2
<1>6. ASSUME NEW c \in Clients, NEW o \in Outcomes, Respond(c, o) PROVE SnapInv' /\ RxInv'
  <2>1. UNCHANGED pins BY <1>6 DEF Respond
  <2>2. CASE o = "crash" BY <1>4, <1>6, <2>1, <2>2 DEF Respond
  <2>3. CASE o # "crash"
    <3>1. Unpinned({sess[c].id}) BY <1>6, <2>3 DEF Respond, ReleaseSnapshot
    <3>2. /\ SnapInv' /\ DOMAIN transfers' \subseteq DOMAIN transfers
          /\ \A i \in DOMAIN transfers' : transfers'[i] = transfers[i]
          /\ \A i \in DOMAIN snaps' : snaps'[i] = snaps[i]
      BY <1>3, <2>1, <3>1, SnapUnpins
    <3>3. DOMAIN transfers' \subseteq DOMAIN snaps' BY <3>2 DEF SnapInv
    <3>4. RxInv' BY <1>1, <1>3, <2>1, <3>2, <3>3, RxKept
    <3> QED BY <3>2, <3>4
  <2> QED BY <2>2, <2>3
<1>7. ASSUME NEW crash \in BOOLEAN, SavePending(crash) PROVE UNCHANGED <<snaps, pins, transfers>>
  BY <1>7 DEF SavePending, storeVars, transferVars
<1>8. ASSUME NEW c \in Clients,
             Ask(c) \/ ReadCurrent(c) \/ InstallState(c) \/ RemovePending(c) \/ ReplaceInstalledState(c) \/ Stop(c)
      PROVE  UNCHANGED <<snaps, pins, transfers>>
  BY <1>8 DEF Ask, ReadCurrent, InstallState, RemovePending, ReplaceInstalledState, Stop, storeVars, transferVars
<1> QED BY <1>2, <1>4, <1>5, <1>6, <1>7, <1>8 DEF ClientStep

(* The empty store satisfies the invariant.                                 *)
LEMMA StorageStarts ==
  ASSUME Init
  PROVE  StorageInv
<1> USE DEF Init
<1>1. /\ events = <<>> /\ refs = <<>> /\ products = <<>> /\ files = {} /\ snaps = <<>> /\ pins = 0 /\ transfers = <<>>
      /\ rx = NoTransfer /\ file = NoFile /\ sess = [c \in Clients |-> Quiet]
  BY DEF InitBlobs, InitTransfers, InitClient
<1>2. /\ staged = [u \in Uploaders |-> {}] /\ local = [u \in Uploaders |-> {}] /\ up = [u \in Uploaders |-> Idle]
  BY DEF InitBlobs
<1>3. <<>> \in Seq(Events) /\ Len(<<>>) = 0 /\ DOMAIN <<>> = {} OBVIOUS
<1>4. BlobTypes BY <1>1, <1>2, <1>3 DEF BlobTypes
<1>5. Rows(products, files) BY <1>1, <1>3 DEF Rows
<1>6. JournalInv BY <1>2 DEF JournalInv
<1>7. RefInv BY <1>1, <1>3 DEF RefInv
<1>8. SnapInv BY <1>1, <1>3 DEF SnapInv
<1>9. RxInv BY <1>1 DEF RxInv
<1>10. Named(<<>>, 0) = {}
  <2>1. 1 .. 0 = {} OBVIOUS
  <2> QED BY <2>1 DEF Named
<1>11. Installable(NoFile, <<>>)
  <2>1. NoFile.events = <<>> /\ NoFile.manifest = {} BY DEF NoFile
  <2>2. NoFile \in [events : Seq(Events), manifest : SUBSET Blobs, absent : BOOLEAN] BY <1>3 DEF NoFile
  <2>3. Prefix(<<>>, {}, <<>>) BY <1>3, <1>10 DEF Prefix
  <2> QED BY <2>1, <2>2, <2>3 DEF Installable
<1>12. Session(Quiet, <<>>) BY DEF Session, Quiet
<1>13. ClientInv BY <1>1, <1>11, <1>12 DEF ClientInv
<1> QED BY <1>4, <1>5, <1>6, <1>7, <1>8, <1>9, <1>13 DEF StorageInv, BlobInv

(* Every step of the store and of its users keeps the invariant, and moves a *)
(* client's file only forward.                                              *)
LEMMA StorageKeeps ==
  ASSUME StorageInv, [Next]_storageVars
  PROVE  StorageInv' /\ FileMoves
<1> USE DEF StorageInv
<1>1. Len(events) \in Nat /\ events \in Seq(Events) BY LogLength
<1>2. pins \in Nat BY DEF SnapInv
<1>3. ASSUME BlobInv', Grown(events, events'), UNCHANGED <<transferVars, clientVars>> PROVE StorageInv' /\ FileMoves
  <2>1. UNCHANGED <<snaps, pins, transfers, rx, file, sess>> BY <1>3 DEF transferVars, clientVars
  <2>2. Len(events') \in Nat
    <3>1. events' \in Seq(Events) BY <1>3 DEF BlobInv, BlobTypes
    <3> QED BY <3>1
  <2>3. SnapInv' BY <1>1, <1>3, <2>1, <2>2, SnapGrows
  <2>4. ClientInv' BY <1>1, <1>3, <2>1, <2>2, ClientGrows
  <2>5. RxInv' BY <1>3, <2>1, <2>2, RxGrows
  <2>6. FileMoves BY <2>1 DEF FileMoves
  <2> QED BY <1>3, <2>3, <2>4, <2>5, <2>6
<1>4. ASSUME UNCHANGED events PROVE Grown(events, events') BY <1>1, <1>4 DEF Grown
<1>5. ASSUME UNCHANGED blobVars PROVE BlobInv' /\ UNCHANGED events
  <2>1. UNCHANGED <<events, refs, products, files, staged, local, up>> BY <1>5 DEF blobVars
  <2>2. BlobTypes' BY <2>1 DEF BlobInv, BlobTypes
  <2>3. Rows(products, files)' BY <2>1 DEF BlobInv
  <2>4. JournalInv' BY <2>1 DEF BlobInv, JournalInv
  <2>5. RefInv' BY <2>1 DEF BlobInv, RefInv
  <2> QED BY <2>1, <2>2, <2>3, <2>4, <2>5 DEF BlobInv
<1>6. ASSUME UNCHANGED <<events, clientVars>> PROVE ClientInv' /\ FileMoves
  BY <1>6 DEF ClientInv, FileMoves, clientVars
<1>7. CASE (Commands \/ Uploading \/ Expiry) /\ UNCHANGED <<transferVars, clientVars>>
  <2>1. CASE Commands BY <1>3, <1>7, <2>1, CommandKeeps DEF Commands
  <2>2. CASE Uploading BY <1>3, <1>4, <1>7, <2>2, UploadKeeps DEF Uploading
  <2>3. CASE Expiry BY <1>3, <1>4, <1>7, <2>3, ExpiryKeeps DEF Expiry
  <2> QED BY <1>7, <2>1, <2>2, <2>3
<1>8. CASE CollectExpired /\ UNCHANGED clientVars
  <2>1. BlobInv' /\ UNCHANGED events BY <1>8, CollectKeeps
  <2>2. Unpinned(DOMAIN snaps \ Live) /\ UNCHANGED <<pins, rx>> BY <1>8 DEF CollectExpired
  <2>3. /\ SnapInv' /\ DOMAIN transfers' \subseteq DOMAIN transfers
        /\ \A i \in DOMAIN transfers' : transfers'[i] = transfers[i]
        /\ \A i \in DOMAIN snaps' : snaps'[i] = snaps[i]
    BY <2>1, <2>2, SnapUnpins
  <2>4. DOMAIN transfers' \subseteq DOMAIN snaps' BY <2>3 DEF SnapInv
  <2>5. RxInv' BY <1>2, <2>1, <2>2, <2>3, <2>4, RxKept
  <2> QED BY <1>6, <1>8, <2>1, <2>3, <2>5
<1>9. CASE TransferStep /\ UNCHANGED clientVars
  <2>1. SnapInv' /\ RxInv' /\ UNCHANGED blobVars BY <1>9, TransferKeeps
  <2> QED BY <1>5, <1>6, <1>9, <2>1
<1>10. CASE ClientStep
  <2>1. SnapInv' /\ RxInv' /\ UNCHANGED blobVars BY <1>10, ClientPins
  <2>2. ClientInv' /\ FileMoves BY <1>10, ClientKeeps
  <2> QED BY <1>5, <2>1, <2>2
<1>11. CASE UNCHANGED storageVars
  <2>1. UNCHANGED <<blobVars, transferVars, clientVars>> BY <1>11 DEF storageVars, storeVars
  <2> QED BY <1>3, <1>4, <1>5, <2>1
<1> QED BY <1>7, <1>8, <1>9, <1>10, <1>11 DEF Next

(* The invariant of the store, its transfers and its clients.               *)
THEOREM StorageInvariant == Spec => []StorageInv
<1>1. Init => StorageInv BY StorageStarts
<1>2. StorageInv /\ [Next]_storageVars => StorageInv' BY StorageKeeps
<1> QED BY <1>1, <1>2, PTL DEF Spec

(* A client's file only moves to a longer prefix of the authority's log, with the *)
(* manifest of that prefix: EnrollAndSeed's link and PullAndInstall's rename, by *)
(* any number of processes, in any order.                                   *)
THEOREM ClientFileOnlyGrows == Spec => InstalledOnlyGrows
<1>1. StorageInv /\ [Next]_storageVars => FileMoves BY StorageKeeps
<1> QED BY <1>1, StorageInvariant, PTL DEF Spec, InstalledOnlyGrows, FileMoves

(* Every blob that a completed command, a live snapshot or the client's file names *)
(* has a verified row and its file, whatever CollectExpired took.           *)
THEOREM ReferencedIsReadable == Spec => []ReferencedReadable
<1>1. ASSUME StorageInv PROVE ReferencedReadable
  <2> USE <1>1 DEF StorageInv
  <2>1. \A b \in DOMAIN refs : b \in DOMAIN products /\ products[b].verified BY DEF BlobInv, RefInv
  <2>2. \A b \in DOMAIN products : products[b].verified => ProductFile(b) \in files BY DEF BlobInv, Rows, Backed
  <2>3. ASSUME NEW i \in Live PROVE snaps[i].manifest \subseteq DOMAIN refs
    <3>1. Pinned(snaps[i], events) BY DEF SnapInv, Live
    <3>2. PICK n : n = snaps[i].end OBVIOUS
    <3>3. n \in Nat /\ n <= Len(events) /\ snaps[i].manifest = Named(events, n) BY <3>1, <3>2 DEF Pinned
    <3> QED BY <3>3, NamedIs
  <2>4. file.manifest \subseteq DOMAIN refs
    <3>1. PICK n : n = Len(file.events) OBVIOUS
    <3>2. n \in Nat /\ n <= Len(events) /\ file.manifest = Named(events, n) BY <3>1 DEF ClientInv, Installable, Prefix
    <3> QED BY <3>2, NamedIs
  <2> QED BY <2>1, <2>2, <2>3, <2>4 DEF ReferencedReadable
<1> QED BY <1>1, StorageInvariant, PTL

(* Whatever stopped and when, the checks that the authority and the journal run *)
(* when they open find their rows, files and log in agreement.              *)
THEOREM StorageReopens == Spec => []StoreReopens
<1>1. ASSUME StorageInv PROVE StoreReopens
  <2> USE <1>1 DEF StorageInv
  <2>1. journalBlobFiles BY DEF BlobInv, JournalInv, journalBlobFiles
  <2>2. ASSUME NEW cs, NEW e, Tiled(cs, e), NEW i \in 0 .. e - 1
        PROVE  Cardinality({c \in cs : c.at <= i /\ i < c.at + c.size}) = 1
    <3>1. PICK c \in cs : Over(cs, i) = {c} BY <2>2 DEF Tiled
    <3>2. Cardinality({c}) = 1 BY FS_Singleton
    <3>3. Cardinality(Over(cs, i)) = 1 BY <3>1, <3>2
    <3> QED BY <3>3 DEF Over
  <2>3. checkBlobFiles
    <3>1. \A b \in DOMAIN products : Backed(b, products[b], files) BY DEF BlobInv, Rows
    <3>2. ASSUME NEW b \in DOMAIN products, ~products[b].verified PROVE Contiguous(products[b])
      <4>1. Tiled(products[b].chunks, Offset(products[b])) BY <3>1, <3>2 DEF Backed
      <4> QED BY <2>2, <4>1 DEF Contiguous
    <3> QED BY <3>1, <3>2 DEF checkBlobFiles, Backed
  <2>4. checkReferences BY DEF BlobInv, RefInv, BlobTypes, checkReferences
  <2>5. checkSnapshots
    <3>1. SUFFICES ASSUME NEW i \in DOMAIN snaps
                   PROVE  /\ snaps[i].end <= Len(events) /\ snaps[i].manifest = ManifestAt(snaps[i].end)
                          /\ snaps[i].items = ItemsAt(snaps[i].end)
      BY DEF checkSnapshots
    <3>2. Pinned(snaps[i], events) BY DEF SnapInv
    <3>3. PICK n : n = snaps[i].end OBVIOUS
    <3>4. n \in Nat /\ n <= Len(events) BY <3>2, <3>3 DEF Pinned
    <3>5. ManifestAt(n) = Named(events, n) /\ ItemsAt(n) = Born(events, n) BY <3>4, NamedIs
    <3> QED BY <3>2, <3>3, <3>5 DEF Pinned
  <2>6. checkTransfers
    <3>1. SUFFICES ASSUME NEW i \in DOMAIN transfers
                   PROVE  /\ transfers[i].start <= snaps[i].end /\ transfers[i].event <= Span(i)
                          /\ transfers[i].entry <= Cardinality(snaps[i].manifest)
                          /\ transfers[i].entry > 0 => transfers[i].event = Span(i)
      BY DEF checkTransfers
    <3>2. Carried(transfers[i], snaps[i]) BY DEF SnapInv
    <3>3. PICK k : k = Span(i) OBVIOUS
    <3>4. transfers[i].start <= snaps[i].end /\ Boundaries(k, Cardinality(snaps[i].manifest), transfers[i])
      BY <3>2, <3>3 DEF Carried, Span
    <3> QED BY <3>3, <3>4 DEF Boundaries
  <2> QED BY <2>1, <2>3, <2>4, <2>5, <2>6 DEF StoreReopens, checkStep6State
<1> QED BY <1>1, StorageInvariant, PTL

(* The whole of a transfer as the property writes it, and as a list of its items. *)
Whole(r, names) ==
  [i \in 1 .. (r.end - r.start) |-> <<"event", r.start + i>>]
    \o [i \in 1 .. Len(names) |-> <<"entry", names[i]>>]
    \o <<<<"complete", r.end>>>>
Listed(r, bs, n) == [i \in 1 .. n |-> Item(r, bs, i)]

(* A function on 1 .. n is a sequence of length n.                          *)
LEMMA FunctionIsSeq ==
  ASSUME NEW S, NEW n \in Nat, NEW f \in [1 .. n -> S]
  PROVE  f \in Seq(S) /\ Len(f) = n
OBVIOUS

(* Two sequences in a row.                                                  *)
Join(f, g) == f \o g
Row(k, f, g, n, m) == Len(k) = n + m /\ \A i \in 1 .. n + m : k[i] = IF i <= n THEN f[i] ELSE g[i - n]
(* What the two in a row are.                                               *)
LEMMA Joined ==
  ASSUME NEW S, NEW f \in Seq(S), NEW g \in Seq(S), NEW n \in Nat, Len(f) = n, NEW m \in Nat, Len(g) = m
  PROVE  Join(f, g) \in Seq(S) /\ Row(Join(f, g), f, g, n, m)
BY ConcatProperties DEF Join, Row

(* The events of the span, the entries of the manifest and the end are the items *)
(* 1 to Final + 1.                                                          *)
LEMMA WholeIs ==
  ASSUME NEW r, NEW bs, NEW m \in Nat, m = r.end - r.start, NEW w \in Nat, w = Cardinality(bs)
  PROVE  Whole(r, Ordered(bs)) = Listed(r, bs, m + w + 1)
<1>1. PICK S : S = {Item(r, bs, i) : i \in 1 .. m + w + 1} OBVIOUS
<1>2. PICK names : names = Ordered(bs) OBVIOUS
<1>3. Len(names) = w
  <2>1. PICK T : T = {names[i] : i \in 1 .. w} OBVIOUS
  <2>2. names \in [1 .. w -> T] BY <1>2, <2>1 DEF Ordered
  <2> QED BY <2>2, FunctionIsSeq
<1>4. PICK f, g, h : /\ f = [i \in 1 .. m |-> <<"event", r.start + i>>] /\ g = [i \in 1 .. w |-> <<"entry", names[i]>>]
                     /\ h = <<<<"complete", r.end>>>>
  OBVIOUS
<1>5. PICK k, all : k = Join(f, g) /\ all = Join(k, h) OBVIOUS
<1>6. Whole(r, names) = all BY <1>4, <1>3, <1>5 DEF Whole, Join
<1>7. \A i \in 1 .. m : i \in 1 .. m + w + 1 /\ Item(r, bs, i) = <<"event", r.start + i>>
  BY DEF Item
<1>8. \A i : Item(r, bs, i) = IF i <= m THEN <<"event", r.start + i>> ELSE IF i <= m + w THEN <<"entry", names[i - m]>>
                             ELSE <<"complete", r.end>>
  BY <1>2 DEF Item
<1>9. \A i \in 1 .. w : m + i \in 1 .. m + w + 1 /\ Item(r, bs, m + i) = <<"entry", names[i]>>
  <2> SUFFICES ASSUME NEW i \in 1 .. w PROVE m + i \in 1 .. m + w + 1 /\ Item(r, bs, m + i) = <<"entry", names[i]>>
    OBVIOUS
  <2>1. m + i \in 1 .. m + w + 1 /\ ~(m + i <= m) /\ m + i <= m + w /\ m + i - m = i OBVIOUS
  <2> QED BY <1>8, <2>1
<1>10. m + w + 1 \in 1 .. m + w + 1 /\ Item(r, bs, m + w + 1) = <<"complete", r.end>>
  <2>1. m + w + 1 \in 1 .. m + w + 1 /\ ~(m + w + 1 <= m) /\ ~(m + w + 1 <= m + w) OBVIOUS
  <2> QED BY <1>8, <2>1
<1>11. f \in [1 .. m -> S] /\ g \in [1 .. w -> S] /\ <<"complete", r.end>> \in S BY <1>1, <1>4, <1>7, <1>9, <1>10
<1>12. f \in Seq(S) /\ Len(f) = m /\ g \in Seq(S) /\ Len(g) = w BY <1>11, FunctionIsSeq
<1>13. h \in Seq(S) /\ Len(h) = 1 /\ h[1] = <<"complete", r.end>> BY <1>4, <1>11
<1>14. /\ k \in Seq(S) /\ Len(k) = m + w /\ \A i \in 1 .. m + w : k[i] = IF i <= m THEN f[i] ELSE g[i - m]
  <2>1. k \in Seq(S) /\ Row(k, f, g, m, w) BY <1>12, <1>5, Joined
  <2> QED BY <2>1 DEF Row
<1>15. /\ all \in Seq(S) /\ Len(all) = m + w + 1
       /\ \A i \in 1 .. m + w + 1 : all[i] = IF i <= m + w THEN k[i] ELSE h[i - (m + w)]
  <2>1. m + w \in Nat /\ 1 \in Nat OBVIOUS
  <2>2. all \in Seq(S) /\ Row(all, k, h, m + w, 1) BY <1>13, <1>14, <1>5, <2>1, Joined
  <2> QED BY <2>2 DEF Row
<1>16. ASSUME NEW i \in 1 .. m + w + 1 PROVE all[i] = Item(r, bs, i)
  <2>1. CASE i <= m
    <3>1. i \in 1 .. m /\ i \in 1 .. m + w /\ i <= m + w BY <2>1
    <3>2. all[i] = f[i] BY <1>14, <1>15, <2>1, <3>1
    <3> QED BY <1>4, <1>7, <3>1, <3>2
  <2>2. CASE ~(i <= m) /\ i <= m + w
    <3>1. i \in 1 .. m + w /\ i - m \in 1 .. w /\ m + (i - m) = i BY <2>2
    <3>2. all[i] = g[i - m] BY <1>14, <1>15, <2>2, <3>1
    <3> QED BY <1>4, <1>9, <3>1, <3>2
  <2>3. CASE ~(i <= m + w)
    <3>1. i = m + w + 1 /\ i - (m + w) = 1 BY <2>3
    <3> QED BY <1>10, <1>13, <1>15, <2>3, <3>1
  <2> QED BY <2>1, <2>2, <2>3
<1>17. PICK d, l : l = m + w + 1 /\ d = [i \in 1 .. l |-> Item(r, bs, i)] OBVIOUS
<1>18. l \in Nat /\ d \in [1 .. l -> S] BY <1>1, <1>17
<1>19. d \in Seq(S) /\ Len(d) = l BY <1>18, FunctionIsSeq
<1>20. all = d
  <2>1. \A i \in 1 .. m + w + 1 : all[i] = d[i] BY <1>16, <1>17
  <2> QED BY <1>15, <1>17, <1>19, <2>1, SeqEqual
<1> QED BY <1>2, <1>6, <1>17, <1>20 DEF Listed

(* The first of a list of items are a prefix of more of them.               *)
LEMMA ItemsPrefix ==
  ASSUME NEW r, NEW bs, NEW n \in Nat, NEW k \in Nat, n <= k
  PROVE  /\ Len(Listed(r, bs, n)) = n /\ Len(Listed(r, bs, k)) = k
         /\ Listed(r, bs, n) = SubSeq(Listed(r, bs, k), 1, n)
<1>1. PICK S : S = {Item(r, bs, i) : i \in 1 .. k} OBVIOUS
<1>2. PICK f, g : f = [i \in 1 .. n |-> Item(r, bs, i)] /\ g = [i \in 1 .. k |-> Item(r, bs, i)] OBVIOUS
<1>3. \A i \in 1 .. n : i \in 1 .. k OBVIOUS
<1>4. f \in [1 .. n -> S] /\ g \in [1 .. k -> S] BY <1>1, <1>2, <1>3
<1>5. f \in Seq(S) /\ Len(f) = n /\ g \in Seq(S) /\ Len(g) = k BY <1>4, FunctionIsSeq
<1>6. \A i \in 1 .. n : f[i] = g[i] BY <1>2, <1>3
<1>7. f = SubSeq(g, 1, n) BY <1>5, <1>6, FirstPart
<1> QED BY <1>2, <1>5, <1>7 DEF Listed

(* Whatever answers NextTransfer and AcknowledgeTransfer lost, whatever copies of *)
(* acknowledgments came late and however the log grew, a receiver has a prefix of *)
(* what it asked for, each boundary once and in order, and all of it at the end. *)
THEOREM TransfersAreExact == Spec => []TransferIsExact
<1>1. ASSUME StorageInv PROVE TransferIsExact
  <2> USE <1>1 DEF StorageInv
  <2>1. SUFFICES ASSUME rx.id # 0, NEW bs, bs = Named(events, rx.end), NEW all, all = Whole(rx, Ordered(bs))
                 PROVE  /\ Len(rx.got) <= Len(all) /\ rx.got = SubSeq(all, 1, Len(rx.got))
                        /\ rx.done => rx.got = all
    BY DEF TransferIsExact, Whole, Named
  <2>2. PICK m, w : m = rx.end - rx.start /\ w = Cardinality(bs) OBVIOUS
  <2>3. Receiver(rx) /\ rx.end <= Len(events) /\ Received(rx, bs) BY <2>1 DEF RxInv, NoTransfer
  <2>4. rx.end \in Nat /\ m \in Nat BY <2>2, <2>3 DEF Receiver
  <2>5. w \in Nat BY <2>1, <2>2, <2>3, <2>4, NamedIs
  <2>6. PICK l : l = m + w + 1 OBVIOUS
  <2>7. all = Listed(rx, bs, l) /\ l \in Nat BY <2>1, <2>2, <2>4, <2>5, <2>6, WholeIs
  <2>8. PICK n : n = Had(rx, bs) OBVIOUS
  <2>9. rx.got = Listed(rx, bs, n) BY <2>3, <2>8 DEF Received, Listed
  <2>10. n \in Nat /\ n <= l /\ (rx.done => n = l)
    <3>1. PICK x, y : x = rx.token.event /\ y = rx.token.entry OBVIOUS
    <3>2. x \in 0 .. m /\ y \in 0 .. w BY <2>2, <2>3, <3>1 DEF Received, At, Boundaries
    <3>3. Pos(rx.token) = x + y BY <3>1 DEF Pos
    <3>4. n = (IF rx.done THEN m + w + 1 ELSE IF rx.taken = <<>> THEN x + y ELSE x + y + 1)
      BY <2>2, <2>8, <3>3 DEF Had, Final
    <3> QED BY <2>4, <2>5, <2>6, <3>2, <3>4
  <2>11. Len(rx.got) = n /\ Len(all) = l /\ rx.got = SubSeq(all, 1, n) BY <2>7, <2>9, <2>10, ItemsPrefix
  <2>12. rx.done => rx.got = all BY <2>7, <2>9, <2>10
  <2> QED BY <2>10, <2>11, <2>12
<1> QED BY <1>1, StorageInvariant, PTL
=============================================================================
