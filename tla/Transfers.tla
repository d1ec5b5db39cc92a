------------------------------ MODULE Transfers -------------------------------
(***************************************************************************)
(* Pinned snapshots of the authority's log and the transfers that carry    *)
(* them to an Environment, one acknowledged boundary at a time.            *)
(*                                                                         *)
(* A transfer delivers the events after the Environment's prefix, then the *)
(* blob manifest of the pinned prefix.  Its progress is stored; the token  *)
(* the receiver presents repeats it, signed.  A token that is one boundary *)
(* behind is honoured (its acknowledgment's answer was lost), an older one *)
(* is not.  A digest is a chain over what it covers, so two digests are    *)
(* equal exactly when what they cover is: an anchor is its event count.    *)
(* No operation changes a domain's epoch, so the epoch fence never bites.  *)
(***************************************************************************)
EXTENDS Blobs

CONSTANTS
    MaxLive, \* maxLiveSnapshots
    MaxPins  \* bound: snapshots pinned in a behaviour

VARIABLES
    snaps,     \* snapshots with their entries and items, a partial function of the id
    pins,      \* how many ids were used
    transfers, \* transfers: a partial function of the snapshot's id
    rx         \* the receiver of a resumable transfer

transferVars == <<snaps, pins, transfers, rx>>

NoTransfer == [id |-> 0]

InitTransfers ==
    /\ snaps = <<>>
    /\ pins = 0
    /\ transfers = <<>>
    /\ rx = NoTransfer

------------------------------------------------------------------------------
(* Snapshots *)

\* The manifest of a prefix: the references first made in it that are verified.
ManifestAt(end) == {b \in DOMAIN refs \cap DOMAIN products : refs[b] <= end /\ products[b].verified}

\* matterSnapshotItemsAt: the Matters born in a prefix.
ItemsAt(end) == {i \in 1..end : events[i].matter}

Live == {i \in DOMAIN snaps : ~snaps[i].expired}
Pinnable == Cardinality(Live) < MaxLive /\ pins < MaxPins

\* pinSnapshotTx: the log, the manifest and the items as they are now.
Pin ==
    [end |-> Len(events), manifest |-> ManifestAt(Len(events)),
     items |-> ItemsAt(Len(events)), expired |-> FALSE]

Unpinned(ids) ==
    /\ snaps' = Restrict(snaps, DOMAIN snaps \ ids)
    /\ transfers' = Restrict(transfers, DOMAIN transfers \ ids)

\* Store.StartTransfer: the snapshot and the transfer's row in one transaction.
StartTransfer(start) ==
    /\ Pinnable
    /\ start <= Len(events)
    /\ pins' = pins + 1
    /\ snaps' = With(snaps, pins + 1, Pin)
    /\ transfers' = With(transfers, pins + 1, [start |-> start, event |-> 0, entry |-> 0])

\* Store.ReleaseSnapshot; the transfer's row goes with it.
ReleaseSnapshot(id) == Unpinned({id})

ExpireSnapshot(id) ==
    /\ id \in Live
    /\ snaps' = [snaps EXCEPT ![id].expired = TRUE]
    /\ UNCHANGED <<blobVars, pins, transfers, rx>>

\* The products CollectExpired drops.
MutCollectable(kept) == {b \in DOMAIN products : products[b].expired}
Collectable(kept) ==
    {b \in DOMAIN products :
        /\ products[b].expired
        /\ b \notin DOMAIN refs
        /\ \A i \in kept : b \notin snaps[i].manifest}

\* collectBlobFiles: what no row names.
Garbage(ps) ==
    files \ ({ChunkFile(c) : c \in UNION {ps[b].chunks : b \in DOMAIN ps}}
             \cup {ProductFile(b) : b \in {x \in DOMAIN ps : ps[x].verified}})

\* Store.CollectExpired: rows in one transaction, then files one by one until
\* done or the process stops.
CollectExpired ==
    LET gone == DOMAIN snaps \ Live
        kept == Restrict(products, DOMAIN products \ Collectable(Live))
    IN  /\ Unpinned(gone)
        /\ products' = kept
        /\ \E removed \in SUBSET Garbage(kept) : files' = files \ removed
        /\ UNCHANGED <<events, refs, staged, local, up, pins, rx>>

------------------------------------------------------------------------------
(* Transfers *)

\* A set of blobs in digest order.
Ordered(bs) == [i \in 1..Cardinality(bs) |-> CHOOSE b \in bs : Cardinality({x \in bs : x < b}) = i - 1]
Manifest(id) == Ordered(snaps[id].manifest)
Span(id) == snaps[id].end - transfers[id].start

\* transferState: the snapshot is there and unexpired, and the token is at most
\* one boundary behind.
Honoured(t) ==
    /\ t.id \in DOMAIN transfers
    /\ ~snaps[t.id].expired
    /\ t.event <= transfers[t.id].event
    /\ t.entry <= transfers[t.id].entry
    /\ (transfers[t.id].event - t.event) + (transfers[t.id].entry - t.entry) <= 1
    /\ t.entry > 0 => t.event = Span(t.id)

\* NextTransfer: the boundary at the token's ordinals, whatever is stored.
Boundary(t) ==
    IF t.event < Span(t.id)
    THEN <<"event", transfers[t.id].start + t.event + 1>>
    ELSE IF t.entry < Cardinality(snaps[t.id].manifest)
         THEN <<"entry", Manifest(t.id)[t.entry + 1]>>
         ELSE <<"complete", snaps[t.id].end>>

\* Any token that is honoured advances it.
MutAcknowledge(t) ==
    LET stored == transfers[t.id]
        kind == Boundary(t)[1]
    IN  transfers' = [transfers EXCEPT
            ![t.id].event = IF kind = "event" /\ stored.event < Span(t.id) THEN @ + 1 ELSE @,
            ![t.id].entry = IF kind = "entry" /\ stored.entry < Len(Manifest(t.id)) THEN @ + 1 ELSE @]

\* AcknowledgeTransfer: only a token that is level with the stored progress
\* advances it.
Acknowledge(t) ==
    LET stored == transfers[t.id]
        kind == Boundary(t)[1]
    IN  transfers' = [transfers EXCEPT
            ![t.id].event = IF kind = "event" /\ t.event = stored.event THEN @ + 1 ELSE @,
            ![t.id].entry = IF kind = "entry" /\ t.entry = stored.entry THEN @ + 1 ELSE @]

Token(id, t) == [id |-> id, event |-> t.event, entry |-> t.entry]

\* The receiver: it presents its token, keeps the boundary if it is the one
\* after those it has, and acknowledges it with the boundary's digest.  An
\* answer may be lost; an acknowledgment may be delivered again later.
Take ==
    /\ rx.id # 0
    /\ ~rx.done
    /\ Honoured(rx.token)
    /\ rx.taken = <<>>
    /\ LET b == Boundary(rx.token)
           at == rx.token.event + rx.token.entry
       IN  rx' = [rx EXCEPT !.taken = b,
                            !.got = IF Len(@) = at THEN Append(@, b) ELSE @]
    /\ UNCHANGED <<blobVars, snaps, pins, transfers>>

AcknowledgeTransfer(o) ==
    /\ rx.id # 0
    /\ rx.taken # <<>>
    /\ Honoured(rx.token)
    /\ Boundary(rx.token) = rx.taken
    /\ Acknowledge(rx.token)
    /\ rx' = [rx EXCEPT !.acked = @ \cup {rx.token},
                        !.taken = IF o = "answered" THEN <<>> ELSE @,
                        !.done = o = "answered" /\ rx.taken[1] = "complete",
                        !.token = IF o = "answered" THEN Token(rx.id, transfers'[rx.id]) ELSE @]
    /\ UNCHANGED <<blobVars, snaps, pins>>

\* A late copy of an acknowledgment, its answer unread.
Redeliver ==
    /\ rx.id # 0
    /\ \E t \in rx.acked : Honoured(t) /\ Acknowledge(t)
    /\ UNCHANGED <<blobVars, snaps, pins, rx>>

\* The receiver asks for everything after its first `start` events.
Begin(start) ==
    /\ rx.id = 0
    /\ StartTransfer(start)
    /\ rx' = [id |-> pins', start |-> start, end |-> Len(events), token |-> Token(pins', transfers'[pins']),
              got |-> <<>>, taken |-> <<>>, acked |-> {}, done |-> FALSE]
    /\ UNCHANGED blobVars

\* Its token is refused for good: it starts again.
Refused ==
    /\ rx.id # 0
    /\ rx.done \/ ~Honoured(rx.token)
    /\ rx' = NoTransfer
    /\ UNCHANGED <<blobVars, snaps, pins, transfers>>

TransferStep ==
    \/ \E start \in 0..Len(events) : Begin(start)
    \/ Take \/ Redeliver \/ Refused
    \/ \E o \in Outcomes \ {"crash"} : AcknowledgeTransfer(o)
    \/ \E id \in Live : ExpireSnapshot(id)

\* checkStep6State, when the store is opened.
checkReferences ==
    \A b \in DOMAIN refs :
        /\ b \in DOMAIN products /\ products[b].verified
        /\ refs[b] <= Len(events) /\ b \in events[refs[b]].blobs
checkSnapshots ==
    \A i \in DOMAIN snaps :
        /\ snaps[i].end <= Len(events)
        /\ snaps[i].manifest = ManifestAt(snaps[i].end)
        /\ snaps[i].items = ItemsAt(snaps[i].end)
checkTransfers ==
    \A i \in DOMAIN transfers :
        LET t == transfers[i] IN
        /\ t.start <= snaps[i].end
        /\ t.event <= Span(i)
        /\ t.entry <= Cardinality(snaps[i].manifest)
        /\ t.entry > 0 => t.event = Span(i)
checkStep6State == checkReferences /\ checkSnapshots /\ checkTransfers
===============================================================================
