------------------------------- MODULE Storage --------------------------------
(***************************************************************************)
(* What the authority's store, the journals and a client's state file keep *)
(* of blobs, snapshots and transfers, used by all of them at once: uploads,*)
(* commands, expiry and collection, resumable transfers, seeds and pulls.  *)
(***************************************************************************)
EXTENDS ClientState

storageVars == <<storeVars, clientVars>>

Init == InitBlobs /\ InitTransfers /\ InitClient

Commands == \E bs \in SUBSET Blobs, matter \in BOOLEAN : CompleteCommand(bs, matter)
Uploading == \E u \in Uploaders : Upload(u, Blobs)
Expiry == \E b \in Blobs : ExpireProduct(b)

Next ==
    \/ (Commands \/ Uploading \/ Expiry) /\ UNCHANGED <<transferVars, clientVars>>
    \/ (CollectExpired \/ TransferStep) /\ UNCHANGED clientVars
    \/ ClientStep

Spec == Init /\ [][Next]_storageVars

------------------------------------------------------------------------------
(* Properties *)

\* A blob that a successful command declared, that a live snapshot pins or that
\* the client's file names can be read: its verified row and its file outlive
\* expiry, collection and every stop between a row and a file.
ReferencedReadable ==
    \A b \in DOMAIN refs \cup (UNION {snaps[i].manifest : i \in Live}) \cup file.manifest :
        b \in DOMAIN products /\ products[b].verified /\ ProductFile(b) \in files

\* Whenever the authority or the journal stops, the checks of the next open
\* hold: every row has its file, the chunks are contiguous, the references,
\* snapshots and transfers agree with the log.
StoreReopens == checkBlobFiles /\ checkStep6State /\ journalBlobFiles

\* What the receiver of a resumable transfer has is, at every moment and
\* whatever was lost, repeated or appended meanwhile, a prefix of: the events of
\* its span, each once and in order, the blobs the prefix refers to, the end.
TransferIsExact ==
    rx.id # 0 =>
        LET names == Ordered(UNION {events[i].blobs : i \in 1..rx.end})
            all == [i \in 1..(rx.end - rx.start) |-> <<"event", rx.start + i>>]
                     \o [i \in 1..Len(names) |-> <<"entry", names[i]>>]
                     \o <<<<"complete", rx.end>>>>
        IN  /\ Len(rx.got) <= Len(all) /\ rx.got = SubSeq(all, 1, Len(rx.got))
            /\ rx.done => rx.got = all

\* The client's file only moves to a longer prefix of the authority's log, with
\* the manifest of that very prefix, whichever of several pulls ends last.
InstalledOnlyGrows ==
    [][file' # file =>
        /\ Len(file'.events) \in Len(file.events)..Len(events)
        /\ file'.events = SubSeq(events, 1, Len(file'.events))
        /\ file'.manifest = UNION {events[i].blobs : i \in 1..Len(file'.events)}]_storageVars
===============================================================================
