----------------------------- MODULE ClientState ------------------------------
(***************************************************************************)
(* An Environment's client state file: the pending identity, enrollment    *)
(* with the first seed, and pulls that replace the file, by any number of  *)
(* processes of the Environment at once, against the authority's exchange  *)
(* that pins a product, answers it and releases the pin.                   *)
(*                                                                         *)
(* The file is created by a link that never replaces one and replaced by a *)
(* rename under a lock, only while it still holds the bytes the pull       *)
(* started from.  A file is what it says: the events of its prefix and the *)
(* digests of its manifest.                                                *)
(***************************************************************************)
EXTENDS Transfers

CONSTANTS
    Clients, \* processes of the Environment that seed or pull
    MaxPull  \* labMaxTransferEvents: events one exchange may carry

VARIABLES
    pending, \* the pending identity: "none", "torn" or "whole"
    file,    \* the client state file
    sess     \* what each process is doing

clientVars == <<pending, file, sess>>
storeVars == <<blobVars, transferVars>>

NoFile == [events |-> <<>>, manifest |-> {}, absent |-> TRUE]
Quiet == [pc |-> "idle"]

InitClient ==
    /\ pending = "none"
    /\ file = NoFile
    /\ sess = [c \in Clients |-> Quiet]

\* SavePending: create-only, then the bytes; a crash between leaves a file that
\* LoadPending refuses and no later SavePending replaces.  It does not look for
\* a state file.
SavePending(crash) ==
    /\ pending = "none"
    /\ pending' = IF crash THEN "torn" ELSE "whole"
    /\ UNCHANGED <<storeVars, file, sess>>

\* LoadPending: an identity that decodes.  loadInstalledState: a state file.
LoadPending == pending = "whole"
loadInstalledState == ~file.absent

\* EnrollAndSeed up to the seed request: no file yet, and a pending identity
\* that loads.  PullAndInstall up to the pull request: the file as it is.
Ask(c) ==
    /\ sess[c] = Quiet
    /\ loadInstalledState \/ LoadPending
    /\ sess' = [sess EXCEPT ![c] = [pc |-> "ask", base |-> file]]
    /\ UNCHANGED <<storeVars, pending, file>>

Quit(c) == sess' = [sess EXCEPT ![c] = Quiet]

\* transferProduct, first transaction: how far the log is.
ReadCurrent(c) ==
    /\ sess[c].pc = "ask"
    /\ IF Len(events) - Len(sess[c].base.events) <= MaxPull
       THEN sess' = [sess EXCEPT ![c] = [pc |-> "count", base |-> @.base, current |-> Len(events)]]
       ELSE Quit(c)
    /\ UNCHANGED <<storeVars, pending, file>>

\* transferProduct: what was pinned must end where the log was counted.
Product(c) == sess[c].current = Len(events)

\* transferProduct, second transaction: the log may have grown since.
PinProduct(c) ==
    /\ sess[c].pc = "count"
    /\ IF Pinnable
       THEN /\ StartTransfer(Len(sess[c].base.events))
            /\ sess' = [sess EXCEPT ![c] = 
                            [pc |-> "built", base |-> @.base, id |-> pins + 1, whole |-> Product(c),
                             delta |-> SubSeq(events, Len(@.base.events) + 1, Len(events)),
                             manifest |-> ManifestAt(Len(events))]]
       ELSE /\ Quit(c)
            /\ UNCHANGED <<snaps, pins, transfers>>
    /\ UNCHANGED <<blobVars, rx, pending, file>>

\* The deferred release, then the frames; they may not all arrive.  A crash of
\* the authority before the release leaves the pin until it expires.
Respond(c, o) ==
    /\ sess[c].pc = "built"
    /\ IF o = "crash" THEN UNCHANGED <<snaps, transfers>> ELSE ReleaseSnapshot(sess[c].id)
    /\ IF o = "answered" /\ sess[c].whole
       THEN sess' = [sess EXCEPT ![c].pc = "received"]
       ELSE Quit(c)
    /\ UNCHANGED <<blobVars, pins, rx, pending, file>>

\* verifyTransferFrames: the records after the prior ones, and their manifest.
Verified(c) ==
    [events |-> sess[c].base.events \o sess[c].delta, manifest |-> sess[c].manifest, absent |-> FALSE]

\* installState: the link never replaces a file.  One with the same bytes is as
\* good as installed: enrolling again with one pending identity is answered with
\* the certificate already issued, so the bytes differ only in what was seeded.
InstallState(c) ==
    /\ sess[c].pc = "received"
    /\ sess[c].base.absent
    /\ file' = IF file.absent THEN Verified(c) ELSE file
    /\ IF file' = Verified(c) THEN sess' = [sess EXCEPT ![c] = [pc |-> "clean"]] ELSE Quit(c)
    /\ UNCHANGED <<storeVars, pending>>

\* EnrollAndSeed removes the pending identity last.
RemovePending(c) ==
    /\ sess[c].pc = "clean"
    /\ pending' = "none"
    /\ Quit(c)
    /\ UNCHANGED <<storeVars, file>>

MutUnchangedSince(c) == TRUE
\* replaceInstalledStateLocked: the file still holds the bytes read at the start.
UnchangedSince(c) == file = sess[c].base

\* replaceInstalledState, under the file's lock; the rename is the commit point.
ReplaceInstalledState(c) ==
    /\ sess[c].pc = "received"
    /\ ~sess[c].base.absent
    /\ file' = IF UnchangedSince(c) THEN Verified(c) ELSE file
    /\ Quit(c)
    /\ UNCHANGED <<storeVars, pending>>

\* The process stops; what it wrote under a temporary name is never read.
Stop(c) ==
    /\ sess[c] # Quiet
    /\ sess[c].pc # "built"
    /\ Quit(c)
    /\ UNCHANGED <<storeVars, pending, file>>

ClientStep ==
    \/ \E crash \in BOOLEAN : SavePending(crash)
    \/ \E c \in Clients :
        \/ Ask(c) \/ ReadCurrent(c) \/ PinProduct(c)
        \/ \E o \in Outcomes : Respond(c, o)
        \/ InstallState(c) \/ RemovePending(c) \/ ReplaceInstalledState(c) \/ Stop(c)
===============================================================================
