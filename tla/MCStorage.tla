------------------------------ MODULE MCStorage -------------------------------
(***************************************************************************)
(* Instances of what the stores keep: blobs and their upload, resumable    *)
(* transfers, the client state file, and the upgrade of older databases.   *)
(* mode names the scenario.                                                *)
(***************************************************************************)
EXTENDS Storage, Upgrades

CONSTANTS u1, u2, c1, c2, p1

VARIABLE mode
mcVars == <<storageVars, upgradeVars, mode>>

\* Values of the constants: two small blobs, chunks of one and of two bytes.
MCSize == <<2, 1>>
MCLimit == (u1 :> 1) @@ (u2 :> 2)
MCCorrupt == {u2}

Whole(b, expired) == [length |-> Size[b], chunks |-> {}, verified |-> TRUE, expired |-> expired]
Event(bs, matter) == [blobs |-> bs, matter |-> matter]

\* A log of n events: a Matter's birth, with blob 1, then another command; blob
\* 2 was uploaded and nothing refers to it.
Kept(n) ==
    /\ events = SubSeq(<<Event({1}, TRUE), Event({}, FALSE)>>, 1, n)
    /\ refs = (1 :> 1)
    /\ products = (1 :> Whole(1, TRUE)) @@ (2 :> Whole(2, FALSE))
    /\ files = {ProductFile(1), ProductFile(2)}
    /\ staged = [u \in Uploaders |-> {}] /\ local = [u \in Uploaders |-> {}]
    /\ up = [u \in Uploaders |-> Idle]

InitUpload == mode = "upload" /\ InitBlobs /\ InitClient
InitResume == mode = "resume" /\ Kept(2) /\ InitClient
InitPull == mode = "pull" /\ Kept(1) /\ InitClient

AtRest == InitUpgrades("journal", 11, "plain", {p1})

Histories ==
    {<<"authority", v, "plain">> : v \in {Absent, 1, 6, 11, 17}}
      \cup {<<"authority", 2, "artifacts">>, <<"authority", 11, "unfolded">>, <<"authority", 14, "unwitnessed">>,
            <<"authority", 15, "journal-fenced">>, <<"authority", 14, "early-sweep">>}
      \cup {<<"journal", v, "plain">> : v \in {Absent, 4}}
      \cup {<<"journal", 1, "journaled">>, <<"journal", 4, "readiness">>}
      \cup {<<"local", v, "plain">> : v \in {11, 13}}
      \cup {<<"local", 1, "legacy-run">>, <<"local", 1, "anonymous-batch">>, <<"local", 2, "anonymous-batch">>,
            <<"local", 12, "unfoldable">>}

InitHistory ==
    /\ mode = "upgrade" /\ InitBlobs /\ InitClient
    /\ \E h \in Histories : InitUpgrades(h[1], h[2], h[3], IF h[1] = "local" THEN Openers ELSE {p1})

MCInit ==
    /\ InitTransfers
    /\ \/ (InitUpload \/ InitResume \/ InitPull) /\ AtRest
       \/ InitHistory

\* The commands of each scenario: what they declare, and if they bear a Matter.
CommandsOf ==
    /\ \/ mode = "upload" /\ events = <<>> /\ \E bs \in SUBSET Blobs : CompleteCommand(bs, FALSE)
       \/ mode = "resume" /\ \E matter \in BOOLEAN : CompleteCommand({2}, matter)
       \/ mode = "pull" /\ \E bs \in {{}, {2}} : CompleteCommand(bs, FALSE)
    /\ UNCHANGED transferVars
Uploads(u) == IF u = u1 THEN Blobs ELSE {1}
ExpiryOf ==
    \/ /\ mode \in {"upload", "resume"}
       /\ \E b \in Blobs : ExpireProduct(b) /\ UNCHANGED transferVars
    \/ mode \in {"upload", "resume"} /\ CollectExpired

StoreNext ==
    /\ \/ CommandsOf \/ ExpiryOf
       \/ mode = "upload" /\ \E u \in Uploaders : Upload(u, Uploads(u)) /\ UNCHANGED transferVars
       \/ mode = "resume" /\ TransferStep
       \/ mode = "pull" /\ \E id \in Live : ExpireSnapshot(id)
    /\ UNCHANGED clientVars

MCNext ==
    \/ (StoreNext \/ (mode = "pull" /\ ClientStep)) /\ UNCHANGED <<upgradeVars, mode>>
    \/ mode = "upgrade" /\ UpgradeStep /\ UNCHANGED <<storageVars, mode>>

\* Whoever needs the store opens it again after a stop, and the operator calls
\* the upgrade again and removes a backup it refuses.
UpgradeFairness ==
    /\ \A p \in Openers : WF_mcVars(mode = "upgrade" /\ p \in DOMAIN opener /\ Progress(p) /\ UNCHANGED <<storageVars, mode>>)
    /\ WF_mcVars(mode = "upgrade" /\ RemoveBackup /\ UNCHANGED <<storageVars, mode>>)

MCSpec == MCInit /\ [][MCNext]_mcVars /\ UpgradeFairness

------------------------------------------------------------------------------
(* Properties *)

\* The last version that installs over what older releases left in the store.
Ceiling ==
    CASE rows = "artifacts" -> 2
      [] rows = "unwitnessed" -> 14
      [] rows = "journal-fenced" -> 15
      [] rows = "early-sweep" -> 16
      [] rows = "readiness" -> 4
      [] rows = "legacy-run" -> 1
      [] rows = "unfoldable" -> 12
      [] OTHER -> Latest

\* An anonymous Batch refuses the open before any version is installed.
Unopened == rows = "anonymous-batch" /\ applied = <<>>

\* What a stop can leave that no upgrade takes: a creation that did not end, or
\* version 12 of the authority with its projection unbuilt.
Stranded ==
    /\ faults > 0
    /\ \/ ver = 0 /\ kind # "local"
       \/ kind = "authority" /\ ver >= 4 /\ ~dir
       \/ kind = "authority" /\ ver = 12 /\ rows = "unfolded"

\* From every older version, every store gets to the last version its contents
\* allow, this release's unless a step refuses them, and stays there, wherever
\* its upgrades were interrupted; a stop in a creation, or between the two
\* transactions of version 12, is the only exception.
UpgradeFinishes == mode = "upgrade" => <>[](ver = Ceiling \/ Unopened \/ Stranded)
===============================================================================
