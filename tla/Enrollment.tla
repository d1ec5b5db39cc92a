------------------------------ MODULE Enrollment ------------------------------
(***************************************************************************)
(* The identities an authority domain rests on: the owner's certified      *)
(* artifact keys (internal/authoritystore/artifacts.go), the delegated     *)
(* Environment CAs (ca.go) and the leaf certificates of the Environments   *)
(* (environments.go), all retained in SQLite and changed one serialized    *)
(* transaction at a time.  The active epoch of a domain never changes.     *)
(*                                                                         *)
(* A key is an opaque identifier; a signature or a certificate that does   *)
(* not verify is a call that changes nothing and is left out, so every     *)
(* step below is one with genuine owner, CA and CSR signatures.  Validity  *)
(* windows are kept for artifact keys (the receipt's time must lie inside, *)
(* and nothing else re-reads them); a leaf or CA that expires is like one  *)
(* that is fenced and is left out.                                         *)
(***************************************************************************)
EXTENDS Naturals, Sequences, FiniteSets

CONSTANTS
    Env,    \* Environment ids
    KeyId,  \* public keys (SPKI digests)
    Owner,  \* the domain owner's root key
    Grant,  \* enrollment grants the owner can sign
    MaxGen  \* bound: generations of a key, a CA and a leaf

ASSUME EnrollmentConstants == Owner \notin KeyId /\ MaxGen \in Nat \ {0}

VARIABLES
    artifactKeys, \* artifact_keys of the epoch by generation: key, from (not_before), fenced, final
    artifacts,    \* authority_artifacts in insertion order: gen, cmd (payload), at (issued_at)
    cas,          \* environment_cas by generation: key, fenced
    certs,        \* [Env -> environment_certificates by generation: ca, spki, revoked]
    consumed,     \* enrollment_consumptions: grant -> scope, env, spki, gen
    leaf,         \* [Env -> generation of the leaf the Environment itself holds, 0 for none]
    clock         \* the authority's wall clock, advanced by whoever reads it

identityVars == <<artifactKeys, artifacts, cas, certs, consumed, leaf>>

IdentityInit ==
    /\ artifactKeys = <<>>
    /\ artifacts = <<>>
    /\ cas = <<>>
    /\ certs = [e \in Env |-> <<>>]
    /\ consumed = <<>>
    /\ leaf = [e \in Env |-> 0]

ArtifactKeyIds == {artifactKeys[i].key : i \in DOMAIN artifactKeys}
CAKeyIds == {cas[i].key : i \in DOMAIN cas}
LeafKeyIds == UNION {{certs[e][i].spki : i \in DOMAIN certs[e]} : e \in Env}

Enrolled(e) == certs[e] # <<>>
CurrentLeaf(e) == certs[e][Len(certs[e])]

\* The chain of one key generation: where its artifacts are.
Chain(gen) == {i \in DOMAIN artifacts : artifacts[i].gen = gen}

-----------------------------------------------------------------------------
(* Artifact keys *)

\* registerArtifactKey: generation 1, or the next one once its predecessor is
\* fenced; the key plays no other role.  An exact retry (EnsureArtifactKey)
\* changes nothing.
RegisterArtifactKey(k, from) ==
    /\ Len(artifactKeys) < MaxGen
    /\ from <= clock
    /\ k \notin CAKeyIds \cup LeafKeyIds \cup ArtifactKeyIds
    /\ artifactKeys # <<>> => artifactKeys[Len(artifactKeys)].fenced
    /\ artifactKeys' = Append(artifactKeys,
           [key |-> k, from |-> from, fenced |-> FALSE, final |-> 0])
    /\ UNCHANGED <<artifacts, cas, certs, consumed, leaf, clock>>

\* FenceArtifactKey: the owner's fence names the exact head of the chain.
FenceArtifactKey ==
    /\ artifactKeys # <<>>
    /\ LET g == Len(artifactKeys)
       IN  /\ ~artifactKeys[g].fenced
           /\ artifactKeys' = [artifactKeys EXCEPT
                  ![g].fenced = TRUE, ![g].final = Cardinality(Chain(g))]
    /\ UNCHANGED <<artifacts, cas, certs, consumed, leaf, clock>>

\* Mutant: the validity interval is not checked.
MutKeySigns(at) ==
    /\ artifactKeys # <<>>
    /\ ~artifactKeys[Len(artifactKeys)].fenced

\* retainTerminalReceiptTx: only the newest generation signs, unfenced, and at
\* a time inside its validity.
KeySigns(at) ==
    /\ artifactKeys # <<>>
    /\ ~artifactKeys[Len(artifactKeys)].fenced
    /\ artifactKeys[Len(artifactKeys)].from <= at

-----------------------------------------------------------------------------
(* Environment CAs *)

InstallEnvironmentCA(k) ==
    /\ Len(cas) < MaxGen
    /\ cas # <<>> => cas[Len(cas)].fenced
    /\ k \notin ArtifactKeyIds \cup LeafKeyIds \cup CAKeyIds
    /\ cas' = Append(cas, [key |-> k, fenced |-> FALSE])
    /\ UNCHANGED <<artifactKeys, artifacts, certs, consumed, leaf, clock>>

FenceEnvironmentCA ==
    /\ cas # <<>>
    /\ ~cas[Len(cas)].fenced
    /\ cas' = [cas EXCEPT ![Len(cas)].fenced = TRUE]
    /\ UNCHANGED <<artifactKeys, artifacts, certs, consumed, leaf, clock>>

CAUsable == cas # <<>> /\ ~cas[Len(cas)].fenced   \* currentCA

-----------------------------------------------------------------------------
(* Leaf certificates *)

\* The registry rows of a newly issued leaf; the predecessor, if there is one
\* and it is not revoked yet, is revoked in the same transaction.
WithLeaf(e, k) ==
    Append(IF Enrolled(e) THEN [certs[e] EXCEPT ![Len(certs[e])].revoked = TRUE] ELSE <<>>,
           [ca |-> Len(cas), spki |-> k, revoked |-> FALSE])

\* IssueEnvironmentCertificate with an unused grant: enroll a new Environment,
\* or rotate a registered one to another key.  The answer may be lost.
IssueEnvironmentCertificate(e, g, k, answered) ==
    /\ g \notin {consumed[i].grant : i \in DOMAIN consumed}
    /\ k \notin ArtifactKeyIds \cup CAKeyIds                        \* restrictedKey
    /\ CAUsable
    /\ Len(certs[e]) < MaxGen
    /\ Enrolled(e) => ~CurrentLeaf(e).revoked /\ CurrentLeaf(e).spki # k
    /\ certs' = [certs EXCEPT ![e] = WithLeaf(e, k)]
    /\ consumed' = Append(consumed,
           [grant |-> g, scope |-> IF Enrolled(e) THEN "rotate" ELSE "enroll",
            env |-> e, spki |-> k, gen |-> Len(certs[e]) + 1])
    /\ leaf' = IF answered THEN [leaf EXCEPT ![e] = Len(certs[e]) + 1] ELSE leaf
    /\ UNCHANGED <<artifactKeys, artifacts, cas, clock>>

\* The same grant and CSR again: the persisted chain, never a replacement.
ReissueEnvironmentCertificate(i) ==
    /\ leaf' = [leaf EXCEPT ![consumed[i].env] = consumed[i].gen]
    /\ UNCHANGED <<artifactKeys, artifacts, cas, certs, consumed, clock>>

\* verifyPeer: the presented leaf is the registered generation, not revoked,
\* and issued by the current, unfenced CA.
VerifyPeer(e) ==
    /\ Enrolled(e)
    /\ leaf[e] = Len(certs[e])
    /\ ~CurrentLeaf(e).revoked
    /\ CAUsable
    /\ CurrentLeaf(e).ca = Len(cas)

\* RenewEnvironmentCertificate: the same key, a new generation.
RenewEnvironmentCertificate(e, answered) ==
    /\ VerifyPeer(e)
    /\ Len(certs[e]) < MaxGen
    /\ CurrentLeaf(e).spki \notin ArtifactKeyIds \cup CAKeyIds
    /\ certs' = [certs EXCEPT ![e] = WithLeaf(e, CurrentLeaf(e).spki)]
    /\ leaf' = IF answered THEN [leaf EXCEPT ![e] = Len(certs[e]) + 1] ELSE leaf
    /\ UNCHANGED <<artifactKeys, artifacts, cas, consumed, clock>>

RevokeEnvironmentCertificate(e) ==
    /\ Enrolled(e)
    /\ ~CurrentLeaf(e).revoked
    /\ certs' = [certs EXCEPT ![e][Len(certs[e])].revoked = TRUE]
    /\ UNCHANGED <<artifactKeys, artifacts, cas, consumed, leaf, clock>>

IdentityNext ==
    \/ \E k \in KeyId : InstallEnvironmentCA(k)
    \/ \E k \in KeyId, from \in {0, clock} : RegisterArtifactKey(k, from)
    \/ FenceArtifactKey
    \/ FenceEnvironmentCA
    \/ \E e \in Env, g \in Grant, k \in KeyId, answered \in BOOLEAN :
           IssueEnvironmentCertificate(e, g, k, answered)
    \/ \E i \in DOMAIN consumed : ReissueEnvironmentCertificate(i)
    \/ \E e \in Env, answered \in BOOLEAN : RenewEnvironmentCertificate(e, answered)
    \/ \E e \in Env : RevokeEnvironmentCertificate(e)

-----------------------------------------------------------------------------
(* What reopening a store verifies of these tables (checkStep3State) *)

\* Generations of keys and of CAs are opened only over a fenced predecessor.
checkArtifactKeys ==
    \A i \in DOMAIN artifactKeys :
        /\ artifactKeys[i].key # Owner
        /\ i < Len(artifactKeys) => artifactKeys[i].fenced

checkArtifactChains ==
    \A g \in DOMAIN artifactKeys :
        /\ \A i \in Chain(g) : artifactKeys[g].from <= artifacts[i].at
        /\ artifactKeys[g].fenced => artifactKeys[g].final = Cardinality(Chain(g))

checkCAs ==
    \A i \in DOMAIN cas : cas[i].key # Owner /\ (i < Len(cas) => cas[i].fenced)

\* Every superseded leaf is revoked, every leaf names a retained CA, every
\* Environment was enrolled by a grant, and no key plays two roles.
checkEnvironments ==
    /\ \A e \in Env : \A i \in DOMAIN certs[e] :
           /\ i < Len(certs[e]) => certs[e][i].revoked
           /\ certs[e][i].ca \in DOMAIN cas
    /\ \A i \in DOMAIN consumed :
           /\ consumed[i].gen \in DOMAIN certs[consumed[i].env]
           /\ consumed[i].scope = "enroll" <=> consumed[i].gen = 1
    /\ \A e \in Env : Enrolled(e) =>
           \E i \in DOMAIN consumed : consumed[i].env = e /\ consumed[i].gen = 1
    /\ CAKeyIds \cap (ArtifactKeyIds \cup LeafKeyIds \cup {Owner}) = {}
    /\ LeafKeyIds \cap (ArtifactKeyIds \cup {Owner}) = {}
    /\ Cardinality(CAKeyIds) = Len(cas)

checkStep3State ==
    checkArtifactKeys /\ checkArtifactChains /\ checkCAs /\ checkEnvironments
===============================================================================
