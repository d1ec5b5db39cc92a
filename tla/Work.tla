-------------------------------- MODULE Work --------------------------------
(***************************************************************************)
(* The state that the authority's work operations share: the submitted     *)
(* command of every Environment, the terminal receipts, the event log, and *)
(* the projections that the Matter tree, the implicit birth claims, the    *)
(* acquired claims and their journals keep next to it (authoritystore).    *)
(* Sequence numbers, command ownership and retries are in Commands.tla;    *)
(* here an Environment has at most one submitted command, which is what    *)
(* that module shows.  One authority domain, one epoch and one Repo.       *)
(* Births, Claims and Tree add the operations.                             *)
(***************************************************************************)
EXTENDS Integers, Sequences, FiniteSets, FiniteSetsExt, SequencesExt, Functions

CONSTANTS Env,        \* Environments
          Slug,       \* Matter locators and Stage titles a client may ask for
          Dispatch,   \* dispatch ids a client may ask for
          Nonce,      \* nonces of the owner's stand-down attestations
          Gap,        \* distance of neighbouring sort keys (1000 in the code)
          MaxSeq,     \* bound: commands of one Environment
          MaxLog,     \* bound: events of the domain
          NoCmd, NoSlug

ASSUME WorkConstants ==
  /\ Gap \in Nat /\ Gap % 2 = 0 /\ Gap > 0
  /\ NoSlug \notin Slug

VARIABLES pending,   \* [Env -> command or NoCmd]   submissions in state submitted
          receipts,  \* command id -> [ok, last]    terminal receipts
          log,       \* authority_events, in order of position
          nodes,     \* m6_nodes                    id -> Matter, Stage or Step
          steps,     \* steps                       id of a version 1 Step -> [matter, loc, key]
          births,    \* birth_journals, _entries    Matter -> [owner, state, entries]
          claims,    \* claims, grants, closes      sequence: the n-th acquired claim
          journals,  \* claim_journals, _entries    claim -> sequence of generations
          nonces,    \* nonces of stand-down proofs accepted so far
          segments   \* content_segments            pairs <<subject, kind>>

tables == <<nodes, steps, births, claims, journals, nonces, segments>>
vars == <<pending, receipts, log, tables>>

-----------------------------------------------------------------------------
(* The command of Environment e that is next in its sequence.               *)
Cid(e) == <<e, Cardinality({c \in DOMAIN receipts : c[1] = e}) + 1>>

Submit(e, cmd) ==
  /\ pending[e] = NoCmd
  /\ Cid(e)[2] <= MaxSeq
  /\ pending' = [pending EXCEPT ![e] = cmd]
  /\ UNCHANGED <<receipts, log>>

Event(e, kind, subject, payload) ==
  [k |-> kind, c |-> Cid(e), s |-> subject, p |-> payload]

(* finishCommandTx: the receipt, the events and the head in one transaction. *)
Finish(e, ok, events) ==
  /\ Len(log) + Len(events) <= MaxLog
  /\ log' = log \o events
  /\ receipts' = (Cid(e) :> [ok |-> ok, last |-> IF events = <<>> THEN 0 ELSE Len(log) + Len(events)])
                   @@ receipts
  /\ pending' = [pending EXCEPT ![e] = NoCmd]

(* A refusal, rejection or failure: a receipt without events or effects.     *)
Refuse(e) == Finish(e, FALSE, <<>>) /\ UNCHANGED tables

Op(e) == IF pending[e] = NoCmd THEN "" ELSE pending[e].op

(* Where events of these kinds are, for the properties.                      *)
Logged(kinds) == {i \in DOMAIN log : log[i].k \in kinds}

-----------------------------------------------------------------------------
(* Folded lifecycle: the state of a node is what its last event says.        *)
LifeBefore(n, pos) ==
  LET own == {i \in 1 .. pos - 1 : log[i].k = "life" /\ log[i].s = n}
  IN  IF own = {} THEN "planned" ELSE log[Max(own)].p[2]

LifeState(n) == LifeBefore(n, Len(log) + 1)

Live(n) == n \in DOMAIN nodes /\ nodes[n].dead = 0
Matters == {n \in DOMAIN nodes : nodes[n].kind = "matter"}
NextNode == Cardinality(DOMAIN nodes) + 1

(* The current generation of a claim's journal is its last one.              *)
Gen(c) == Last(journals[c])
Open(c) == c \in DOMAIN claims /\ claims[c].closed = ""
Owns(e, c) == Open(c) /\ claims[c].owner = e
Settled(entries) == \A i \in DOMAIN entries : entries[i].st = "terminal"
=============================================================================
