------------------------------ MODULE MCCommands ------------------------------
(* Instances of Commands for TLC. *)
EXTENDS Commands, TLC

CONSTANTS e1, e2, k1, k2, k3, k4, g1, g2

VARIABLE mode \* which part of the state space this behaviour explores

\* An authority after its bootstrap: one artifact key, one CA, every
\* Environment enrolled and holding its leaf.
Provisioned ==
    /\ artifactKeys = <<[key |-> k1, from |-> 0, fenced |-> FALSE, final |-> 0]>>
    /\ artifacts = <<>>
    /\ cas = <<[key |-> k2, fenced |-> FALSE]>>
    /\ certs = [e \in Env |-> <<[ca |-> 1, spki |-> k3, revoked |-> FALSE]>>]
    /\ consumed = <<[grant |-> g1, scope |-> "enroll", env |-> e1, spki |-> k3, gen |-> 1],
                   [grant |-> g2, scope |-> "enroll", env |-> e2, spki |-> k3, gen |-> 1]>>
    /\ leaf = [e \in Env |-> 1]
    /\ clock = 1
    /\ rows = [c \in Cmd |-> "absent"]
    /\ family = [c \in Cmd |-> "fold"]
    /\ head = [e \in Env |-> 0]
    /\ log = <<>>
    /\ ranges = [c \in Cmd |-> [first |-> 0, last |-> 0]]
    /\ exec = [c \in Cmd |-> NoOwner]

\* "work": commands of every family (the plainest for the second Environment),
\* restarts and a key rotation.
WorkStep ==
    \/ CommandStep /\ \A n \in 1..MaxSeq : family'[<<e2, n>>] \in {"fold", "sweep"}
    \/ Restart
    \/ /\ \/ FenceArtifactKey
          \/ \E k \in KeyId : RegisterArtifactKey(k, clock)
       /\ UNCHANGED commandVars

\* "enroll": every identity operation from bootstrap, with one command of each
\* Environment to be fenced off or let through.
EnrollStep ==
    \/ IdentityStep /\ k4 \notin (ArtifactKeyIds \cup CAKeyIds \cup LeafKeyIds)' \* three keys are enough
    \/ \E e \in Env :
          LET c == <<e, 1>>
          IN  \/ SubmitCommand(c, "fold")
              \/ Evaluate(c, clock + 1)
              \/ \E n \in Effects : CompleteCommand(c, n)

MCInit ==
    \/ mode = "work" /\ Provisioned
    \/ mode = "enroll" /\ Init

MCNext ==
    /\ mode' = mode
    /\ \/ mode = "work" /\ WorkStep
       \/ mode = "enroll" /\ EnrollStep

MCSpec == MCInit /\ [][MCNext]_<<vars, mode>>

\* For the retries: one live process, no rotation; requests keep arriving, an
\* evaluation goes on, and an attempt to commit that can succeed eventually does.
RetrySpec ==
    /\ mode = "work" /\ Provisioned
    /\ [][mode' = mode /\ CommandStep]_<<vars, mode>>
    /\ \A c \in Cmd :
          /\ WF_vars(RetryCommand(c))
          /\ WF_vars(\E id \in (clock + 1)..(clock + Ahead) : Evaluate(c, id))
          /\ SF_vars(\E n \in Effects : CompleteCommand(c, n))

===============================================================================
