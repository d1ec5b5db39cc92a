--------------------------- MODULE MCEnvironment ---------------------------
(***************************************************************************)
(* One Environment: its journal, its coordinator and the authority, for a   *)
(* few sets of requests.  The requests of a behaviour are chosen at first.  *)
(***************************************************************************)
EXTENDS ClaimStart

CONSTANTS Menus   \* the sets of requests to explore

VARIABLES menu,   \* the requests of this behaviour
          calm    \* no step is lost any more

vars == <<startVars, menu, calm>>

MCCommand == {"birth", "step", "note", "edit", "start", "gate", "adopt"}
MCAcquire == {"acquire", "rival"}
MCBirthRelease == {"unbirth"}
MCClaimRelease == {"release"}
MCDelivery == [birth |-> "provisional", step |-> "provisional", note |-> "environment",
               edit |-> "claim", start |-> "claim", gate |-> "repair", adopt |-> "authority"]
MCClaim == [birth |-> "birth", step |-> "birth", note |-> NoClaim, edit |-> "acquire",
            start |-> "acquire", gate |-> "acquire", adopt |-> NoClaim, unbirth |-> "birth", release |-> "acquire"]
MCCause == [birth |-> NoClaim, step |-> "birth", note |-> NoClaim, edit |-> NoClaim,
            start |-> "edit", gate |-> NoClaim, adopt |-> NoClaim]
MCRequired == [acquire |-> 1, rival |-> 0]
MCMatter == [acquire |-> "M", rival |-> "M"]
MCGate == {"gate"}
MCIdempotent == {"gate"}

PassMenus == {{"birth", "step", "note", "unbirth"}, {"birth", "adopt", "unbirth"},
              {"acquire", "edit", "start", "release"}, {"acquire", "rival", "note", "release"},
              {"acquire", "edit", "gate", "release"}}

Init == CommandStartInit /\ menu \in Menus /\ calm = FALSE

Quiet == UNCHANGED <<menu, calm>>
Steps == (CommandStep \/ ClaimStep) /\ Quiet
Calm == ~calm /\ calm' = TRUE /\ UNCHANGED <<startVars, menu>>
(* An operation that has no step to take returns its error.                  *)
Refused == (Fail \/ AcknowledgeFails) /\ ~ENABLED Steps /\ Quiet
Lost == (Fail \/ AcknowledgeFails) /\ ~calm /\ Quiet
Others == (Hydrate \/ OthersAppend) /\ Quiet
Next == (Start(menu) /\ Quiet) \/ Steps \/ Others \/ Refused \/ Lost \/ Calm

(* The daemon runs the steps of an operation.  From some time on no step is  *)
(* lost, and some unresolved command is always tried again.                  *)
Retry == Quiet /\ \E c \in menu \cap (DOMAIN commands \ DOMAIN receipts) : StartCommand(c)
Fairness ==
  /\ WF_vars(Steps) /\ WF_vars(Refused) /\ WF_vars(Calm)
  /\ SF_vars(Retry)
Spec == Init /\ [][Next]_vars /\ Fairness

-----------------------------------------------------------------------------
(* What is installed is the authority's own history: the installed events    *)
(* are a prefix of the log, and a receipt of the store is the authority's    *)
(* for that command, with its events installed.                              *)
InstalledIsTrue ==
  /\ IsPrefix(installed, log)
  /\ \A c \in DOMAIN receipts : receipts[c] = verdict[c]
  /\ \A a \in DOMAIN attempts : attempts[a].code # Open => attempts[a].code = verdict[a]

(* The authority is told that an entry of a claim's journal is terminal only *)
(* when its outcome is durable in the Environment, and a journal is sealed   *)
(* only when every entry succeeded.                                          *)
AckedIsInstalled ==
  \A k \in DOMAIN journals : \A i \in DOMAIN journals[k].entries :
    LET e == journals[k].entries[i] IN
      /\ e.st # "pending" => e.cmd \in DOMAIN receipts
      /\ journals[k].state # "open" => Succeeded(e.cmd)

(* A command the authority has decided is at last resolved in the            *)
(* Environment, whatever is lost, released or pulled in between.             *)
DecidedIsInstalled == \A c \in Command : c \in DOMAIN verdict ~> c \in DOMAIN receipts

-----------------------------------------------------------------------------
(* An unresolved acquire can still be retried: "An unresolved attempt is     *)
(* retried only with its original command bytes and installed anchor."       *)
(* It cannot once a replayed command or a birth release has pulled.          *)
UnresolvedAcquireCanRetry ==
  \A a \in Acquire : IsOpen(a) => Len(installed) = attempts[a].from
=============================================================================
