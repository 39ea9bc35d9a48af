------------------------- MODULE FailoverContract -------------------------
(***************************************************************************)
(* What promapi.FailoverGroup promises to a check that asks a question     *)
(* (docs/configuration.md, "failover" of a prometheus block): the servers  *)
(* are tried in the configured order, the next one only when the previous  *)
(* one was unavailable, and the answer the check gets is the verdict of    *)
(* the last server tried, on the question that was asked.  Nothing of how  *)
(* pint gets a verdict (locks, queues, workers, the cache) is visible.     *)
(***************************************************************************)
EXTENDS Naturals

CONSTANTS Callers,     \* goroutines running checks
          Keys,        \* the questions they can ask
          NumServers   \* length of the failover list

Servers == 1..NumServers

(* The verdicts IsUnavailableError tells apart, "canceled" kept separate.  *)
Verdicts == {"ok", "unavailable", "rejected", "canceled"}

(* Verdicts that let the group move to the next server of the list.        *)
TriesNext(v) == v \in {"unavailable", "canceled"}

NoKey == "none"
NoAnswer == [verdict |-> "none", uri |-> 0, key |-> NoKey]

VARIABLES phase,     \* [Callers -> {"idle", "asking", "judged"}]
          at,        \* the server a caller is asking, or asked last
          question,  \* the key it asks about, NoKey between calls
          answer,    \* the verdict it has in hand
          cancelled  \* the context of the run was cancelled

cvars == <<phase, at, question, answer, cancelled>>

ContractInit ==
    /\ phase = [c \in Callers |-> "idle"]
    /\ at = [c \in Callers |-> 1]
    /\ question = [c \in Callers |-> NoKey]
    /\ answer = [c \in Callers |-> NoAnswer]
    /\ cancelled = FALSE

AskGroup(c, k) ==
    /\ phase[c] = "idle"
    /\ phase' = [phase EXCEPT ![c] = "asking"]
    /\ question' = [question EXCEPT ![c] = k]
    /\ UNCHANGED <<at, answer, cancelled>>

(* The server asked gives its verdict on the question asked; only a run    *)
(* that was cancelled sees "canceled".                                     *)
Judge(c, v) ==
    /\ phase[c] = "asking"
    /\ v = "canceled" => cancelled
    /\ phase' = [phase EXCEPT ![c] = "judged"]
    /\ answer' = [answer EXCEPT ![c] =
                    [verdict |-> v, uri |-> at[c], key |-> question[c]]]
    /\ UNCHANGED <<at, question, cancelled>>

NextServer(c) ==
    /\ phase[c] = "judged"
    /\ TriesNext(answer[c].verdict)
    /\ at[c] < NumServers
    /\ phase' = [phase EXCEPT ![c] = "asking"]
    /\ at' = [at EXCEPT ![c] = @ + 1]
    /\ answer' = [answer EXCEPT ![c] = NoAnswer]
    /\ UNCHANGED <<question, cancelled>>

(* The check gets the answer in hand, and the call is over.                *)
Deliver(c) ==
    /\ phase[c] = "judged"
    /\ TriesNext(answer[c].verdict) => at[c] = NumServers
    /\ phase' = [phase EXCEPT ![c] = "idle"]
    /\ at' = [at EXCEPT ![c] = 1]
    /\ question' = [question EXCEPT ![c] = NoKey]
    /\ answer' = [answer EXCEPT ![c] = NoAnswer]
    /\ UNCHANGED cancelled

CancelRun ==
    /\ ~cancelled
    /\ cancelled' = TRUE
    /\ UNCHANGED <<phase, at, question, answer>>

GroupStep(c) ==
    \/ \E v \in Verdicts : Judge(c, v)
    \/ NextServer(c)
    \/ Deliver(c)

ContractNext ==
    \/ \E c \in Callers : (\E k \in Keys : AskGroup(c, k)) \/ GroupStep(c)
    \/ CancelRun

ContractSafe == ContractInit /\ [][ContractNext]_cvars

(* A question asked is answered: every group step is owed.                 *)
ContractSpec ==
    /\ ContractSafe
    /\ \A c \in Callers : WF_cvars(GroupStep(c))
============================================================================
