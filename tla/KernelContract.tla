--------------------------- MODULE KernelContract ---------------------------
(***************************************************************************)
(* What one run of the agent kernel (AgentRuntime.run, in                  *)
(* backend/fingent/runtime.py) may end with, told apart by what human      *)
(* review needs to know: the status and held action of the persisted       *)
(* record, and the set of tools that were really called. AgentRun shows    *)
(* that the kernel keeps this contract; Review relies on it.               *)
(***************************************************************************)
EXTENDS Naturals, Sequences

CONSTANTS
  Tools,          \* tool names in the registry
  SideEffecting,  \* those that write, send or pay
  NoTool

ASSUME ToolAssumption == SideEffecting \subseteq Tools /\ NoTool \notin Tools

RunResults ==
  [status : {"success", "failed", "blocked", "needs_review"},
   held : Tools \cup {NoTool},
   did : SUBSET Tools]

\* The tools of an allow-list (security.allowed_tools).
Granted(grant) == {grant[i] : i \in DOMAIN grant}

Gated(t, approved) == t \in SideEffecting \ approved

\* Whichever engine decides: only granted tools are called, side-effecting ones
\* only with approval; a held action is a granted call that lacks approval.
Governed(grant, approved, r) ==
  /\ r.did \subseteq Granted(grant)
  /\ \A t \in r.did : ~Gated(t, approved)
  /\ r.held # NoTool =>
       /\ r.held \in Granted(grant)
       /\ Gated(r.held, approved)
       /\ r.status \in {"needs_review", "blocked"}

\* The rules engine goes through the grant in order, past tools that are not known: what
\* it called is of an initial part of it, and it holds the action that comes next.
InOrder(grant, known, r) ==
  \E n \in 0..Len(grant) :
    /\ r.did = {grant[i] : i \in 1..n} \cap known
    /\ r.held # NoTool => n < Len(grant) /\ r.held = grant[n + 1]

\* It is done only when all of the grant that is known was called.
Thorough(grant, known, r) == r.status = "success" => r.did = Granted(grant) \cap known

=============================================================================
