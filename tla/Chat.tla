-------------------------------- MODULE Chat --------------------------------
(***************************************************************************)
(* A conversation with a deployed agent: chat_sse and the working memory   *)
(* of one session (backend/fingent/chat.py), and the agent's long-term     *)
(* memory in the store (SqlVectorMemory, embed and _score_rows of          *)
(* memory.py).  A turn is a request of a number of its own; it is a        *)
(* generator, which the client may leave at every event it yields.         *)
(*                                                                         *)
(* Of the run (run_stream) only its end is kept: the record is persisted   *)
(* and the final event follows, or it raises.  A vector is the model that  *)
(* made it; the best k of the comparable rows are taken as all of them.    *)
(***************************************************************************)
EXTENDS Requests

CONSTANTS
  Models,    \* the embedding models that may be configured
  Lexical,   \* the name of the HashingEmbedder, one of them
  Dim,       \* the length of a model's vectors
  MaxTurns   \* _MAX_TURNS, in messages

ASSUME ChatAssumption ==
  /\ Lexical \in Models
  /\ Dim \in [Models -> Nat]
  /\ MaxTurns \in Nat \ {0}

VARIABLES
  history,    \* _SESSIONS of one session: messages
  memories,   \* the memories table: rows of one agent
  embedder,   \* get_embedder() of this process
  recorded    \* turns whose RunRecord is persisted

chatVars == <<history, memories, embedder, recorded>>

Turns == 1..MaxRequests
Message == [role : {"user", "assistant"}, turn : Turns]

\* embedder is the name the row is labelled with, vec the model that made its vector.
Memory == [turn : Turns, embedder : Models, vec : Models]

ChatCall ==
  [op : {"chat"}, pc : {"open", "recall", "run", "final", "remember"}, turn : Turns,
   read : Seq(Message), recalled : SUBSET Memory]

ChatTypeOK ==
  /\ history \in Seq(Message)
  /\ memories \subseteq Memory
  /\ embedder \in Models
  /\ recorded \subseteq Turns

ChatInit ==
  /\ history = <<>>
  /\ memories = {}
  /\ embedder \in Models
  /\ recorded = {}

BeginTurn(t) ==
  /\ Accept(t, [op |-> "chat", pc |-> "open", turn |-> accepted + 1,
                read |-> <<>>, recalled |-> {}])
  /\ UNCHANGED chatVars

\* The generator starts: no spec enabled, no turn; else get_history.
Open(t, enabled) ==
  /\ At(t, "chat", "open")
  /\ IF enabled
     THEN /\ requests' = [requests EXCEPT ![t].pc = "recall", ![t].read = history]
          /\ UNCHANGED accepted
     ELSE Respond(t)
  /\ UNCHANGED chatVars

\* _score_rows, of rows against a query the current model embedded.
\* A bug: the label is not compared.
ComparableAnyModel(row) == Dim[row.vec] = Dim[embedder]

Comparable(row) == row.embedder = embedder /\ Dim[row.vec] = Dim[embedder]

\* recall: nothing, if the query cannot be embedded.
Recall(t) ==
  /\ At(t, "chat", "recall")
  /\ \E rows \in {{}, {row \in memories : Comparable(row)}} :
       requests' = [requests EXCEPT ![t].pc = "run", ![t].recalled = rows]
  /\ UNCHANGED <<chatVars, accepted>>

\* run_stream persists the record, then yields the final event.
Conclude(t) ==
  /\ At(t, "chat", "run")
  /\ recorded' = recorded \cup {requests[t].turn}
  /\ Reach(t, "final")
  /\ UNCHANGED <<history, memories, embedder>>

\* run_stream raises.
Fail(t) ==
  /\ At(t, "chat", "run")
  /\ Respond(t)
  /\ UNCHANGED chatVars

\* A bug: one message too many is dropped.
LatestOfFewer(messages) ==
  IF Len(messages) > MaxTurns
  THEN SubSeq(messages, Len(messages) - MaxTurns + 2, Len(messages)) ELSE messages

Latest(messages) ==
  IF Len(messages) > MaxTurns
  THEN SubSeq(messages, Len(messages) - MaxTurns + 1, Len(messages)) ELSE messages

\* _append, of both messages under the lock.
AppendTurn(t) ==
  /\ At(t, "chat", "final")
  /\ history' = Latest(history \o <<[role |-> "user", turn |-> requests[t].turn],
                                     [role |-> "assistant", turn |-> requests[t].turn]>>)
  /\ Reach(t, "remember")
  /\ UNCHANGED <<memories, embedder, recorded>>

\* The rows of a turn embed may lead to: labelled with the model, and made by the
\* lexical fallback if that cannot be reached.
Labelled(turn) == [turn : {turn}, embedder : {embedder}, vec : {embedder, Lexical}]

\* mem.add; it may fail.
Remember(t) ==
  /\ At(t, "chat", "remember")
  /\ memories' \in {memories} \cup {memories \cup {row} : row \in Labelled(requests[t].turn)}
  /\ Respond(t)
  /\ UNCHANGED <<history, embedder, recorded>>

\* The client leaves: GeneratorExit at a yield, which no handler catches.
Leave(t) ==
  /\ \E pc \in {"run", "final"} : At(t, "chat", pc)
  /\ Respond(t)
  /\ UNCHANGED chatVars

TurnStep(t) == Recall(t) \/ Conclude(t) \/ Fail(t) \/ AppendTurn(t) \/ Remember(t) \/ Leave(t)

\* Working memory is lost, the tables are kept; the model may be another.
ChatRestart ==
  /\ history' = <<>>
  /\ embedder' \in Models
  /\ UNCHANGED <<memories, recorded>>

-----------------------------------------------------------------------------
\* Whatever turns of a session overlap, fail or are left, the history a turn sees is
\* whole questions with their answers, each of a turn of its own that is on record
\* (chat.py: "persisting working memory across turns").
WholeTurns(h) ==
  /\ Len(h) % 2 = 0 /\ Len(h) <= MaxTurns
  /\ \A i \in 1..(Len(h) \div 2) :
       /\ h[2 * i - 1].role = "user" /\ h[2 * i].role = "assistant"
       /\ h[2 * i - 1].turn = h[2 * i].turn
       /\ h[2 * i].turn \in recorded
       /\ \A k \in 1..(i - 1) : h[2 * k].turn # h[2 * i].turn

HistoryIsTurns ==
  /\ WholeTurns(history)
  /\ \A t \in Threads : requests[t] # NoRequest /\ requests[t].op = "chat" => WholeTurns(requests[t].read)

\* A query is never compared with the vector of another model, though a row is
\* labelled with the model that should have made it and may outlive it (memory.py:
\* "recall never compares vectors from different models").
ModelsNotMixed ==
  \A t \in Threads : requests[t] # NoRequest /\ requests[t].op = "chat" =>
    \A row \in requests[t].recalled : row.vec = embedder

=============================================================================
