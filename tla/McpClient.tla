------------------------------ MODULE McpClient ------------------------------
(***************************************************************************)
(* One MCP session as discovery runs it: initialize, the notification, and *)
(* the pages of tools/list (backend/fingent/mcp_client.py), one operator   *)
(* per step of the connection record.                                      *)
(*                                                                         *)
(* The server is external.  Its answer to a POST is a body of messages:    *)
(* one for JSON, any number for an event stream.  A message is the result  *)
(* asked for, an error, a notification, a result under another id, or a    *)
(* request of the server's own that happens to bear the id of ours.  The   *)
(* session header and the protocol version are left out.                   *)
(***************************************************************************)
EXTENDS Integers, Sequences

CONSTANTS
  ToolNames,
  ReadNames, WriteNames,  \* those with one of _READ_HINTS, of _WRITE_HINTS
  MaxPages                \* the cap of list_tools

ASSUME McpAssumption ==
  ReadNames \subseteq ToolNames /\ WriteNames \subseteq ToolNames /\ MaxPages \in Nat \ {0}

\* An entry of tools/list, and the McpToolSpec made of it.
Annotation == {"none", "readOnly", "destructive"}
Offered == [name : ToolNames, hint : Annotation]
ToolSpec == [name : ToolNames, writes : BOOLEAN]

Message == {"asked", "error", "notice", "other", "request"}

\* via is "none" for a refused connection, a status of 400 or more, or an answer that
\* is no JSON; "accepted" for a 202.
Answer == [via : {"none", "accepted", "json", "sse"}, body : Seq(Message)]

infer_side_effecting(tool) ==
  /\ tool.hint # "readOnly"
  /\ \/ tool.hint = "destructive"
     \/ tool.name \in WriteNames
     \/ tool.name \notin ReadNames

normalize_tool(tool) == [name |-> tool.name, writes |-> infer_side_effecting(tool)]

\* What _read_sse returns of a stream: its first message with our id, or without any
\* id and with a result or an error.
Matching(m) == m \in {"asked", "error", "request"}

\* What _rpc makes of an answer: the result asked for, {} or an error.  The id of a
\* JSON body is not looked at.
Outcome(m) ==
  CASE m = "asked" -> "asked"
    [] m = "error" -> "error"
    [] OTHER -> "empty"

Reply(answer) ==
  CASE answer.via = "json" /\ answer.body # <<>> -> Outcome(Head(answer.body))
    [] answer.via = "sse" /\ SelectSeq(answer.body, Matching) # <<>> ->
         Outcome(Head(SelectSeq(answer.body, Matching)))
    [] OTHER -> "error"

\* A connection: listing is what the server would list, page by page.
Connection ==
  [phase : {"initialize", "list", "done", "failed"},
   listing : Seq(SUBSET Offered), page : 0..MaxPages, tools : SUBSET Offered,
   misread : BOOLEAN]

Connect(listing) ==
  [phase |-> "initialize", listing |-> listing, page |-> 0, tools |-> {}, misread |-> FALSE]

\* McpError or any other exception: nothing of the session is kept.
Failed == [Connect(<<>>) EXCEPT !.phase = "failed"]

\* A bug: the last page is not asked for.
LastPageEarly(conn) == conn.page + 2 >= MaxPages \/ conn.page + 2 >= Len(conn.listing)

\* A bug: no cap.
LastPageUncapped(conn) == conn.page + 1 >= Len(conn.listing)

\* No cursor comes with this page, or the cap is reached.
LastPage(conn) == conn.page + 1 >= MaxPages \/ conn.page + 1 >= Len(conn.listing)

\* The loop of list_tools, one page.
Listed(conn, reply) ==
  CASE reply = "error" -> Failed
    [] reply = "empty" -> [conn EXCEPT !.phase = "done", !.misread = TRUE]
    [] OTHER ->
         [conn EXCEPT !.phase = IF LastPage(conn) THEN "done" ELSE "list",
                      !.page = @ + 1,
                      !.tools = @ \cup IF conn.page < Len(conn.listing)
                                       THEN conn.listing[conn.page + 1] ELSE {}]

\* The answer to the POST that is due; initialize and the notification that follows it
\* succeed or fail together.
Exchange(conn, answer) ==
  CASE conn.phase = "initialize" ->
         IF Reply(answer) = "error" THEN Failed ELSE [conn EXCEPT !.phase = "list"]
    [] OTHER -> Listed(conn, Reply(answer))

\* The names a server lists in all.
Whole(listing) == UNION {listing[i] : i \in DOMAIN listing}

=============================================================================
