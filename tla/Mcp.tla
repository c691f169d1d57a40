---------------------------------- MODULE Mcp ----------------------------------
(***************************************************************************)
(* The MCP server (mcp/server.ts, mcp/tools.ts): lines of JSON-RPC from an *)
(* agent on stdin, one answer at a time on stdout, and tool calls that ask *)
(* the daemon and wait for it.                                             *)
(*                                                                         *)
(* A line is two pieces, its text and its newline; a chunk of stdin brings *)
(* any number of pieces, and stdin may end without the last newline.  The  *)
(* binary bin/moltypass-mcp has the same loop without a daemon.            *)
(***************************************************************************)
EXTENDS Naturals, Sequences, FiniteSets

CONSTANTS
    NoId,
    MaxLines \* bound: lines the agent sends

ASSUME NoIdAssumption == NoId \notin 1..MaxLines
ASSUME LinesAssumption == MaxLines \in Nat

VARIABLES
    sent,    \* the lines of the agent
    pieces,  \* how many pieces of them it wrote
    arrived, \* how many of these the server read
    ended,   \* the agent closed stdin
    taken,   \* lines the loop took
    asked,   \* it waits for the daemon
    answers  \* what it wrote

stdin == <<sent, pieces, arrived, ended>>
mcpVars == <<stdin, taken, asked, answers>>

-----------------------------------------------------------------------------
(* The tools: what each requires of its arguments.                         *)

TOOL_DEFS ==
    [list_providers |-> {}, list_keys |-> {}, list_grants |-> {}, list_tools |-> {},
     list_anomalies |-> {}, item_history |-> {"key_id"}, annotate_item |-> {"key_id", "notes"},
     revoke_grant |-> {"grant_id"}, capture_key |-> {"provider", "label"},
     rotate_key |-> {"key_id"}, exec |-> {"command"}, uri_lint |-> {"uri"}]

Arguments == {"key_id", "notes", "grant_id", "provider", "label", "command", "uri"}

Acks == {"initialized", "notifications/initialized", "notifications/cancelled"}
Served == {"initialize", "ping", "tools/list", "shutdown"}

NoCall == [tool |-> "none", args |-> {}]
Rpc(method, call, hasId) == [form |-> "rpc", method |-> method, call |-> call, id |-> hasId]
Form(form, hasId) == [form |-> form, method |-> "none", call |-> NoCall, id |-> hasId]

\* One line of every kind the server tells apart.  "bad" is a URI that does not
\* parse; an alien message is an object that is not JSON-RPC 2.0.
ToolCalls ==
    {[tool |-> t, args |-> a] : t \in {"list_keys", "annotate_item", "exec", "uri_lint"},
                                a \in {Arguments, {"key_id", "bad", "uri"}}}
    \cup {[tool |-> "no_such_tool", args |-> {}]}
Lines ==
    {Rpc(m, NoCall, i) : m \in {"ping", "notifications/initialized", "resources/list", "tools/call"},
                         i \in BOOLEAN}
    \cup {Rpc("tools/call", c, TRUE) : c \in ToolCalls}
    \cup {Rpc("tools/call", [tool |-> "exec", args |-> Arguments], FALSE)}
    \cup {Form("alien", TRUE), Form("alien", FALSE), Form("garbage", FALSE)}

-----------------------------------------------------------------------------
McpTypeOK ==
    /\ Len(sent) <= MaxLines /\ \A i \in DOMAIN sent : sent[i] \in Lines
    /\ pieces \in {2 * Len(sent), 2 * Len(sent) - 1}
    /\ arrived \in 0..pieces /\ taken \in 0..Len(sent)
    /\ ended \in BOOLEAN /\ asked \in BOOLEAN
    /\ \A i \in DOMAIN answers : answers[i].line \in 1..taken

McpInit ==
    /\ sent = <<>> /\ pieces = 0 /\ arrived = 0 /\ ended = FALSE
    /\ taken = 0 /\ asked = FALSE /\ answers = <<>>

\* The agent writes a line, its newline, and ends.
WriteLine(l) ==
    /\ ~ended /\ pieces = 2 * Len(sent) /\ Len(sent) < MaxLines
    /\ sent' = Append(sent, l) /\ pieces' = pieces + 1
    /\ UNCHANGED <<arrived, ended, taken, asked, answers>>

WriteNewline ==
    /\ ~ended /\ pieces < 2 * Len(sent)
    /\ pieces' = pieces + 1
    /\ UNCHANGED <<sent, arrived, ended, taken, asked, answers>>

EndStdin ==
    /\ ~ended
    /\ ended' = TRUE
    /\ UNCHANGED <<sent, pieces, arrived, taken, asked, answers>>

Chunk(n) ==
    /\ n \in 1..(pieces - arrived)
    /\ arrived' = arrived + n
    /\ UNCHANGED <<sent, pieces, ended, taken, asked, answers>>

\* Mutant: what stands behind the last newline is dropped.
Terminated == arrived \div 2

\* The lines that can be taken: those whose newline came, and the rest at the end.
lines == IF ended /\ arrived = pieces THEN Len(sent) ELSE arrived \div 2

-----------------------------------------------------------------------------
(* handleRpc.                                                              *)

IdOf(i) == IF sent[i].id THEN i ELSE NoId

\* An answer, by the line it is for; keyed when a key can be read in it.
ok(i) == <<[line |-> i, id |-> IdOf(i), kind |-> "result", keyed |-> FALSE]>>
err(i, code) == <<[line |-> i, id |-> IdOf(i), kind |-> code, keyed |-> FALSE]>>
ToolAnswer(i, isError, keyed) ==
    <<[line |-> i, id |-> IdOf(i), kind |-> IF isError THEN "isError" ELSE "content", keyed |-> keyed]>>

parseRpcLine(i) == sent[i].form # "garbage"

\* Each required argument is there, and is a string or a list of strings.
requireStr(c) == TOOL_DEFS[c.tool] \subseteq c.args

parseMoltypassUri(c) == "bad" \notin c.args

\* A tool that asks the daemon: known, with its arguments, and for uri_lint a URI
\* that parses.
AsksDaemon(c) ==
    /\ c.tool \in DOMAIN TOOL_DEFS
    /\ requireStr(c)
    /\ c.tool = "uri_lint" => parseMoltypassUri(c)

\* A tool call that ends by itself: an unknown tool or a missing argument is an
\* error, a URI that does not parse is a result.
Refused(i) == ToolAnswer(i, sent[i].call.tool # "uri_lint" \/ "uri" \notin sent[i].call.args, FALSE)

IsCall(l) == l.form = "rpc" /\ l.method = "tools/call" /\ l.call # NoCall

\* What a line is answered at once; a notification of a known method is, too.
handleRpc(i) ==
    LET l == sent[i] IN
    CASE ~parseRpcLine(i) -> err(i, "parse")
      [] l.form = "alien" -> IF l.id THEN err(i, "invalidRequest") ELSE <<>>
      [] l.form = "rpc" /\ l.method \in Acks -> <<>>
      [] l.form = "rpc" /\ l.method \in Served -> ok(i)
      [] IsCall(l) -> Refused(i)
      [] l.form = "rpc" /\ l.method = "tools/call" /\ ~IsCall(l) -> err(i, "invalidParams")
      [] OTHER -> IF l.id THEN err(i, "methodNotFound") ELSE <<>>

Waits(l) == IsCall(l) /\ AsksDaemon(l.call)

\* Mutant: the loop does not wait for the call.
NotAwaited == TRUE

Awaited == ~asked

\* The loop takes the next line once the one before is answered.
runStdio ==
    /\ Awaited /\ taken < lines
    /\ taken' = taken + 1
    /\ IF Waits(sent[taken + 1])
       THEN asked' = TRUE /\ UNCHANGED answers
       ELSE answers' = answers \o handleRpc(taken + 1) /\ UNCHANGED asked
    /\ UNCHANGED stdin

\* The daemon's promise: fulfilled, perhaps with text that has a key in it, or
\* rejected.  The output of exec is redacted.
handleToolCall(rejected, keyed) ==
    /\ asked
    /\ asked' = FALSE
    /\ answers' = answers \o ToolAnswer(taken, rejected,
                                        keyed /\ (rejected \/ sent[taken].call.tool # "exec"))
    /\ UNCHANGED <<stdin, taken>>

Server == runStdio \/ (\E rejected, keyed \in BOOLEAN : handleToolCall(rejected, keyed))

McpNext ==
    \/ \E l \in Lines : WriteLine(l)
    \/ WriteNewline \/ EndStdin
    \/ \E n \in 1..(pieces - arrived) : Chunk(n)
    \/ Server

\* What was written arrives, the loop goes on, and the daemon answers.
McpFairness == WF_mcpVars(\E n \in 1..(pieces - arrived) : Chunk(n)) /\ WF_mcpVars(Server)

McpSpec == McpInit /\ [][McpNext]_mcpVars /\ McpFairness

-----------------------------------------------------------------------------
(* Properties.                                                             *)

Answered(i) == \E k \in DOMAIN answers : answers[k].line = i

\* A request: it has an id, and its method is not an acknowledgement.
IsRequest(l) == l.form # "garbage" /\ l.id /\ l.method \notin Acks

\* Answers come in the order of the lines, one for a line at most, with its id; a
\* line that was taken and is not waited for lacks its answer only if it is no
\* request; and no output of a command carries a key.
AnswersMatch ==
    /\ \A j, k \in DOMAIN answers : j < k => answers[j].line < answers[k].line
    /\ \A k \in DOMAIN answers :
           LET l == sent[answers[k].line] IN
           /\ answers[k].id = IF l.id THEN answers[k].line ELSE NoId
           /\ answers[k].keyed => l.call.tool # "exec" \/ answers[k].kind = "isError"
    /\ \A i \in 1..taken : IsRequest(sent[i]) => Answered(i) \/ (asked /\ i = taken)

\* Written out: its newline too, or the end of stdin behind it.
Due(i) == IsRequest(sent[i]) /\ (pieces >= 2 * i \/ ended)

\* As long as the daemon answers, the server catches up: whatever the agent writes,
\* sooner or later every request that was written out is answered.
EveryRequestIsAnswered == []<>(\A i \in DOMAIN sent : Due(i) => Answered(i))
=============================================================================
