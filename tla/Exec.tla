--------------------------------- MODULE Exec ---------------------------------
(***************************************************************************)
(* moltypass exec (cli/runner.ts, cli/redact.ts and their plain-JS mirrors *)
(* in lib): a child process runs with the keys its tool needs, and what it *)
(* writes reaches the terminal with everything shaped like a key replaced. *)
(*                                                                         *)
(* Text is a sequence of symbols: the prefix of a key, a letter of the key *)
(* alphabet, a space, a newline, and the two bytes of a wide character.    *)
(* The pipe hands it over in chunks cut anywhere.                          *)
(***************************************************************************)
EXTENDS Naturals, Sequences, FiniteSets

CONSTANTS
    Streams,   \* stdout and stderr
    Providers, \* anthropic, openai, gemini, nebius
    NoLabel,
    WorkLabel,
    KeyLength, \* how many letters make a prefix a key
    SOFT_CAP,
    MIN_TAIL,
    MaxText    \* bound: symbols the child writes, on all streams

ASSUME CapAssumption == MIN_TAIL \in Nat \ {0} /\ SOFT_CAP \in Nat /\ KeyLength \in Nat

VARIABLES
    run,     \* the options of the command, and how far it is
    child,   \* the child process: "none", "running", or how it ended
    heir,    \* a process the child started holds its pipes
    written, \* what was written to each pipe
    read,    \* how much of it arrived
    buffer,  \* of each redactor
    shown,   \* what was written to the terminal
    split,   \* streams where a chunk ended inside a wide character
    timer,   \* "none", "set" or "fired"
    exitCode

pipes == <<written, read>>
redactors == <<buffer, shown, split>>
execVars == <<run, child, heir, pipes, redactors, timer, exitCode>>

-----------------------------------------------------------------------------
(* redact: mcp/redact.ts.  The shapes are a prefix and a run of letters of  *)
(* one alphabet; one stands for all (gemini's run has a fixed length).     *)

Alphabet == {"sk-", "x"}
Blank == {" ", "\n"}
Marker == "[REDACTED-BY-MOLTYPASS]"
Gone == ""

\* The symbols of a text that are not gone: the k-th is the one with k up to it.
Rank(S, i) == Cardinality({j \in S : j <= i})

Present(t) ==
    LET kept == {i \in DOMAIN t : t[i] # Gone}
    IN [k \in 1..Cardinality(kept) |-> t[CHOOSE i \in kept : Rank(kept, i) = k]]

IsKeyRun(t, i, j) == t[i] = "sk-" /\ \A k \in i..j : t[k] \in Alphabet

\* The positions a match covers: from a prefix to the end of its run.
KEY_SHAPES(t) ==
    {j \in DOMAIN t : \E i \in 1..j : /\ IsKeyRun(t, i, j)
                                      /\ i + KeyLength <= Len(t) /\ IsKeyRun(t, i, i + KeyLength)}

redact(t) ==
    LET hidden == KEY_SHAPES(t)
        at(i) == IF i \notin hidden THEN t[i] ELSE IF i - 1 \notin hidden THEN Marker ELSE Gone
    IN Present([i \in DOMAIN t |-> at(i)])

\* toString of the bytes of one chunk: half a character becomes another one.
Decode(t) ==
    LET at(i) == CASE t[i] = "w1" -> IF i < Len(t) /\ t[i + 1] = "w2" THEN "w" ELSE "?"
                   [] t[i] = "w2" -> IF i > 1 /\ t[i - 1] = "w1" THEN Gone ELSE "?"
                   [] OTHER -> t[i]
    IN Present([i \in DOMAIN t |-> at(i)])

-----------------------------------------------------------------------------
(* Which keys the child gets: cli/catalog.ts.                              *)

Options == [strict : BOOLEAN, label : {NoLabel, WorkLabel}, timed : BOOLEAN]

\* A tool of the catalog, one that declares no variable of its own, and a tool
\* that is not in the catalog.
TOOL_CATALOG ==
    LET p == CHOOSE q \in Providers : TRUE IN
    {[envVars |-> {p}, providerHints |-> {p}], [envVars |-> {}, providerHints |-> {p}],
     [envVars |-> Providers, providerHints |-> Providers]}

\* The variables set, each named by the provider whose key it holds.
resolveEnvForTool(tool, entries, label) ==
    {p \in tool.providerHints :
        /\ \E e \in entries : e.service = p /\ label \in {NoLabel, e.label}
        /\ tool.envVars = {} \/ p \in tool.envVars}

-----------------------------------------------------------------------------
Phases == {"idle", "running", "refused", "failed", "closed", "recorded"}

ExecTypeOK ==
    /\ run.at \in Phases /\ run.timed \in BOOLEAN
    /\ child \in {"none", "running", "exited", "failed", "signalled"} /\ heir \in BOOLEAN
    /\ \A s \in Streams : read[s] \in 0..Len(written[s])
    /\ split \subseteq Streams
    /\ timer \in {"none", "set", "fired"}
    /\ exitCode \in {0, 1, 4, 124}

ExecInit ==
    /\ run = [at |-> "idle", timed |-> FALSE]
    /\ child = "none" /\ heir = FALSE
    /\ written = [s \in Streams |-> <<>>] /\ read = [s \in Streams |-> 0]
    /\ buffer = [s \in Streams |-> <<>>] /\ shown = [s \in Streams |-> <<>>]
    /\ split = {} /\ timer = "none" /\ exitCode = 0

Phase(p) == run' = [run EXCEPT !.at = p]

\* cmdExec: with --strict a tool that gets no key is not run.
cmdExec(tool, entries, o) ==
    /\ run.at = "idle"
    /\ LET refused == o.strict /\ resolveEnvForTool(tool, entries, o.label) = {} IN
       /\ run' = [at |-> IF refused THEN "refused" ELSE "running", timed |-> o.timed]
       /\ child' = IF refused THEN "none" ELSE "running"
       /\ timer' = IF o.timed /\ ~refused THEN "set" ELSE "none"
       /\ exitCode' = IF refused THEN 4 ELSE 0
    /\ UNCHANGED <<heir, pipes, redactors>>

\* The process could not be started: nothing is flushed, nothing is recorded.
SpawnError ==
    /\ run.at = "running" /\ child = "running"
    /\ \A s \in Streams : written[s] = <<>>
    /\ ~heir
    /\ Phase("failed")
    /\ child' = "none" /\ timer' = "none" /\ exitCode' = 1
    /\ UNCHANGED <<heir, pipes, redactors>>

Text(s) == Len(written[s])
Bytes == UNION {{s} \X DOMAIN written[s] : s \in Streams}

\* The child, or what it started, writes.
ChildWrites(s, t) ==
    /\ child = "running" \/ heir
    /\ Cardinality(Bytes) + Len(t) <= MaxText
    /\ written' = [written EXCEPT ![s] = @ \o t]
    /\ UNCHANGED <<run, child, heir, read, redactors, timer, exitCode>>

Fork ==
    /\ child = "running" /\ ~heir
    /\ heir' = TRUE
    /\ UNCHANGED <<run, child, pipes, redactors, timer, exitCode>>

HeirEnds ==
    /\ heir
    /\ heir' = FALSE
    /\ UNCHANGED <<run, child, pipes, redactors, timer, exitCode>>

ChildEnds(how) ==
    /\ child = "running"
    /\ child' = how
    /\ UNCHANGED <<run, heir, pipes, redactors, timer, exitCode>>

\* Mutant: the timer is noted and the child runs on.
Spared == child

Killed == IF child = "running" THEN "signalled" ELSE child

\* SIGKILL reaches the child alone.
Timeout ==
    /\ run.at = "running" /\ timer = "set"
    /\ timer' = "fired"
    /\ child' = Killed
    /\ UNCHANGED <<run, heir, pipes, redactors, exitCode>>

-----------------------------------------------------------------------------
(* The redactor of a stream: cli/redact.ts.                                *)

Largest(S) == IF S = {} THEN 0 ELSE CHOOSE n \in S : \A m \in S : m <= n

\* Mutant: a long line is cut where the tail begins.
CutAtHint(t, hint) == hint

\* After the last blank that leaves a tail, but not after a first symbol.
lastSafeBoundary(t, hint) == Largest({p \in 2..(hint + 1) : t[p] \in Blank})

Boundary(t) ==
    LET lastNewline == Largest({p \in DOMAIN t : t[p] = "\n"}) IN
    IF lastNewline > 0 THEN lastNewline
    ELSE IF Len(t) > SOFT_CAP THEN lastSafeBoundary(t, Len(t) - MIN_TAIL)
    ELSE 0

\* The next n bytes of a pipe arrive as one chunk.
push(s, n) ==
    /\ run.at = "running" /\ n \in 1..(Text(s) - read[s])
    /\ read' = [read EXCEPT ![s] = @ + n]
    /\ \E chunk \in {SubSeq(written[s], read[s] + 1, read[s] + n)} :
           /\ split' = IF chunk[n] = "w1" THEN split \cup {s} ELSE split
           /\ \E text \in {buffer[s] \o Decode(chunk)} : \E cut \in {Boundary(text)} :
                  /\ buffer' = [buffer EXCEPT ![s] = SubSeq(text, cut + 1, Len(text))]
                  /\ shown' = [shown EXCEPT ![s] = @ \o redact(SubSeq(text, 1, cut))]
    /\ UNCHANGED <<run, child, heir, written, timer, exitCode>>

\* close comes when the child is gone and every holder of its pipes too; a child
\* that a signal ended has no code, which counts as 0.
Closed ==
    /\ run.at = "running"
    /\ child \notin {"none", "running"} /\ ~heir
    /\ \A s \in Streams : read[s] = Text(s)
    /\ Phase("closed")
    /\ exitCode' = IF timer = "fired" THEN 124 ELSE IF child = "failed" THEN 1 ELSE 0
    /\ timer' = IF timer = "fired" THEN timer ELSE "none"
    /\ UNCHANGED <<child, heir, pipes, redactors>>

\* The tails are written, and the daemon is told.
flush ==
    /\ run.at = "closed"
    /\ shown' = [s \in Streams |-> shown[s] \o redact(buffer[s])]
    /\ buffer' = [s \in Streams |-> <<>>]
    /\ Phase("recorded")
    /\ UNCHANGED <<child, heir, pipes, split, timer, exitCode>>

-----------------------------------------------------------------------------
Entries == [service : Providers, label : {WorkLabel, "other"}]
Words == {<<"sk-">>, <<"x">>, <<" ">>, <<"\n">>, <<"w1", "w2">>}

ChildActs ==
    \/ \E s \in Streams, t \in Words : ChildWrites(s, t)
    \/ Fork \/ HeirEnds
    \/ \E how \in {"exited", "failed", "signalled"} : ChildEnds(how)

RunnerActs ==
    \/ \E s \in Streams : \E n \in 1..(Text(s) - read[s]) : push(s, n)
    \/ Closed \/ flush

ExecNext ==
    \/ \E tool \in TOOL_CATALOG, entries \in SUBSET Entries, o \in Options : cmdExec(tool, entries, o)
    \/ SpawnError \/ Timeout
    \/ ChildActs \/ RunnerActs

\* The runner's events are delivered and its timer fires; the child and what it
\* started may run forever.
ExecFairness == WF_execVars(RunnerActs) /\ WF_execVars(Timeout)

ExecSpec == ExecInit /\ [][ExecNext]_execVars /\ ExecFairness

-----------------------------------------------------------------------------
(* Properties.                                                             *)

Arrived(s) == SubSeq(written[s], 1, read[s])

\* However its output is cut into chunks, what is shown is the output as it would be
\* redacted in one piece, and all of it once the run is over; where a chunk cut a
\* wide character, what is shown still has no key.
ShownIsRedacted ==
    \A s \in Streams :
        /\ KEY_SHAPES(shown[s]) = {}
        /\ s \notin split => shown[s] \o redact(buffer[s]) = redact(Decode(Arrived(s)))
        /\ run.at = "recorded" => buffer[s] = <<>> /\ Arrived(s) = written[s]

\* A run with a time limit ends, unless a process the child left behind keeps its
\* output open for good.
TimedRunEnds == (run.at = "running" /\ run.timed) ~> (run.at # "running" \/ heir)
=============================================================================
