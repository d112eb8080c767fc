--------------------------- MODULE PartnerServer ---------------------------
(***************************************************************************)
(* The partner-LLM server (src/mcp): three tools the assistant calls over  *)
(* the server's standard input.  ask_deepseek inlines files into a prompt, *)
(* behind a guard that keeps binaries in the house, and posts it;          *)
(* dispatch_gemini and dispatch_kilocode start a command-line agent in the *)
(* working tree and wait for it.  Calls are served side by side.           *)
(*                                                                         *)
(* External: the files change under the server; the API answers, fails,    *)
(* falls silent or trickles on; an agent works on the tree, leaves work    *)
(* behind when it is killed, and, since subprocess.run redirects stdin     *)
(* only when it is given input, may read the server's own requests.        *)
(***************************************************************************)
EXTENDS Naturals, Sequences, SequencesExt

CONSTANTS
  Calls,       \* the calls the client makes
  Requests,    \* what they may ask: [tool, files, allow, readonly, cwd]
  Files,
  Blocked,     \* the files whose suffix is on BINARY_SUFFIX_BLOCKLIST
  MaxEdits     \* bound: how often a file changes

Agents == {"gemini", "kilo"}
\* readonly is gemini's read_only; cwd is left out, not absolute, no directory, or one
RequestType ==
  [tool : {"deepseek"} \cup Agents, files : Seq(Files), allow : BOOLEAN, readonly : BOOLEAN,
   cwd : {"none", "relative", "missing", "dir"}]
ASSUME PartnerAssumption ==
  Blocked \subseteq Files /\ MaxEdits \in Nat /\ \A r \in Requests : r \in RequestType

\* A file as the server sees it: what it is, whether it exceeds MAX_FILE_BYTES, and
\* whether it decodes as UTF-8.
Contents == [kind : {"file"}, big : BOOLEAN, utf8 : BOOLEAN] \cup [kind : {"missing", "dir"}, big : {FALSE}, utf8 : {FALSE}]

VARIABLES
  file,        \* Files -> Contents
  edits,
  grown,       \* <<call, file>> for files exchanged since the call measured them
  request,     \* Calls -> what was asked
  pc,          \* Calls -> where the call is
  parts,       \* Calls -> the files read into its prompt so far, with the form they take
  posted,      \* Calls -> the prompts sent to the API
  agent,       \* Calls -> "none", "runs", "exited", "killed"
  strays,      \* calls whose killed agent left a command running
  wrote,       \* calls whose agent changed the tree
  late         \* calls whose agent's work changed the tree after their answer

fileVars == <<file, edits, grown>>
promptVars == <<parts, posted>>
agentVars == <<agent, strays, wrote, late>>
vars == <<fileVars, request, pc, promptVars, agentVars>>

Init ==
  /\ file \in [Files -> {[kind |-> "file", big |-> FALSE, utf8 |-> TRUE]}]
  /\ edits = 0 /\ grown = {}
  /\ request \in [Calls -> Requests]
  /\ pc = [c \in Calls |-> "unasked"]
  /\ parts = [c \in Calls |-> <<>>] /\ posted = [c \in Calls |-> <<>>]
  /\ agent = [c \in Calls |-> "none"] /\ strays = {} /\ wrote = {} /\ late = {}

Goto(c, l) == pc' = [pc EXCEPT ![c] = l]
Answers(c) == Goto(c, "answered")
Allowed(c) == request[c].allow

-----------------------------------------------------------------------------
\* External: a file is edited, replaced or removed.
Edit(f) ==
  /\ edits < MaxEdits /\ edits' = edits + 1
  /\ \E new \in Contents \ {file[f]} : file' = [file EXCEPT ![f] = new]
  /\ grown' = grown \cup (Calls \X {f})
  /\ UNCHANGED <<request, pc, promptVars, agentVars>>

\* External: the client writes a request; it waits in the server's stdin.
Ask(c) == /\ pc[c] = "unasked" /\ Goto(c, "written")
          /\ UNCHANGED <<fileVars, request, promptVars, agentVars>>
\* The server reads it.  A missing or empty DEEPSEEK_API_KEY ends the call here.
Take(c) ==
  /\ pc[c] = "written"
  /\ IF request[c].tool = "deepseek" THEN Goto(c, "files") \/ Answers(c) ELSE Goto(c, "cli")
  /\ UNCHANGED <<fileVars, request, promptVars, agentVars>>

-----------------------------------------------------------------------------
\* ask_deepseek: the files one after another, each measured and then read.
NextFile(c) == request[c].files[Len(parts[c]) + 1]
AllRead(c) == Len(parts[c]) = Len(request[c].files)
\* slip: the suffix is not looked at, only the content
Refused_NoSuffix(c, f) == file[f].kind # "file" \/ file[f].big
\* exists, is_file, the suffix, the size
Refused(c, f) == file[f].kind # "file" \/ (f \in Blocked /\ ~Allowed(c)) \/ file[f].big
MeasureFile(c) ==
  /\ pc[c] = "files" /\ ~AllRead(c)
  /\ IF Refused(c, NextFile(c)) THEN Answers(c) /\ UNCHANGED grown
     ELSE Goto(c, "read") /\ grown' = grown \ {<<c, NextFile(c)>>}
  /\ UNCHANGED <<file, edits, request, promptVars, agentVars>>
\* read_bytes and decode; bytes that are not UTF-8 go as a hex dump, if at all.
ReadFile(c) ==
  /\ pc[c] = "read"
  /\ LET f == NextFile(c)
     IN IF file[f].kind # "file" \/ (~file[f].utf8 /\ ~Allowed(c)) THEN Answers(c) /\ UNCHANGED parts
        ELSE /\ Goto(c, "files")
             /\ parts' = [parts EXCEPT ![c] =
                  Append(@, [file |-> f, big |-> file[f].big, grown |-> <<c, f>> \in grown,
                             form |-> IF file[f].utf8 THEN "text" ELSE "hex"])]
  /\ UNCHANGED <<fileVars, request, posted, agentVars>>
Post(c) ==
  /\ pc[c] = "files" /\ AllRead(c) /\ Goto(c, "posted")
  /\ posted' = [posted EXCEPT ![c] = Append(@, parts[c])]
  /\ UNCHANGED <<fileVars, request, parts, agentVars>>
\* External: an answer, or an error raise_for_status raises.
ApiAnswers(c) == /\ pc[c] = "posted" /\ Answers(c)
                 /\ UNCHANGED <<fileVars, request, promptVars, agentVars>>
\* External: the API sends nothing more.  The timeout is for each wait of its own:
\* an API that keeps trickling is waited for without end.
ApiSilent(c) == /\ pc[c] = "posted" /\ Goto(c, "silent")
                /\ UNCHANGED <<fileVars, request, promptVars, agentVars>>
\* slip: a client without a timeout
ApiTimeout_Never(c) == pc[c] = "silent" /\ FALSE
ApiTimeout(c) == /\ pc[c] = "silent" /\ Answers(c)
                 /\ UNCHANGED <<fileVars, request, promptVars, agentVars>>

-----------------------------------------------------------------------------
\* _run_cli: the program and the working directory are looked up, the agent started.
ReadOnly(c) == request[c].tool = "gemini" /\ request[c].readonly   \* --approval-mode plan
StartAgent(c) ==
  /\ pc[c] = "cli"
  /\ \/ Answers(c) /\ UNCHANGED agent          \* no such program, or it does not start
     \/ /\ request[c].cwd \in {"none", "dir"}
        /\ Goto(c, "waiting") /\ agent' = [agent EXCEPT ![c] = "runs"]
  /\ UNCHANGED <<fileVars, request, promptVars, strays, wrote, late>>
\* External: what the agent does, and what it leaves running when it is killed.  An
\* agent that exits by itself is done with its work.
Working(c) == agent[c] = "runs" \/ c \in strays
AgentWrites(c) ==
  /\ Working(c) /\ ~ReadOnly(c)
  /\ wrote' = wrote \cup {c}
  /\ late' = (IF pc[c] = "answered" THEN late \cup {c} ELSE late)
  /\ UNCHANGED <<fileVars, request, pc, promptVars, agent, strays>>
AgentReadsRequest(c, d) ==
  /\ agent[c] = "runs" /\ pc[d] = "written"
  /\ Goto(d, "stolen")
  /\ UNCHANGED <<fileVars, request, promptVars, agentVars>>
AgentExits(c) ==
  /\ agent[c] = "runs" /\ agent' = [agent EXCEPT ![c] = "exited"]
  /\ UNCHANGED <<fileVars, request, pc, promptVars, strays, wrote, late>>
StrayEnds(c) ==
  /\ c \in strays /\ strays' = strays \ {c}
  /\ UNCHANGED <<fileVars, request, pc, promptVars, agent, wrote, late>>
\* What the agent printed is the answer, whatever its exit code.
Collect(c) ==
  /\ pc[c] = "waiting" /\ agent[c] = "exited" /\ Answers(c)
  /\ UNCHANGED <<fileVars, request, promptVars, agentVars>>
\* slip: the call gives up and lets the agent run
Kill_Not(c) == UNCHANGED <<agent, strays>>
\* subprocess.run kills the program it started, and nothing that program started.
Kill(c) == /\ agent' = [agent EXCEPT ![c] = "killed"]
           /\ strays' \in {strays, strays \cup {c}}
CliTimeout(c) ==
  /\ pc[c] = "waiting" /\ agent[c] = "runs"
  /\ Kill(c) /\ Answers(c)
  /\ UNCHANGED <<fileVars, request, promptVars, wrote, late>>

Serve(c) == \/ Take(c) \/ MeasureFile(c) \/ ReadFile(c) \/ Post(c) \/ ApiTimeout(c)
            \/ StartAgent(c) \/ Collect(c) \/ CliTimeout(c)
Outside(c) == \/ Ask(c) \/ ApiAnswers(c) \/ ApiSilent(c)
              \/ AgentWrites(c) \/ AgentExits(c) \/ StrayEnds(c)
              \/ \E d \in Calls : AgentReadsRequest(c, d)
Next == (\E c \in Calls : Serve(c) \/ Outside(c)) \/ \E f \in Files : Edit(f)
Spec == Init /\ [][Next]_vars /\ \A c \in Calls : WF_vars(Serve(c))

-----------------------------------------------------------------------------
\* What leaves the house is what was asked: all files of the request in their order
\* or nothing; without allow_binary only text, and of no file on the blocklist; and
\* nothing over the size limit but a file that grew after it was measured.  This
\* holds while files are replaced between the guard's checks and the read.
PromptsAreClean ==
  \A c \in Calls : \A p \in Range(posted[c]) :
    /\ [k \in DOMAIN p |-> p[k].file] = request[c].files
    /\ \A q \in Range(p) : /\ Allowed(c) \/ (q.form = "text" /\ q.file \notin Blocked)
                           /\ q.big => q.grown

\* The tree changes only by agents that were allowed to; and once a call has been
\* answered nothing of it works on, so that a retry is alone in the tree, unless the
\* call timed out and its killed agent left a command running.
TreeChangesAsAsked ==
  /\ \A c \in wrote : request[c].tool \in Agents /\ ~ReadOnly(c)
  /\ \A c \in Calls : pc[c] = "answered" => agent[c] # "runs"
  /\ \A c \in late : agent[c] = "killed"

\* Every request is answered, by a result or an error: unless an agent took it out
\* of the shared stdin, or it was posted to an API that neither answers nor falls
\* silent.
RequestServed ==
  \A c \in Calls : pc[c] \in {"written", "silent"} ~> pc[c] \in {"answered", "stolen", "posted"}
=============================================================================
