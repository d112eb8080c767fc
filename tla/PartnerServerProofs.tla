------------------------ MODULE PartnerServerProofs ------------------------
(***************************************************************************)
(* What the server of PartnerServer lets out of the house and into the     *)
(* tree, for all calls, requests and files.                                *)
(***************************************************************************)
EXTENDS PartnerServer, TLAPS, SequenceTheorems

\* A file as it went into a prompt.
PartType == [file : Files, big : BOOLEAN, grown : BOOLEAN, form : {"text", "hex"}]
TypeOK ==
  /\ file \in [Files -> Contents]
  /\ request \in [Calls -> RequestType]
  /\ pc \in [Calls -> {"unasked", "written", "stolen", "files", "read", "posted", "silent",
                       "cli", "waiting", "answered"}]
  /\ parts \in [Calls -> Seq(PartType)] /\ posted \in [Calls -> Seq(Seq(PartType))]
  /\ agent \in [Calls -> {"none", "runs", "exited", "killed"}]

-----------------------------------------------------------------------------
(***************************************************************************)
(* Prompts.                                                                *)
(***************************************************************************)
Clean(c, q) == /\ Allowed(c) \/ (q.form = "text" /\ q.file \notin Blocked)
               /\ q.big => q.grown
\* p holds the first files of c's request, each with the checks it must have passed
Begins(c, p) == /\ Len(p) <= Len(request[c].files)
                /\ \A k \in 1 .. Len(p) : p[k].file = request[c].files[k] /\ Clean(c, p[k])
\* What MeasureFile found of f still holds, or f has been exchanged since
Measured(c, f) == /\ f \notin Blocked \/ Allowed(c)
                  /\ file[f].big => <<c, f>> \in grown
PromptInv(c) ==
  /\ Begins(c, parts[c])
  /\ pc[c] = "read" => ~AllRead(c) /\ Measured(c, NextFile(c))
  /\ \A n \in 1 .. Len(posted[c]) :
       Begins(c, posted[c][n]) /\ Len(posted[c][n]) = Len(request[c].files)

(***************************************************************************)
(* The tree.                                                               *)
(***************************************************************************)
TreeInv(c) ==
  /\ pc[c] \in {"cli", "waiting"} \/ agent[c] # "none" => request[c].tool \in Agents
  /\ agent[c] = "runs" => pc[c] = "waiting"
  /\ agent[c] # "none" => pc[c] \in {"waiting", "answered"}
  /\ c \in strays \cup late => agent[c] = "killed"
  /\ c \in wrote => request[c].tool \in Agents /\ ~ReadOnly(c)
\* only calls write, and only what writes is late
Writers == wrote \subseteq Calls /\ late \subseteq Calls
ServerInv == TypeOK /\ Writers /\ \A c \in Calls : PromptInv(c) /\ TreeInv(c)

-----------------------------------------------------------------------------
\* The file a call comes to next is one of its request's.
LEMMA NextIsFile ==
  ASSUME TypeOK, NEW c \in Calls, Len(parts[c]) <= Len(request[c].files), ~AllRead(c)
  PROVE  /\ Len(parts[c]) \in Nat /\ Len(parts[c]) + 1 \in 1 .. Len(request[c].files)
         /\ NextFile(c) \in Files
         /\ file[NextFile(c)] \in Contents
<1>1. parts[c] \in Seq(PartType) /\ request[c].files \in Seq(Files)
  BY DEF TypeOK, RequestType
<1>2. Len(parts[c]) \in Nat /\ Len(request[c].files) \in Nat
  BY <1>1, LenProperties
<1>3. Len(parts[c]) + 1 \in 1 .. Len(request[c].files)
  BY <1>2 DEF AllRead
<1>4. NextFile(c) \in Files
  BY <1>1, <1>3, ElementOfSeq DEF NextFile
<1> QED
  BY <1>2, <1>3, <1>4 DEF TypeOK

\* The types.  A read appends one part, a post one prompt.
LEMMA TypeStep ==
  TypeOK /\ (\A c \in Calls : PromptInv(c)) /\ [Next]_vars => TypeOK'
<1> SUFFICES ASSUME TypeOK, \A c \in Calls : PromptInv(c), [Next]_vars PROVE TypeOK'
  OBVIOUS
<1> USE DEF TypeOK, fileVars, promptVars, agentVars, Goto, Answers
<1>1. ASSUME NEW c \in Calls, Serve(c) PROVE TypeOK'
  <2>1. CASE Take(c)
    BY <2>1 DEF Take
  <2>2. CASE MeasureFile(c)
    BY <2>2 DEF MeasureFile
  <2>3. CASE ReadFile(c)
    <3> DEFINE f == NextFile(c)
               q == [file |-> f, big |-> file[f].big, grown |-> <<c, f>> \in grown,
                     form |-> IF file[f].utf8 THEN "text" ELSE "hex"]
    <3>1. f \in Files /\ file[f] \in Contents
      BY <2>3, <1>1, NextIsFile DEF ReadFile, PromptInv, Begins
    <3>2. q \in PartType
      <4>1. file[f].big \in BOOLEAN
        BY <3>1 DEF Contents
      <4>2. (<<c, f>> \in grown) \in BOOLEAN
        OBVIOUS
      <4>3. (IF file[f].utf8 THEN "text" ELSE "hex") \in {"text", "hex"}
        OBVIOUS
      <4> HIDE DEF f
      <4> QED
        BY <3>1, <4>1, <4>2, <4>3 DEF PartType
    <3>3. Append(parts[c], q) \in Seq(PartType)
      BY <3>2, <1>1, AppendProperties
    <3>4. parts' = parts \/ parts' = [parts EXCEPT ![c] = Append(@, q)]
      BY <2>3 DEF ReadFile
    <3>5. parts' \in [Calls -> Seq(PartType)]
      BY <3>3, <3>4
    <3> QED
      BY <2>3, <3>5 DEF ReadFile
  <2>4. CASE Post(c)
    <3>1. Append(posted[c], parts[c]) \in Seq(Seq(PartType))
      BY <1>1, AppendProperties
    <3> QED
      BY <2>4, <3>1 DEF Post
  <2>5. CASE ApiTimeout(c)
    BY <2>5 DEF ApiTimeout
  <2>6. CASE StartAgent(c)
    BY <2>6 DEF StartAgent
  <2>7. CASE Collect(c)
    BY <2>7 DEF Collect
  <2>8. CASE CliTimeout(c)
    BY <2>8 DEF CliTimeout, Kill
  <2> QED
    BY <1>1, <2>1, <2>2, <2>3, <2>4, <2>5, <2>6, <2>7, <2>8 DEF Serve
<1>2. ASSUME NEW c \in Calls, Outside(c) PROVE TypeOK'
  BY <1>2 DEF Outside, Ask, ApiAnswers, ApiSilent, AgentWrites, AgentExits, StrayEnds, AgentReadsRequest
<1>3. ASSUME NEW f \in Files, Edit(f) PROVE TypeOK'
  BY <1>3 DEF Edit
<1>4. CASE UNCHANGED vars
  BY <1>4 DEF vars
<1> QED
  BY <1>1, <1>2, <1>3, <1>4 DEF Next

\* A step that leaves a call's files and prompts alone and does not measure for it.
LEMMA PromptFrame ==
  ASSUME NEW c \in Calls, PromptInv(c), UNCHANGED <<file, grown, request, promptVars>>,
         pc'[c] = "read" => pc[c] = "read"
  PROVE  PromptInv(c)'
BY DEF promptVars, PromptInv, Begins, Clean, Measured, Allowed, AllRead, NextFile

\* Appending a part to a prompt, seen from its places.
LEMMA OneMore ==
  ASSUME NEW T, NEW s \in Seq(T), NEW e
  PROVE  /\ Len(Append(s, e)) = Len(s) + 1
         /\ \A k \in 1 .. Len(s) + 1 : Append(s, e)[k] = IF k = Len(s) + 1 THEN e ELSE s[k]
OBVIOUS

\* The steps of a call's own that measure, read and post.
LEMMA PromptServe ==
  ASSUME TypeOK, NEW c \in Calls, PromptInv(c), Serve(c)
  PROVE  PromptInv(c)'
<1> USE DEF TypeOK, fileVars, promptVars, agentVars, Goto, Answers
<1>1. CASE MeasureFile(c)
  <2>1. CASE Refused(c, NextFile(c))
    BY <1>1, <2>1, PromptFrame DEF MeasureFile
  <2>2. CASE ~Refused(c, NextFile(c))
    <3>1. Begins(c, parts[c])'
      BY <1>1, <2>2 DEF MeasureFile, PromptInv, Begins, Clean, Allowed
    <3>2. (~AllRead(c) /\ Measured(c, NextFile(c)))'
      BY <1>1, <2>2 DEF MeasureFile, AllRead, Measured, NextFile, Allowed, Refused
    <3>3. (\A n \in 1 .. Len(posted[c]) :
             Begins(c, posted[c][n]) /\ Len(posted[c][n]) = Len(request[c].files))'
      BY <1>1, <2>2 DEF MeasureFile, PromptInv, Begins, Clean, Allowed
    <3> QED
      BY <3>1, <3>2, <3>3 DEF PromptInv
  <2> QED
    BY <2>1, <2>2
<1>2. CASE ReadFile(c)
  <2> DEFINE f == NextFile(c)
             q == [file |-> f, big |-> file[f].big, grown |-> <<c, f>> \in grown,
                   form |-> IF file[f].utf8 THEN "text" ELSE "hex"]
  <2>1. CASE file[f].kind # "file" \/ (~file[f].utf8 /\ ~Allowed(c))
    BY <1>2, <2>1, PromptFrame DEF ReadFile
  <2>2. CASE ~(file[f].kind # "file" \/ (~file[f].utf8 /\ ~Allowed(c)))
    <3>1. pc[c] = "read" /\ pc' = [pc EXCEPT ![c] = "files"]
      BY <1>2, <2>2 DEF ReadFile
    <3>2. parts' = [parts EXCEPT ![c] = Append(parts[c], q)]
      BY <1>2, <2>2 DEF ReadFile
    <3>3. UNCHANGED <<file, grown, request, posted>>
      BY <1>2 DEF ReadFile
    <3>4. Begins(c, parts[c]) /\ ~AllRead(c) /\ Measured(c, f)
      BY <3>1 DEF PromptInv
    <3>5. /\ Len(parts[c]) \in Nat /\ Len(parts[c]) + 1 \in 1 .. Len(request[c].files)
          /\ f = request[c].files[Len(parts[c]) + 1]
      BY <3>4, NextIsFile DEF Begins, NextFile
    <3>6. Clean(c, q)
      BY <2>2, <3>4 DEF Clean, Measured, Allowed
    <3>7. parts[c] \in Seq(PartType)
      OBVIOUS
    <3> HIDE DEF q
    <3>8. Begins(c, Append(parts[c], q))
      <4>1. q.file = f
        BY DEF q
      <4> QED
        BY <3>4, <3>5, <3>6, <3>7, <4>1, OneMore DEF Begins
    <3>9. parts'[c] = Append(parts[c], q) /\ pc'[c] = "files" /\ UNCHANGED <<request, posted>>
      BY <3>1, <3>2, <3>3
    <3> QED
      BY <3>8, <3>9 DEF PromptInv, Begins, Clean, Allowed
  <2> QED
    BY <2>1, <2>2
<1>3. CASE Post(c)
  <2>1. /\ pc'[c] = "posted" /\ UNCHANGED <<file, grown, request, parts>>
        /\ posted'[c] = Append(posted[c], parts[c])
    BY <1>3 DEF Post
  <2>2. Begins(c, parts[c]) /\ Len(parts[c]) = Len(request[c].files)
    BY <1>3 DEF Post, PromptInv, AllRead
  <2>3. posted[c] \in Seq(Seq(PartType)) /\ Len(posted[c]) \in Nat
    BY LenProperties
  <2>4. \A n \in 1 .. Len(posted'[c]) :
          Begins(c, posted'[c][n]) /\ Len(posted'[c][n]) = Len(request[c].files)
    BY <2>1, <2>2, <2>3, OneMore DEF PromptInv
  <2>5. Begins(c, parts[c])'
    BY <2>1, <2>2 DEF Begins, Clean, Allowed
  <2>6. (\A n \in 1 .. Len(posted[c]) :
           Begins(c, posted[c][n]) /\ Len(posted[c][n]) = Len(request[c].files))'
    BY <2>1, <2>4 DEF Begins, Clean, Allowed
  <2> QED
    BY <2>1, <2>5, <2>6 DEF PromptInv
<1>4. CASE Take(c) \/ ApiTimeout(c) \/ StartAgent(c) \/ Collect(c) \/ CliTimeout(c)
  BY <1>4, PromptFrame DEF Take, ApiTimeout, StartAgent, Collect, CliTimeout
<1> QED
  BY <1>1, <1>2, <1>3, <1>4 DEF Serve

\* A step of another call leaves this one's prompts alone.
LEMMA PromptOther ==
  ASSUME TypeOK, NEW c \in Calls, NEW d \in Calls, c # d, PromptInv(c), Serve(d)
  PROVE  PromptInv(c)'
<1> USE DEF TypeOK, fileVars, promptVars, agentVars, Goto, Answers
<1>1. CASE MeasureFile(d)
  <2>1. /\ pc'[c] = pc[c] /\ UNCHANGED <<file, request, parts, posted>>
        /\ \A f : <<c, f>> \in grown' <=> <<c, f>> \in grown
    BY <1>1 DEF MeasureFile
  <2> QED
    BY <2>1 DEF PromptInv, Begins, Clean, Measured, Allowed, AllRead, NextFile
<1>2. CASE ReadFile(d) \/ Post(d)
  <2>1. /\ pc'[c] = pc[c] /\ UNCHANGED <<file, grown, request>>
        /\ parts'[c] = parts[c] /\ posted'[c] = posted[c]
    BY <1>2 DEF ReadFile, Post
  <2> QED
    BY <2>1 DEF PromptInv, Begins, Clean, Measured, Allowed, AllRead, NextFile
<1>3. CASE Take(d) \/ ApiTimeout(d) \/ StartAgent(d) \/ Collect(d) \/ CliTimeout(d)
  BY <1>3, PromptFrame DEF Take, ApiTimeout, StartAgent, Collect, CliTimeout
<1> QED
  BY <1>1, <1>2, <1>3 DEF Serve

\* What goes into a prompt has passed the guard, whoever acts.
LEMMA PromptStep ==
  ASSUME TypeOK, \A c \in Calls : PromptInv(c), [Next]_vars
  PROVE  \A c \in Calls : PromptInv(c)'
<1> SUFFICES ASSUME NEW c \in Calls PROVE PromptInv(c)'
  OBVIOUS
<1> USE DEF fileVars, promptVars, agentVars, Goto, Answers
<1>1. ASSUME NEW d \in Calls, Serve(d) PROVE PromptInv(c)'
  BY <1>1, PromptServe, PromptOther
<1>2. ASSUME NEW d \in Calls, Outside(d) PROVE PromptInv(c)'
  BY <1>2, PromptFrame DEF TypeOK, Outside, Ask, ApiAnswers, ApiSilent, AgentWrites, AgentExits,
    StrayEnds, AgentReadsRequest
\* whatever becomes of a file is noted against every call that has measured it
<1>3. ASSUME NEW f \in Files, Edit(f) PROVE PromptInv(c)'
  <2>1. /\ UNCHANGED <<request, pc, promptVars>>
        /\ \A g : <<c, g>> \in grown => <<c, g>> \in grown'
        /\ <<c, f>> \in grown'
        /\ \A g : g # f => file'[g] = file[g]
    BY <1>3 DEF Edit, TypeOK
  <2>2. Measured(c, NextFile(c)) => Measured(c, NextFile(c))'
    BY <2>1 DEF Measured, NextFile, Allowed
  <2>3. UNCHANGED <<request, pc, parts, posted>>
    BY <2>1
  <2>4. Begins(c, parts[c])'
    BY <2>3 DEF PromptInv, Begins, Clean, Allowed
  <2>5. (pc[c] = "read" => ~AllRead(c) /\ Measured(c, NextFile(c)))'
    BY <2>2, <2>3 DEF PromptInv, AllRead
  <2>6. (\A n \in 1 .. Len(posted[c]) :
           Begins(c, posted[c][n]) /\ Len(posted[c][n]) = Len(request[c].files))'
    BY <2>3 DEF PromptInv, Begins, Clean, Allowed
  <2> QED
    BY <2>4, <2>5, <2>6 DEF PromptInv
<1>4. CASE UNCHANGED vars
  BY <1>4, PromptFrame DEF vars
<1> QED
  BY <1>1, <1>2, <1>3, <1>4 DEF Next

\* Who works on the tree was asked to, and whoever has been answered works no more.
LEMMA TreeStep ==
  ASSUME TypeOK, Writers, \A c \in Calls : TreeInv(c), [Next]_vars
  PROVE  Writers' /\ \A c \in Calls : TreeInv(c)'
<1> USE DEF TypeOK, fileVars, promptVars, agentVars, Goto, Answers, TreeInv, Writers, ReadOnly
<1>1. ASSUME NEW d \in Calls, Serve(d) PROVE Writers' /\ \A c \in Calls : TreeInv(c)'
  <2>1. CASE Take(d)
    BY <1>1, <2>1 DEF Take, RequestType
  <2>2. CASE MeasureFile(d)
    BY <1>1, <2>2 DEF MeasureFile
  <2>3. CASE ReadFile(d)
    BY <1>1, <2>3 DEF ReadFile
  <2>4. CASE Post(d)
    BY <1>1, <2>4 DEF Post
  <2>5. CASE ApiTimeout(d)
    BY <1>1, <2>5 DEF ApiTimeout
  <2>6. CASE StartAgent(d)
    BY <1>1, <2>6 DEF StartAgent
  <2>7. CASE Collect(d)
    BY <1>1, <2>7 DEF Collect
  <2>8. CASE CliTimeout(d)
    BY <1>1, <2>8 DEF CliTimeout, Kill
  <2> QED
    BY <1>1, <2>1, <2>2, <2>3, <2>4, <2>5, <2>6, <2>7, <2>8 DEF Serve
<1>2. ASSUME NEW d \in Calls, Outside(d) PROVE Writers' /\ \A c \in Calls : TreeInv(c)'
  <2>1. CASE Ask(d) \/ ApiAnswers(d) \/ ApiSilent(d)
    BY <1>2, <2>1 DEF Ask, ApiAnswers, ApiSilent
  <2>2. CASE AgentWrites(d)
    BY <1>2, <2>2 DEF AgentWrites, Working
  <2>3. CASE AgentExits(d) \/ StrayEnds(d)
    BY <1>2, <2>3 DEF AgentExits, StrayEnds
  <2>4. ASSUME NEW e \in Calls, AgentReadsRequest(d, e) PROVE Writers' /\ \A c \in Calls : TreeInv(c)'
    BY <2>4 DEF AgentReadsRequest
  <2> QED
    BY <1>2, <2>1, <2>2, <2>3, <2>4 DEF Outside
<1>3. ASSUME NEW f \in Files, Edit(f) PROVE Writers' /\ \A c \in Calls : TreeInv(c)'
  BY <1>3 DEF Edit
<1>4. CASE UNCHANGED vars
  BY <1>4 DEF vars
<1> QED
  BY <1>1, <1>2, <1>3, <1>4 DEF Next

-----------------------------------------------------------------------------
\* The server's inductive invariant: types, prompts and tree.
THEOREM ServerInvariant == Spec => []ServerInv
<1>1. Init => ServerInv
  <2> SUFFICES ASSUME Init PROVE ServerInv
    OBVIOUS
  <2>1. TypeOK /\ Writers
    <3>1. request \in [Calls -> RequestType]
      BY PartnerAssumption DEF Init
    <3>2. [kind |-> "file", big |-> FALSE, utf8 |-> TRUE] \in Contents
      BY DEF Contents
    <3>3. file \in [Files -> Contents]
      BY <3>2 DEF Init
    <3>4. <<>> \in Seq(PartType) /\ <<>> \in Seq(Seq(PartType))
      OBVIOUS
    <3> QED
      BY <3>1, <3>3, <3>4 DEF Init, TypeOK, Writers
  <2>2. \A c \in Calls : Len(request[c].files) \in Nat
    BY <2>1, LenProperties DEF TypeOK, RequestType
  <2>3. \A c \in Calls : Len(parts[c]) = 0 /\ Len(posted[c]) = 0
    BY DEF Init
  <2>4. \A c \in Calls : PromptInv(c)
    BY <2>2, <2>3 DEF Init, PromptInv, Begins
  <2>5. \A c \in Calls : TreeInv(c)
    BY DEF Init, TreeInv
  <2> QED
    BY <2>1, <2>4, <2>5 DEF ServerInv
<1>2. ServerInv /\ [Next]_vars => ServerInv'
  BY TypeStep, PromptStep, TreeStep DEF ServerInv
<1> QED
  BY <1>1, <1>2, PTL DEF Spec

\* Every variable of the server keeps its type.
THEOREM ServerTypes == Spec => []TypeOK
BY ServerInvariant, PTL DEF ServerInv

\* Whatever changes on disk while files are checked and read, a prompt that was
\* posted holds the request's files in order, each let through by the guard.
THEOREM OnlyCleanPrompts == Spec => []PromptsAreClean
<1>1. ServerInv => PromptsAreClean
  <2> SUFFICES ASSUME ServerInv, NEW c \in Calls, NEW p \in Range(posted[c])
               PROVE  /\ [k \in DOMAIN p |-> p[k].file] = request[c].files
                      /\ \A q \in Range(p) : Clean(c, q)
    BY DEF PromptsAreClean, Clean
  <2>1. posted[c] \in Seq(Seq(PartType)) /\ request[c].files \in Seq(Files)
    BY DEF ServerInv, TypeOK, RequestType
  <2>2. PICK n \in 1 .. Len(posted[c]) : p = posted[c][n]
    BY <2>1, LenProperties DEF Range
  <2>3. p \in Seq(PartType) /\ Begins(c, p) /\ Len(p) = Len(request[c].files)
    BY <2>1, <2>2, ElementOfSeq DEF ServerInv, PromptInv
  <2>4. DOMAIN p = 1 .. Len(p) /\ DOMAIN request[c].files = 1 .. Len(p)
    BY <2>1, <2>3, LenProperties
  <2>5. request[c].files = [k \in 1 .. Len(p) |-> request[c].files[k]]
    BY <2>1, <2>4
  <2>6. [k \in DOMAIN p |-> p[k].file] = [k \in 1 .. Len(p) |-> request[c].files[k]]
    BY <2>3, <2>4 DEF Begins
  <2>7. \A q \in Range(p) : Clean(c, q)
    BY <2>3, <2>4 DEF Range, Begins
  <2> QED
    BY <2>5, <2>6, <2>7
<1> QED
  BY <1>1, ServerInvariant, PTL

\* Only agents that may write change the tree, and only the commands a killed agent
\* left behind change it after the answer.
THEOREM OnlyAskedChanges == Spec => []TreeChangesAsAsked
<1>1. ServerInv => TreeChangesAsAsked
  BY DEF ServerInv, TypeOK, Writers, TreeInv, TreeChangesAsAsked
<1> QED
  BY <1>1, ServerInvariant, PTL
=============================================================================
