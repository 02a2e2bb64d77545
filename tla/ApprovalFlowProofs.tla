-------------------------- MODULE ApprovalFlowProofs --------------------------
(***************************************************************************)
(* What holds of the approval flow for every number of calls, every set of *)
(* targets and every sequence of manifests: its types, that no call runs   *)
(* beyond the user's consent, that a violation is asked about once, and    *)
(* that "never" is final.                                                  *)
(***************************************************************************)
EXTENDS ApprovalFlow, TLAPS

-----------------------------------------------------------------------------
(* Types.                                                                  *)

\* Every approval is one of the three kinds of file.
LEMMA FileFacts ==
  /\ Absent \in File /\ Torn \in File
  /\ \A v \in Versions \cup {0} : \A g \in SUBSET Permissions : Written(v, g) \in File
  /\ \A f \in File : f.version \in Versions \cup {0} /\ f.grants \in SUBSET Permissions
<1>1. Absent \in File /\ Torn \in File
  BY DEF File
<1>2. \A v \in Versions \cup {0} : \A g \in SUBSET Permissions : Written(v, g) \in File
  BY DEF File
<1>3. ASSUME NEW f \in File
      PROVE  f.version \in Versions \cup {0} /\ f.grants \in SUBSET Permissions
  <2>1. CASE f \in {Absent, Torn}
    BY <2>1 DEF Absent, Torn
  <2>2. CASE \E v \in Versions \cup {0}, g \in SUBSET Permissions : f = Written(v, g)
    BY <2>2 DEF Written
  <2> QED
    BY <2>1, <2>2 DEF File
<1> QED
  BY <1>1, <1>2, <1>3

\* What is left of a callback or command, and that nothing may be left.
LEMMA TaskFacts ==
  ASSUME NEW ops
  PROVE  /\ Idle \in Task(ops)
         /\ \A op \in ops \cup {"none"} : \A content \in File : \A grant \in SUBSET Permissions :
              [op |-> op, content |-> content, grant |-> grant] \in Task(ops)
         /\ \A task \in Task(ops) :
              task.op \in ops \cup {"none"} /\ task.content \in File
                /\ task.grant \in SUBSET Permissions
BY FileFacts DEF Task, Idle

\* A manifest declares permissions, a removed skill none.
LEMMA CapabilityFacts ==
  \A v \in Versions \cup {0} : Capabilities(v) \in SUBSET Permissions
BY FlowAssumption DEF Capabilities

\* An update of an approval adds what the user agreed to and nothing else.
LEMMA ExtendedFacts ==
  ASSUME NEW grants \in SUBSET Permissions, NEW more \in SUBSET Permissions
  PROVE  /\ Extended(grants, more) \subseteq grants \cup more
         /\ Extended(grants, more) \in SUBSET Permissions
BY DEF Extended

\* What the second half of a write leaves in the file.
LEMMA FilledFacts ==
  ASSUME file \in File, NEW content \in File
  PROVE  Filled(content) \subseteq {Absent, Torn, content}
<1>1. file.state \in {"absent", "torn", "written"}
  <2>1. CASE file \in {Absent, Torn}
    BY <2>1 DEF Absent, Torn
  <2>2. CASE \E v \in Versions \cup {0}, g \in SUBSET Permissions : file = Written(v, g)
    BY <2>2 DEF Written
  <2> QED
    BY <2>1, <2>2 DEF File
<1> QED
  BY <1>1 DEF Filled

\* Nothing is installed at first but some version, and no file exists.
LEMMA TypeInit == Init => TypeOK
<1> SUFFICES ASSUME Init PROVE TypeOK
  OBVIOUS
<1>1. prompt \in [Calls -> Task({"first", "violation"})]
  BY TaskFacts DEF Init
<1>2. /\ job \in Task({"update", "truncate", "fill", "deny", "fillDeny"})
      /\ cli \in Task({"ask", "truncate", "fill", "remove"})
  BY TaskFacts DEF Init
<1> QED
  BY <1>1, <1>2, FileFacts DEF Init, TypeOK, Stages


\* The types survive the gate.
LEMMA TypeGate ==
  ASSUME TypeOK, NEW c \in Calls, GateViolation(c) \/ GatePasses(c) \/ GateAsks(c)
  PROVE  TypeOK'
<1> USE DEF TypeOK
<1>1. CASE GateViolation(c)
  <2>1. PICK w \in violations :
          /\ violations' = violations \ {w}
          /\ asked' = asked \cup {w.call}
          /\ IF ~denyTorn /\ w.target \in denied
               THEN /\ stage' = [stage EXCEPT ![c] = "blocked"]
                    /\ UNCHANGED prompt
               ELSE /\ stage' = [stage EXCEPT ![c] = "prompted"]
                    /\ prompt' = [prompt EXCEPT ![c] =
                         [op |-> "violation", content |-> Absent, grant |-> {w.target}]]
    BY <1>1 DEF GateViolation
  <2>2. w.call \in Calls /\ w.target \in Targets
    BY <2>1
  <2>3. [op |-> "violation", content |-> Absent, grant |-> {w.target}] \in Task({"first", "violation"})
    BY <2>2, TaskFacts, FileFacts DEF Permissions
  <2>4. stage' \in [Calls -> Stages] /\ prompt' \in [Calls -> Task({"first", "violation"})]
    BY <2>1, <2>3 DEF Stages
  <2> QED
    BY <1>1, <2>1, <2>2, <2>4 DEF GateViolation, denyList
<1>2. CASE GatePasses(c)
  BY <1>2 DEF GatePasses, denyList, history, Stages
<1>3. CASE GateAsks(c)
  <2>1. Written(installed, Capabilities(installed)) \in File
    BY FileFacts, CapabilityFacts
  <2>2. [op |-> "first", content |-> Written(installed, Capabilities(installed)), grant |-> {}]
          \in Task({"first", "violation"})
    BY <2>1, TaskFacts
  <2>3. prompt' \in [Calls -> Task({"first", "violation"})] /\ stage' \in [Calls -> Stages]
    BY <1>3, <2>2 DEF GateAsks, Stages
  <2> QED
    BY <1>3, <2>3 DEF GateAsks, denyList, history
<1> QED
  BY <1>1, <1>2, <1>3

\* The types survive an answer to a prompt.
LEMMA TypeAnswered ==
  ASSUME TypeOK, NEW c \in Calls,
         AllowFirst(c) \/ AllowViolation(c) \/ Never(c) \/ Deny(c)
  PROVE  TypeOK'
<1> USE DEF TypeOK
<1>1. ASSUME NEW kind, NEW outcome \in Stages, Closes(c, kind, outcome)
      PROVE  /\ prompt' \in [Calls -> Task({"first", "violation"})]
             /\ stage' \in [Calls -> Stages]
             /\ UNCHANGED << installed, file, denied, denyTorn, cache,
                             violations, policy, cli, asked >>
  BY <1>1, TaskFacts DEF Closes, denyList
<1>2. /\ prompt[c].content \in File
      /\ prompt[c].grant \in SUBSET Permissions
      /\ prompt[c].content.grants \in SUBSET Permissions
  BY TaskFacts, FileFacts
<1>3. CASE AllowFirst(c)
  <2>1. Closes(c, "first", "passed") /\ "passed" \in Stages
    BY <1>3 DEF AllowFirst, Stages
  <2>2. job' \in Task({"update", "truncate", "fill", "deny", "fillDeny"})
    BY <1>3, <1>2, TaskFacts DEF AllowFirst
  <2>3. consented' \subseteq Permissions /\ never' = never
    BY <1>3, <1>2 DEF AllowFirst
  <2>4. /\ prompt' \in [Calls -> Task({"first", "violation"})]
        /\ stage' \in [Calls -> Stages]
        /\ UNCHANGED << installed, file, denied, denyTorn, cache,
                        violations, policy, cli, asked >>
    BY <1>1, <2>1
  <2> QED
    BY <2>2, <2>3, <2>4
<1>4. CASE AllowViolation(c)
  <2>1. Closes(c, "violation", "passed") /\ "passed" \in Stages
    BY <1>4 DEF AllowViolation, Stages
  <2>2. PICK grant \in {prompt[c].grant}
                    \cup (IF prompt[c].grant \subseteq NetTargets THEN {{AnyNet}} ELSE {}) :
          /\ job' = [op |-> "update", content |-> Absent, grant |-> grant]
          /\ consented' = consented \cup grant
    BY <1>4 DEF AllowViolation
  <2>3. grant \in SUBSET Permissions
    BY <2>2, <1>2 DEF Permissions
  <2>4. job' \in Task({"update", "truncate", "fill", "deny", "fillDeny"})
    BY <2>2, <2>3, TaskFacts, FileFacts
  <2>5. consented' \subseteq Permissions /\ never' = never
    BY <1>4, <2>2, <2>3 DEF AllowViolation
  <2>6. /\ prompt' \in [Calls -> Task({"first", "violation"})]
        /\ stage' \in [Calls -> Stages]
        /\ UNCHANGED << installed, file, denied, denyTorn, cache,
                        violations, policy, cli, asked >>
    BY <1>1, <2>1
  <2> QED
    BY <2>4, <2>5, <2>6
<1>5. CASE Never(c)
  <2>1. Closes(c, "violation", "blocked") /\ "blocked" \in Stages
    BY <1>5 DEF Never, Stages
  <2>2. job' \in Task({"update", "truncate", "fill", "deny", "fillDeny"})
    BY <1>5, <1>2, TaskFacts, FileFacts DEF Never
  <2>3. /\ prompt' \in [Calls -> Task({"first", "violation"})]
        /\ stage' \in [Calls -> Stages]
        /\ UNCHANGED << installed, file, denied, denyTorn, cache,
                        violations, policy, cli, asked >>
    BY <1>1, <2>1
  <2> QED
    BY <1>5, <2>2, <2>3 DEF Never
<1>6. CASE Deny(c)
  <2>1. PICK kind \in {"first", "violation"} : Closes(c, kind, "blocked")
    BY <1>6 DEF Deny
  <2>2. /\ prompt' \in [Calls -> Task({"first", "violation"})]
        /\ stage' \in [Calls -> Stages]
        /\ UNCHANGED << installed, file, denied, denyTorn, cache,
                        violations, policy, cli, asked >>
    BY <1>1, <2>1 DEF Stages
  <2> QED
    BY <1>6, <2>2 DEF Deny
<1> QED
  BY <1>3, <1>4, <1>5, <1>6

\* What a prompt about a violation offers to exclude, and what the deny list is
\* about to get, are targets: the unscoped permission never gets there.
DenialsNameTargets ==
  /\ \A c \in Calls : prompt[c].op = "violation" => prompt[c].grant \subseteq Targets
  /\ job.op \in {"deny", "fillDeny"} => job.grant \subseteq Targets

\* The types survive the writes of the plugin.
LEMMA TypeWrites ==
  ASSUME TypeOK, DenialsNameTargets,
         ReadForUpdate \/ Truncate \/ Fill \/ TruncateDenyList \/ FillDenyList
  PROVE  TypeOK'
<1> USE DEF TypeOK
<1>1. /\ job.content \in File /\ cli.content \in File
      /\ job.grant \in SUBSET Permissions /\ cli.grant \in SUBSET Permissions
      /\ file.version \in Versions \cup {0} /\ file.grants \in SUBSET Permissions
      /\ job = [op |-> job.op, content |-> job.content, grant |-> job.grant]
      /\ cli = [op |-> cli.op, content |-> cli.content, grant |-> cli.grant]
  BY FileFacts DEF Task
<1>2. CASE ReadForUpdate
  <2>1. Extended(file.grants, job.grant) \in SUBSET Permissions
    BY <1>1, ExtendedFacts
  <2>2. Written(file.version, Extended(file.grants, job.grant)) \in File
    BY <1>1, <2>1, FileFacts
  <2>3. job' \in Task({"update", "truncate", "fill", "deny", "fillDeny"})
    <3>1. CASE file.state = "written"
      <4>1. job' = [op |-> "truncate",
                    content |-> Written(file.version, Extended(file.grants, job.grant)),
                    grant |-> job.grant]
        BY <1>1, <1>2, <3>1 DEF ReadForUpdate
      <4> QED
        BY <1>1, <2>2, <4>1, TaskFacts
    <3>2. CASE file.state # "written"
      BY <1>2, <3>2, TaskFacts DEF ReadForUpdate
    <3> QED
      BY <3>1, <3>2
  <2> QED
    BY <1>2, <2>3 DEF ReadForUpdate, denyList, calls, history
<1>3. CASE Truncate
  <2>1. file' \in File
    BY <1>3, FileFacts DEF Truncate
  <2>2. CASE job.op = "truncate" /\ job' = [job EXCEPT !.op = "fill"] /\ UNCHANGED cli
    <3>1. job' \in Task({"update", "truncate", "fill", "deny", "fillDeny"})
      BY <2>2 DEF Task
    <3> QED
      BY <1>3, <2>1, <2>2, <3>1 DEF Truncate, denyList, calls, history
  <2>3. CASE cli.op = "truncate" /\ cli' = [cli EXCEPT !.op = "fill"] /\ UNCHANGED job
    <3>1. cli' \in Task({"ask", "truncate", "fill", "remove"})
      BY <2>3 DEF Task
    <3> QED
      BY <1>3, <2>1, <2>3, <3>1 DEF Truncate, denyList, calls, history
  <2> QED
    BY <1>3, <2>2, <2>3 DEF Truncate
<1>4. CASE Fill
  <2>1. file' \in File
    BY <1>1, <1>4, FilledFacts, FileFacts DEF Fill
  <2> QED
    BY <1>4, <2>1, TaskFacts DEF Fill, denyList, calls, history
<1>5. CASE TruncateDenyList
  <2>1. job.grant \subseteq Targets
    BY <1>5 DEF TruncateDenyList, DenialsNameTargets
  <2>2. job' \in Task({"update", "truncate", "fill", "deny", "fillDeny"})
    BY <1>5 DEF TruncateDenyList, Task
  <2>3. denied' \subseteq Targets /\ denyTorn' \in BOOLEAN
    BY <1>5, <2>1 DEF TruncateDenyList
  <2> QED
    BY <1>5, <2>2, <2>3 DEF TruncateDenyList, calls, history
<1>6. CASE FillDenyList
  <2>1. job.grant \subseteq Targets
    BY <1>6 DEF FillDenyList, DenialsNameTargets
  <2> QED
    BY <1>6, <2>1, TaskFacts DEF FillDenyList, calls
<1> QED
  BY <1>2, <1>3, <1>4, <1>5, <1>6

\* The types survive a call of the supervisor, its answer, and the ends of
\* the processes.
LEMMA TypeRuns ==
  ASSUME TypeOK,
         (\E c \in Calls : Run(c) \/ Answer(c)) \/ SupervisorRestarts \/ GatewayDies
  PROVE  TypeOK'
<1> USE DEF TypeOK
<1>1. ASSUME NEW c \in Calls, Run(c)
      PROVE  TypeOK'
  <2> DEFINE approval == IF file.state = "written" THEN file ELSE cache
  <2>1. approval \in File
    OBVIOUS
  <2>2. Sandbox(approval.grants) \in SUBSET Permissions
    BY <2>1, FileFacts DEF Sandbox
  <2>3. /\ cache' = approval
        /\ \/ /\ stage' = [stage EXCEPT ![c] = "blocked"]
              /\ UNCHANGED policy
           \/ /\ stage' = [stage EXCEPT ![c] = "running"]
              /\ policy' = [policy EXCEPT ![c] = Sandbox(approval.grants)]
    BY <1>1 DEF Run
  <2> HIDE DEF approval
  <2>4. /\ cache' \in File
        /\ stage' \in [Calls -> Stages]
        /\ policy' \in [Calls -> SUBSET Permissions]
    BY <2>1, <2>2, <2>3 DEF Stages
  <2> QED
    BY <1>1, <2>4 DEF Run, denyList, history
<1>2. ASSUME NEW c \in Calls, Answer(c)
      PROVE  TypeOK'
  <2>1. stage' \in [Calls -> Stages]
    BY <1>2 DEF Answer, Stages
  <2>2. violations' \subseteq [call : Calls, target : Targets]
    BY <1>2 DEF Answer
  <2>3. policy' \in [Calls -> SUBSET Permissions]
    BY <1>2 DEF Answer, Forget
  <2> QED
    BY <1>2, <2>1, <2>2, <2>3 DEF Answer, denyList, history
<1>3. CASE SupervisorRestarts
  BY <1>3, FileFacts DEF SupervisorRestarts, denyList, calls, history
<1>4. CASE GatewayDies
  <2>1. stage' \in [Calls -> Stages]
    BY <1>4 DEF GatewayDies, Stages
  <2>2. prompt' \in [Calls -> Task({"first", "violation"})]
    BY <1>4, TaskFacts DEF GatewayDies
  <2>3. policy' \in [Calls -> SUBSET Permissions]
    BY <1>4 DEF GatewayDies, Forget
  <2> QED
    BY <1>4, <2>1, <2>2, <2>3, TaskFacts DEF GatewayDies, denyList
<1> QED
  BY <1>1, <1>2, <1>3, <1>4

\* The types survive the command line.
LEMMA TypeCli ==
  ASSUME TypeOK, CliNext
  PROVE  TypeOK'
<1> USE DEF TypeOK
<1>1. cli.content \in File /\ cli.content.version \in Versions \cup {0}
        /\ cli.content.grants \in SUBSET Permissions
  BY TaskFacts, FileFacts
<1>2. CASE CliAsks
  <2>1. Written(installed, Capabilities(installed)) \in File
    BY FileFacts, CapabilityFacts
  <2>2. cli' \in Task({"ask", "truncate", "fill", "remove"})
    BY <1>2, <2>1, TaskFacts DEF CliAsks
  <2> QED
    BY <1>2, <2>2 DEF CliAsks, denyList, calls, history
<1>3. CASE CliApproves
  <2>1. PICK grants \in SUBSET cli.content.grants :
          /\ cli' = [op |-> "truncate", content |-> Written(cli.content.version, grants),
                     grant |-> {}]
          /\ consented' = consented \cup grants
    BY <1>3 DEF CliApproves
  <2>2. grants \in SUBSET Permissions
    BY <1>1, <2>1
  <2>3. Written(cli.content.version, grants) \in File
    BY <1>1, <2>2, FileFacts
  <2>4. cli' \in Task({"ask", "truncate", "fill", "remove"})
    BY <2>1, <2>3, TaskFacts
  <2> QED
    BY <1>3, <2>1, <2>2, <2>4 DEF CliApproves, denyList, calls
<1>4. CASE CliDeclines
  BY <1>4, TaskFacts DEF CliDeclines, denyList, calls, history
<1>5. CASE CliFills
  <2>1. file' \in File
    BY <1>1, <1>5, FilledFacts, FileFacts DEF CliFills
  <2> QED
    BY <1>5, <2>1, TaskFacts DEF CliFills, denyList, calls, history
<1>6. CASE CliRemoves
  <2>1. cli' = [op |-> "remove", content |-> Absent, grant |-> {}]
    BY <1>6 DEF CliRemoves, Idle
  <2>2. cli' \in Task({"ask", "truncate", "fill", "remove"})
    BY <2>1, FileFacts, TaskFacts
  <2> QED
    BY <1>6, <2>2 DEF CliRemoves, denyList, calls, history
<1>7. CASE CliRemovesApproval
  BY <1>7, TaskFacts, FileFacts DEF CliRemovesApproval, denyList, calls, history
<1>8. CASE Installs
  BY <1>8 DEF Installs, denyList, calls, history
<1> QED
  BY <1>2, <1>3, <1>4, <1>5, <1>6, <1>7, <1>8 DEF CliNext

\* A deny list only ever gets targets.
LEMMA DenialStep ==
  ASSUME TypeOK, DenialsNameTargets, [Next]_vars
  PROVE  DenialsNameTargets'
<1> USE DEF DenialsNameTargets
<1> DEFINE Prompts == \A c \in Calls :
                        prompt'[c].op = "violation" => prompt'[c].grant \subseteq Targets
           Job == job'.op \in {"deny", "fillDeny"} => job'.grant \subseteq Targets
<1>1. Idle.op = "none"
  BY DEF Idle
<1>2. ASSUME NEW c \in Calls, GateViolation(c) PROVE DenialsNameTargets'
  <2>1. \A w \in violations : w.target \in Targets
    BY DEF TypeOK
  <2> QED
    BY <1>2, <2>1 DEF GateViolation, TypeOK
<1>3. ASSUME NEW c \in Calls, GateAsks(c) PROVE DenialsNameTargets'
  BY <1>3 DEF GateAsks, TypeOK
<1>4. ASSUME NEW c \in Calls, NEW kind, NEW outcome, Closes(c, kind, outcome) PROVE Prompts
  BY <1>1, <1>4 DEF Closes, TypeOK
<1>5. ASSUME NEW c \in Calls, AllowFirst(c) \/ AllowViolation(c) \/ Never(c) \/ Deny(c)
      PROVE  DenialsNameTargets'
  <2>1. Prompts
    BY <1>4, <1>5 DEF AllowFirst, AllowViolation, Never, Deny
  <2>2. Job
    <3>1. CASE AllowFirst(c)
      BY <3>1 DEF AllowFirst
    <3>2. CASE AllowViolation(c)
      BY <3>2 DEF AllowViolation
    <3>3. CASE Never(c)
      BY <3>3 DEF Never, Closes
    <3>4. CASE Deny(c)
      BY <3>4 DEF Deny
    <3> QED
      BY <1>5, <3>1, <3>2, <3>3, <3>4
  <2> QED
    BY <2>1, <2>2
<1>6. ASSUME NEW c \in Calls, GatePasses(c) \/ Run(c) \/ Answer(c) PROVE DenialsNameTargets'
  BY <1>6 DEF GatePasses, Run, Answer
<1>7. CASE ReadForUpdate \/ Truncate \/ Fill \/ TruncateDenyList \/ FillDenyList
  <2>1. UNCHANGED prompt
    BY <1>7 DEF ReadForUpdate, Truncate, Fill, TruncateDenyList, FillDenyList, calls
  <2>2. Job
    <3>1. CASE ReadForUpdate
      BY <1>1, <3>1 DEF ReadForUpdate, TypeOK, Task
    <3>2. CASE Truncate
      BY <3>2 DEF Truncate, TypeOK, Task
    <3>3. CASE Fill \/ FillDenyList
      BY <1>1, <3>3 DEF Fill, FillDenyList
    <3>4. CASE TruncateDenyList
      BY <3>4 DEF TruncateDenyList, TypeOK, Task
    <3> QED
      BY <1>7, <3>1, <3>2, <3>3, <3>4
  <2> QED
    BY <2>1, <2>2
<1>8. CASE GatewayDies
  BY <1>1, <1>8 DEF GatewayDies
<1>9. CASE SupervisorRestarts \/ CliNext
  BY <1>9 DEF SupervisorRestarts, CliNext, CliAsks, CliApproves, CliDeclines, CliFills,
              CliRemoves, CliRemovesApproval, Installs, calls
<1>10. CASE UNCHANGED vars
  BY <1>10 DEF vars
<1> QED
  BY <1>2, <1>3, <1>5, <1>6, <1>7, <1>8, <1>9, <1>10
  DEF Next, PluginNext, SupervisorNext

\* Every step keeps the types.
LEMMA TypeStep ==
  ASSUME TypeOK, DenialsNameTargets, [Next]_vars
  PROVE  TypeOK'
<1>1. CASE UNCHANGED vars
  BY <1>1 DEF vars, TypeOK
<1>2. CASE PluginNext
  BY <1>2, TypeGate, TypeAnswered, TypeWrites, TypeRuns DEF PluginNext
<1>3. CASE SupervisorNext
  BY <1>3, TypeRuns DEF SupervisorNext
<1>4. CASE CliNext
  BY <1>4, TypeCli
<1>5. CASE Truncate
  BY <1>5, TypeWrites
<1> QED
  BY <1>1, <1>2, <1>3, <1>4, <1>5 DEF Next

TypeInv == TypeOK /\ DenialsNameTargets

\* The approval flow keeps its types, and the deny list only targets.
THEOREM TypeInvCorrect == Spec => []TypeInv
<1>1. Init => TypeInv
  <2>1. Init => DenialsNameTargets
    BY DEF Init, DenialsNameTargets, Idle
  <2> QED
    BY <2>1, TypeInit DEF TypeInv
<1>2. TypeInv /\ [Next]_vars => TypeInv'
  BY TypeStep, DenialStep DEF TypeInv
<1> QED
  BY <1>1, <1>2, PTL DEF Spec

\* Files, prompts, jobs and policies stay what they should be, for every
\* number of calls and every sequence of manifests.
THEOREM TypeCorrect == Spec => []TypeOK
<1>1. TypeInv => TypeOK
  BY DEF TypeInv
<1> QED
  BY <1>1, TypeInvCorrect, PTL

-----------------------------------------------------------------------------
(* Consent.                                                                *)

\* Whatever is granted anywhere - in the file, in the cache, in a write that
\* is under way, in a running sandbox - is something the user agreed to.
ConsentInv ==
  /\ file.grants \subseteq consented
  /\ cache.grants \subseteq consented
  /\ job.op = "update" => job.grant \subseteq consented
  /\ job.op \in {"truncate", "fill"} => job.content.grants \subseteq consented
  /\ cli.op \in {"truncate", "fill"} => cli.content.grants \subseteq consented
  /\ RunsWithinConsent

\* A file that holds no approval grants nothing.
LEMMA NoGrants == /\ Absent.grants = {} /\ Torn.grants = {} /\ Idle.op = "none"
                  /\ \A v, g : Written(v, g).grants = g
BY DEF Absent, Torn, Idle, Written

\* What was agreed to stays agreed to.
LEMMA ConsentGrows == ASSUME [Next]_vars PROVE consented \subseteq consented'
<1>1. CASE UNCHANGED vars
  BY <1>1 DEF vars
<1>2. ASSUME NEW c \in Calls,
             GateViolation(c) \/ GatePasses(c) \/ GateAsks(c) \/ Run(c) \/ Answer(c)
      PROVE  UNCHANGED consented
  BY <1>2 DEF GateViolation, GatePasses, GateAsks, Run, Answer, history
<1>3. ASSUME NEW c \in Calls, AllowFirst(c) \/ AllowViolation(c) \/ Never(c) \/ Deny(c)
      PROVE  consented \subseteq consented'
  BY <1>3 DEF AllowFirst, AllowViolation, Never, Deny
<1>4. CASE \/ ReadForUpdate \/ Truncate \/ Fill \/ TruncateDenyList \/ FillDenyList
           \/ GatewayDies \/ SupervisorRestarts
  BY <1>4 DEF ReadForUpdate, Truncate, Fill, TruncateDenyList, FillDenyList, GatewayDies,
              SupervisorRestarts, history
<1>5. CASE CliNext
  BY <1>5 DEF CliNext, CliAsks, CliApproves, CliDeclines, CliFills, CliRemoves,
              CliRemovesApproval, Installs, history
<1> QED
  BY <1>1, <1>2, <1>3, <1>4, <1>5 DEF Next, PluginNext, SupervisorNext

\* A step that starts no call, widens no sandbox, writes no file and leaves the
\* jobs alone keeps to the consent.
LEMMA ConsentFrame ==
  ASSUME ConsentInv, consented \subseteq consented',
         UNCHANGED << file, cache, job, cli >>,
         \A c \in Calls : policy'[c] \subseteq policy[c],
         \A c \in Calls : stage'[c] = "running" => stage[c] = "running"
  PROVE  ConsentInv'
BY DEF ConsentInv, RunsWithinConsent

\* The consent covers what an answer to a prompt starts to write.
LEMMA ConsentAnswered ==
  ASSUME TypeOK, ConsentInv, NEW c \in Calls, [Next]_vars,
         AllowFirst(c) \/ AllowViolation(c) \/ Never(c) \/ Deny(c)
  PROVE  ConsentInv'
<1>1. consented \subseteq consented'
  BY ConsentGrows
<1>2. ASSUME NEW kind, NEW outcome \in {"passed", "blocked"}, Closes(c, kind, outcome)
      PROVE  /\ UNCHANGED << file, cache, cli, policy >>
             /\ RunsWithinConsent'
  <2>1. UNCHANGED << file, cache, cli, policy >>
    BY <1>2 DEF Closes
  <2>2. \A d \in Calls : stage'[d] = "running" => stage[d] = "running"
    BY <1>2 DEF Closes, TypeOK
  <2> QED
    BY <1>1, <2>1, <2>2 DEF ConsentInv, RunsWithinConsent
<1>3. CASE AllowFirst(c)
  <2>1. /\ job'.op = "truncate"
        /\ job'.content.grants \subseteq consented'
        /\ Closes(c, "first", "passed")
    BY <1>3 DEF AllowFirst
  <2> QED
    BY <1>1, <1>2, <2>1 DEF ConsentInv
<1>4. CASE AllowViolation(c)
  <2>1. /\ job'.op = "update"
        /\ job'.grant \subseteq consented'
        /\ Closes(c, "violation", "passed")
    BY <1>4 DEF AllowViolation
  <2> QED
    BY <1>1, <1>2, <2>1 DEF ConsentInv
<1>5. CASE Never(c)
  <2>1. job'.op = "deny" /\ Closes(c, "violation", "blocked")
    BY <1>5 DEF Never
  <2> QED
    BY <1>1, <1>2, <2>1 DEF ConsentInv
<1>6. CASE Deny(c)
  <2>1. UNCHANGED job /\ \E kind : Closes(c, kind, "blocked")
    BY <1>6 DEF Deny
  <2> QED
    BY <1>1, <1>2, <2>1 DEF ConsentInv
<1> QED
  BY <1>3, <1>4, <1>5, <1>6

\* The consent covers what the plugin reads, extends and writes.
LEMMA ConsentWrites ==
  ASSUME TypeOK, ConsentInv, [Next]_vars,
         ReadForUpdate \/ Truncate \/ Fill \/ TruncateDenyList \/ FillDenyList
  PROVE  ConsentInv'
<1>1. consented \subseteq consented'
  BY ConsentGrows
<1>2. /\ job.content \in File /\ job.grant \in SUBSET Permissions
      /\ file.grants \in SUBSET Permissions
  BY TaskFacts, FileFacts DEF TypeOK
<1>3. CASE ReadForUpdate
  <2>1. UNCHANGED << file, cache, cli, policy, stage >>
    BY <1>3 DEF ReadForUpdate, calls
  <2>2. job.grant \subseteq consented /\ file.grants \subseteq consented
    BY <1>3 DEF ReadForUpdate, ConsentInv
  <2>3. Extended(file.grants, job.grant) \subseteq consented
    BY <1>2, <2>2, ExtendedFacts
  <2>4. \/ job' = Idle
        \/ /\ job'.op = "truncate"
           /\ job'.content = Written(file.version, Extended(file.grants, job.grant))
    BY <1>3 DEF ReadForUpdate, TypeOK, Task
  <2> QED
    BY <1>1, <2>1, <2>3, <2>4, NoGrants DEF ConsentInv, RunsWithinConsent
<1>4. CASE Truncate
  <2>1. file' = Torn /\ UNCHANGED << cache, policy, stage >>
    BY <1>4 DEF Truncate, calls
  <2>2. \/ job.op = "truncate" /\ job'.op = "fill" /\ job'.content = job.content
           /\ UNCHANGED cli
        \/ cli.op = "truncate" /\ cli'.op = "fill" /\ cli'.content = cli.content
           /\ UNCHANGED job
    BY <1>4 DEF Truncate, TypeOK, Task
  <2> QED
    BY <1>1, <2>1, <2>2, NoGrants DEF ConsentInv, RunsWithinConsent
<1>5. CASE Fill
  <2>1. file' \in {Absent, Torn, job.content}
    BY <1>2, <1>5, FilledFacts DEF Fill, TypeOK
  <2>2. job.content.grants \subseteq consented
    BY <1>5 DEF Fill, ConsentInv
  <2>3. job' = Idle /\ UNCHANGED << cache, cli, policy, stage >>
    BY <1>5 DEF Fill, calls
  <2> QED
    BY <1>1, <2>1, <2>2, <2>3, NoGrants DEF ConsentInv, RunsWithinConsent
<1>6. CASE TruncateDenyList \/ FillDenyList
  <2>1. UNCHANGED << file, cache, cli, policy, stage >> /\ job'.op \in {"fillDeny", "none"}
    BY <1>6, NoGrants DEF TruncateDenyList, FillDenyList, calls, TypeOK, Task
  <2> QED
    BY <1>1, <2>1 DEF ConsentInv, RunsWithinConsent
<1> QED
  BY <1>3, <1>4, <1>5, <1>6

\* The sandbox of a call opens no more than the approval it was built from.
LEMMA ConsentRun ==
  ASSUME TypeOK, ConsentInv, NEW c \in Calls, Run(c)
  PROVE  ConsentInv'
<1> DEFINE approval == IF file.state = "written" THEN file ELSE cache
<1>1. approval.grants \subseteq consented
  BY DEF ConsentInv
<1>2. Sandbox(approval.grants) \subseteq consented
  BY <1>1 DEF Sandbox
<1>3. /\ cache' = approval
      /\ UNCHANGED << file, job, cli, consented >>
      /\ \/ /\ stage' = [stage EXCEPT ![c] = "blocked"]
            /\ UNCHANGED policy
         \/ /\ stage' = [stage EXCEPT ![c] = "running"]
            /\ policy' = [policy EXCEPT ![c] = Sandbox(approval.grants)]
  BY DEF Run, history
<1> HIDE DEF approval
<1>4. RunsWithinConsent'
  BY <1>2, <1>3 DEF ConsentInv, RunsWithinConsent, TypeOK
<1> QED
  BY <1>1, <1>3, <1>4 DEF ConsentInv

\* The consent covers what the command line writes.
LEMMA ConsentCli ==
  ASSUME TypeOK, ConsentInv, [Next]_vars, CliNext
  PROVE  ConsentInv'
<1>1. consented \subseteq consented'
  BY ConsentGrows
<1>2. UNCHANGED << cache, job, policy, stage >>
  BY DEF CliNext, CliAsks, CliApproves, CliDeclines, CliFills, CliRemoves,
         CliRemovesApproval, Installs, calls
<1>3. file'.grants \subseteq consented'
  <2>1. CASE CliFills
    <3>1. file' \in {Absent, Torn, cli.content}
      BY <2>1, FilledFacts, TaskFacts DEF CliFills, TypeOK
    <3>2. cli.content.grants \subseteq consented
      BY <2>1 DEF CliFills, ConsentInv
    <3> QED
      BY <1>1, <3>1, <3>2, NoGrants
  <2>2. CASE CliRemovesApproval
    BY <2>2, NoGrants DEF CliRemovesApproval
  <2>3. CASE ~CliFills /\ ~CliRemovesApproval
    BY <1>1, <2>3 DEF CliNext, CliAsks, CliApproves, CliDeclines, CliRemoves, Installs,
                      ConsentInv
  <2> QED
    BY <2>1, <2>2, <2>3
<1>4. cli'.op \in {"truncate", "fill"} => cli'.content.grants \subseteq consented'
  <2>1. CASE CliApproves
    <3>1. PICK grants \in SUBSET cli.content.grants :
            /\ cli' = [op |-> "truncate", content |-> Written(cli.content.version, grants),
                       grant |-> {}]
            /\ consented' = consented \cup grants
      BY <2>1 DEF CliApproves
    <3> QED
      BY <3>1, NoGrants
  <2>2. CASE Installs
    BY <1>1, <2>2 DEF Installs, ConsentInv
  <2>3. CASE CliAsks \/ CliDeclines \/ CliFills \/ CliRemoves \/ CliRemovesApproval
    <3>1. cli'.op \in {"ask", "none", "remove"}
      BY <2>3 DEF CliAsks, CliDeclines, CliFills, CliRemoves, CliRemovesApproval, Idle
    <3> QED
      BY <3>1
  <2> QED
    BY <2>1, <2>2, <2>3 DEF CliNext
<1> QED
  BY <1>1, <1>2, <1>3, <1>4 DEF ConsentInv, RunsWithinConsent

\* Every step keeps to the consent.
LEMMA ConsentStep ==
  ASSUME TypeOK, ConsentInv, [Next]_vars
  PROVE  ConsentInv'
<1>1. consented \subseteq consented'
  BY ConsentGrows
<1>2. CASE UNCHANGED vars
  BY <1>2 DEF vars, ConsentInv, RunsWithinConsent
<1>3. ASSUME NEW c \in Calls, GateViolation(c) \/ GatePasses(c) \/ GateAsks(c) \/ Answer(c)
      PROVE  ConsentInv'
  <2>1. UNCHANGED << file, cache, job, cli >>
    BY <1>3 DEF GateViolation, GatePasses, GateAsks, Answer
  <2>2. \A d \in Calls : policy'[d] \subseteq policy[d]
    BY <1>3 DEF GateViolation, GatePasses, GateAsks, Answer, Forget
  <2>3. \E s \in {"blocked", "prompted", "passed", "done"} : stage' = [stage EXCEPT ![c] = s]
    BY <1>3 DEF GateViolation, GatePasses, GateAsks, Answer
  <2>4. \A d \in Calls : stage'[d] = "running" => stage[d] = "running"
    BY <2>3 DEF TypeOK
  <2> QED
    BY <1>1, <2>1, <2>2, <2>4, ConsentFrame
<1>4. CASE GatewayDies
  <2>1. \A d \in Calls : stage'[d] # "running"
    BY <1>4 DEF GatewayDies
  <2>2. UNCHANGED << file, cache, cli >> /\ job'.op = "none"
    BY <1>4, NoGrants DEF GatewayDies
  <2> QED
    BY <1>1, <2>1, <2>2 DEF ConsentInv, RunsWithinConsent
<1>5. CASE SupervisorRestarts
  <2>1. UNCHANGED << file, job, cli, policy, stage >> /\ cache' \in {file, Absent}
    BY <1>5 DEF SupervisorRestarts, calls
  <2> QED
    BY <1>1, <2>1, NoGrants DEF ConsentInv, RunsWithinConsent
<1> QED
  BY <1>2, <1>3, <1>4, <1>5, ConsentAnswered, ConsentWrites, ConsentRun, ConsentCli
  DEF Next, PluginNext, SupervisorNext

\* No call runs with a permission the user has not agreed to: the prompts, the
\* updates, the torn files, the cache and the command line never add one.
THEOREM ConsentCorrect == Spec => []RunsWithinConsent
<1>1. Init => ConsentInv
  BY NoGrants DEF Init, ConsentInv, RunsWithinConsent
<1>2. TypeOK /\ ConsentInv /\ [Next]_vars => ConsentInv'
  BY ConsentStep
<1>3. ConsentInv => RunsWithinConsent
  BY DEF ConsentInv
<1> QED
  BY <1>1, <1>2, <1>3, TypeCorrect, PTL DEF Spec

-----------------------------------------------------------------------------
(* One question for each violation.                                        *)

\* A violation stems from a call that is over, each call leaves one at most,
\* and one that was asked about is gone.
AskInv ==
  /\ \A w \in violations : stage[w.call] = "done"
  /\ \A v, w \in violations : v.call = w.call => v = w
  /\ \A c \in asked : stage[c] = "done"
  /\ AskedOnce

\* A call that is over stays over.
OverStaysOver == \A c \in Calls : stage[c] = "done" => stage'[c] = "done"

\* Steps that find and leave no violation keep the questions apart.
LEMMA AskFrame ==
  ASSUME TypeOK, AskInv, OverStaysOver, asked' = asked, violations' \subseteq violations
  PROVE  AskInv'
BY DEF AskInv, OverStaysOver, TypeOK, AskedOnce

\* Every step keeps the questions apart.
LEMMA AskStep ==
  ASSUME TypeOK, AskInv, [Next]_vars
  PROVE  AskInv'
<1>1. ASSUME NEW c \in Calls, GateViolation(c) PROVE AskInv'
  <2>1. PICK w \in violations :
          /\ violations' = violations \ {w}
          /\ asked' = asked \cup {w.call}
    BY <1>1 DEF GateViolation
  <2>2. OverStaysOver
    <3>1. stage[c] = "new"
      BY <1>1 DEF GateViolation, Enters
    <3>2. \E s \in Stages : stage' = [stage EXCEPT ![c] = s]
      BY <1>1 DEF GateViolation, Stages
    <3> QED
      BY <3>1, <3>2 DEF OverStaysOver, TypeOK
  <2>3. w.call \in Calls
    BY <2>1 DEF TypeOK
  <2>4. \A v \in violations' : v.call # w.call
    BY <2>1 DEF AskInv
  <2> QED
    BY <2>1, <2>2, <2>3, <2>4 DEF AskInv, OverStaysOver, TypeOK, AskedOnce
<1>2. ASSUME NEW c \in Calls, Answer(c) PROVE AskInv'
  <2>1. /\ stage[c] = "running"
        /\ stage' = [stage EXCEPT ![c] = "done"]
        /\ asked' = asked
    BY <1>2 DEF Answer, history
  <2>2. OverStaysOver
    BY <2>1 DEF OverStaysOver, TypeOK
  <2>3. CASE UNCHANGED violations
    BY <2>1, <2>2, <2>3, AskFrame
  <2>4. CASE \E t \in Targets : violations' = violations \cup {[call |-> c, target |-> t]}
    <3>1. PICK t \in Targets : violations' = violations \cup {[call |-> c, target |-> t]}
      BY <2>4
    <3>2. c \notin asked /\ \A w \in violations : w.call # c
      BY <2>1 DEF AskInv
    <3>3. stage'[c] = "done"
      BY <2>1 DEF TypeOK
    <3> QED
      BY <2>1, <2>2, <3>1, <3>2, <3>3 DEF AskInv, OverStaysOver, TypeOK, AskedOnce
  <2> QED
    BY <1>2, <2>3, <2>4 DEF Answer
<1>3. ASSUME NEW c \in Calls, GatePasses(c) \/ GateAsks(c) \/ Run(c) PROVE AskInv'
  <2>1. /\ stage[c] \in {"new", "passed"}
        /\ \E s \in Stages : stage' = [stage EXCEPT ![c] = s]
        /\ UNCHANGED << violations, asked >>
    BY <1>3 DEF GatePasses, GateAsks, Run, Enters, Stages, history
  <2>2. OverStaysOver
    BY <2>1 DEF OverStaysOver, TypeOK
  <2> QED
    BY <2>1, <2>2, AskFrame
<1>4. ASSUME NEW c \in Calls, AllowFirst(c) \/ AllowViolation(c) \/ Never(c) \/ Deny(c)
      PROVE  AskInv'
  <2>1. \E kind, outcome : Closes(c, kind, outcome)
    BY <1>4 DEF AllowFirst, AllowViolation, Never, Deny
  <2>2. /\ stage[c] = "prompted"
        /\ \E s : stage' = [stage EXCEPT ![c] = s]
        /\ UNCHANGED << violations, asked >>
    BY <2>1 DEF Closes
  <2>3. OverStaysOver
    BY <2>2 DEF OverStaysOver, TypeOK
  <2> QED
    BY <2>2, <2>3, AskFrame
<1>5. CASE GatewayDies
  <2>1. OverStaysOver
    BY <1>5 DEF GatewayDies, OverStaysOver
  <2> QED
    BY <1>5, <2>1, AskFrame DEF GatewayDies
<1>6. CASE \/ ReadForUpdate \/ Truncate \/ Fill \/ TruncateDenyList \/ FillDenyList
           \/ SupervisorRestarts \/ CliNext \/ UNCHANGED vars
  <2>1. UNCHANGED << violations, stage, asked >>
    BY <1>6 DEF ReadForUpdate, Truncate, Fill, TruncateDenyList, FillDenyList,
                SupervisorRestarts, CliNext, CliAsks, CliApproves, CliDeclines, CliFills,
                CliRemoves, CliRemovesApproval, Installs, vars, calls, history
  <2> QED
    BY <2>1, AskFrame DEF OverStaysOver
<1> QED
  BY <1>1, <1>2, <1>3, <1>4, <1>5, <1>6 DEF Next, PluginNext, SupervisorNext

\* A violation is put to the user at most once, whatever the number of calls.
THEOREM AskedOnceCorrect == Spec => []AskedOnce
<1>1. Init => AskInv
  BY DEF Init, AskInv, AskedOnce
<1>2. TypeOK /\ AskInv /\ [Next]_vars => AskInv'
  BY AskStep
<1>3. AskInv => AskedOnce
  BY DEF AskInv
<1> QED
  BY <1>1, <1>2, <1>3, TypeCorrect, PTL DEF Spec

-----------------------------------------------------------------------------
(* "never" is final.                                                       *)

\* What was written stays in the deny list; the list is torn only while the
\* plugin writes it or after a gateway died with it torn; and what is about to
\* be filled in is in the list that is written.
NeverInv ==
  /\ never \subseteq denied
  /\ denyTorn => job.op = "fillDeny" \/ never = {}
  /\ job.op = "fillDeny" => job.grant \subseteq denied

\* Only its own two writes and the end of the gateway disturb the deny list.
LEMMA NeverFrame ==
  ASSUME NeverInv, UNCHANGED << never, denied, denyTorn >>,
         \/ UNCHANGED job
         \/ job.op # "fillDeny" /\ job'.op # "fillDeny"
  PROVE  NeverInv'
BY DEF NeverInv

\* Every step keeps the deny list and what was written to it together.
LEMMA NeverStep ==
  ASSUME TypeOK, NeverInv, [Next]_vars
  PROVE  NeverInv'
<1>1. CASE TruncateDenyList
  <2>1. /\ job.op = "deny"
        /\ denyTorn' = TRUE
        /\ denied' = IF denyTorn THEN job.grant ELSE denied \cup job.grant
        /\ never' = never
        /\ job'.op = "fillDeny" /\ job'.grant = job.grant
    BY <1>1 DEF TruncateDenyList, history, TypeOK, Task
  <2>2. denyTorn => never = {}
    BY <2>1 DEF NeverInv
  <2> QED
    BY <2>1, <2>2 DEF NeverInv
<1>2. CASE FillDenyList
  BY <1>2 DEF FillDenyList, NeverInv, Idle
<1>3. CASE GatewayDies
  <2>1. /\ UNCHANGED << denied, denyTorn >>
        /\ job'.op = "none"
        /\ never' \subseteq never
        /\ denyTorn => never' = {}
    BY <1>3, NoGrants DEF GatewayDies, denyList
  <2> QED
    BY <2>1 DEF NeverInv
<1>4. ASSUME NEW c \in Calls,
             GateViolation(c) \/ GatePasses(c) \/ GateAsks(c) \/ Run(c) \/ Answer(c)
      PROVE  NeverInv'
  BY <1>4, NeverFrame DEF GateViolation, GatePasses, GateAsks, Run, Answer, denyList, history
<1>5. ASSUME NEW c \in Calls, AllowFirst(c) \/ AllowViolation(c) \/ Never(c) \/ Deny(c)
      PROVE  NeverInv'
  <2>1. UNCHANGED << never, denied, denyTorn >> /\ job.op = "none"
    BY <1>5 DEF AllowFirst, AllowViolation, Never, Deny, Closes, denyList
  <2>2. UNCHANGED job \/ job'.op \in {"truncate", "update", "deny"}
    BY <1>5 DEF AllowFirst, AllowViolation, Never, Deny
  <2> QED
    BY <2>1, <2>2, NeverFrame
<1>6. CASE ReadForUpdate \/ Truncate \/ Fill
  <2>1. UNCHANGED << never, denied, denyTorn >>
    BY <1>6 DEF ReadForUpdate, Truncate, Fill, denyList, history
  <2>2. \/ UNCHANGED job
        \/ job.op # "fillDeny" /\ job'.op # "fillDeny"
    BY <1>6, NoGrants DEF ReadForUpdate, Truncate, Fill, TypeOK, Task
  <2> QED
    BY <2>1, <2>2, NeverFrame
<1>7. CASE SupervisorRestarts \/ CliNext \/ UNCHANGED vars
  <2>1. UNCHANGED << never, denied, denyTorn, job >>
    BY <1>7 DEF SupervisorRestarts, CliNext, CliAsks, CliApproves, CliDeclines, CliFills,
                CliRemoves, CliRemovesApproval, Installs, vars, denyList, history
  <2> QED
    BY <2>1, NeverFrame
<1> QED
  BY <1>1, <1>2, <1>3, <1>4, <1>5, <1>6, <1>7 DEF Next, PluginNext, SupervisorNext

\* A step that opens a prompt about a violation finds its target absent from
\* what the user had excluded.
LEMMA NeverAskedStep ==
  ASSUME TypeOK, NeverInv, [Next]_vars, NEW c \in Calls,
         stage[c] = "new", stage'[c] = "prompted", prompt'[c].op = "violation"
  PROVE  prompt'[c].grant \cap never = {}
<1>1. ASSUME NEW d \in Calls, GateViolation(d)
      PROVE  prompt'[c].grant \cap never = {}
  <2>1. PICK w \in violations :
          IF ~denyTorn /\ w.target \in denied
            THEN /\ stage' = [stage EXCEPT ![d] = "blocked"]
                 /\ UNCHANGED prompt
            ELSE /\ stage' = [stage EXCEPT ![d] = "prompted"]
                 /\ prompt' = [prompt EXCEPT ![d] =
                      [op |-> "violation", content |-> Absent, grant |-> {w.target}]]
    BY <1>1 DEF GateViolation
  <2>2. denyTorn \/ w.target \notin denied
    BY <2>1 DEF TypeOK
  <2>3. c = d /\ prompt'[c].grant = {w.target}
    BY <2>1 DEF TypeOK
  <2>4. job.op = "none"
    BY <1>1 DEF GateViolation, Enters
  <2> QED
    BY <2>2, <2>3, <2>4 DEF NeverInv
<1>2. ASSUME NEW d \in Calls, GateAsks(d) PROVE FALSE
  <2>1. prompt'[d].op = "first"
    BY <1>2 DEF GateAsks, TypeOK
  <2>2. c = d
    BY <1>2 DEF GateAsks, TypeOK
  <2> QED
    BY <2>1, <2>2
<1>3. ASSUME NEW d \in Calls, GatePasses(d) \/ Run(d) \/ Answer(d) PROVE FALSE
  BY <1>3 DEF GatePasses, Run, Answer, TypeOK
<1>4. ASSUME NEW d \in Calls, AllowFirst(d) \/ AllowViolation(d) \/ Never(d) \/ Deny(d)
      PROVE  FALSE
  <2>1. \E kind, outcome : Closes(d, kind, outcome) /\ outcome # "prompted"
    BY <1>4 DEF AllowFirst, AllowViolation, Never, Deny
  <2> QED
    BY <2>1 DEF Closes, TypeOK
<1>5. CASE GatewayDies
  BY <1>5 DEF GatewayDies
<1>6. CASE \/ ReadForUpdate \/ Truncate \/ Fill \/ TruncateDenyList \/ FillDenyList
           \/ SupervisorRestarts \/ CliNext \/ UNCHANGED vars
  BY <1>6 DEF ReadForUpdate, Truncate, Fill, TruncateDenyList, FillDenyList,
              SupervisorRestarts, CliNext, CliAsks, CliApproves, CliDeclines, CliFills,
              CliRemoves, CliRemovesApproval, Installs, vars, calls
<1> QED
  BY <1>1, <1>2, <1>3, <1>4, <1>5, <1>6 DEF Next, PluginNext, SupervisorNext

\* Once a "never" is on disk, no prompt about its target opens again, over any
\* number of calls and restarts, as long as no gateway died with the deny list
\* torn.
THEOREM NeverCorrect == Spec => NeverAskedAgain
<1> DEFINE Final == \A c \in Calls :
                      /\ stage[c] = "new"
                      /\ stage'[c] = "prompted"
                      /\ prompt'[c].op = "violation"
                      => prompt'[c].grant \cap never = {}
<1>1. Init => NeverInv
  BY NoGrants DEF Init, NeverInv
<1>2. TypeOK /\ NeverInv /\ [Next]_vars => NeverInv'
  BY NeverStep
<1>3. TypeOK /\ NeverInv /\ [Next]_vars => [Final]_vars
  BY NeverAskedStep
<1>4. Spec => []NeverInv
  BY <1>1, <1>2, TypeCorrect, PTL DEF Spec
<1>5. Spec => [][Final]_vars
  BY <1>3, <1>4, TypeCorrect, PTL DEF Spec
<1> QED
  BY <1>5 DEF NeverAskedAgain
=============================================================================
