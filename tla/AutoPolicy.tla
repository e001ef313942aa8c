------------------------------ MODULE AutoPolicy ------------------------------
(***************************************************************************)
(* Policy extraction with the pinned AutoPolicy tools: the runner, the     *)
(* artifact loader and the review template of integrations/autopolicy.py,  *)
(* as the commands of cli.py use them, several at once over one output     *)
(* directory.                                                              *)
(*                                                                         *)
(* The tools are outside the repository: an extraction makes a directory,  *)
(* writes its files one after another and may fail, hang, or make nothing. *)
(* A file is missing, half written or whole.  Of an artifact only what     *)
(* relates one to another is kept: ids, sources and links.  Categories,    *)
(* report and LTL rules are opaque.                                        *)
(*                                                                         *)
(* AnyDirectory, IgnoresMapping, NeverTimesOut, LeavesTool and             *)
(* NeverTouched are faulty variants; no action uses them.                  *)
(***************************************************************************)
EXTENDS Integers, FiniteSets, Sequences

CONSTANTS
    None,
    Run,        \* processes: an extraction, an inspection or a review each
    ExtractLtl, \* those that, when they extract, extract LTL rules as well
    Outputs,    \* what an extraction may yield: [policies, rules, mapping]
    MaxDirs     \* bound: extraction directories

ASSUME AutoPolicyAssumption ==
    /\ ExtractLtl \subseteq Run
    /\ MaxDirs \in Nat

\* An output is what the loader looks at, and it is finite.
ASSUME OutputsAssumption ==
    \A o \in Outputs :
        /\ o = [policies |-> o.policies, rules |-> o.rules, mapping |-> o.mapping]
        /\ IsFiniteSet(DOMAIN o.policies)

Required == <<"policies", "rules", "categories", "mapping", "report">>
File == {Required[i] : i \in DOMAIN Required} \cup {"ltl"}

VARIABLES
    dirs,    \* the extraction directories: [output, files, touched]
    clock,   \* orders the modification times of directories
    tool,    \* per run: [at, dir, stage] of the upstream process it waits for
    run      \* per run: [at, before, dir, index, bundle, stage]

vars == <<dirs, clock, tool, run>>

-----------------------------------------------------------------------------
(* The upstream tools *)

NoTool == [at |-> "none", dir |-> None, stage |-> "none"]

Working(r) == tool[r].at = "running"

\* A directory's modification time changes when a file is created in it.
MakesDirectory(r) ==
    /\ Working(r) /\ tool[r].stage = "extract"
    /\ tool[r].dir = None
    /\ Len(dirs) < MaxDirs
    /\ clock' = clock + 1
    /\ \E output \in Outputs :
        dirs' = Append(dirs, [output |-> output, files |-> [f \in File |-> "missing"],
                              touched |-> clock])
    /\ tool' = [tool EXCEPT ![r].dir = Len(dirs) + 1]
    /\ UNCHANGED run

\* Faulty variant: the order of modification is not kept.
NeverTouched(d, f) ==
    /\ dirs' = [dirs EXCEPT ![d].files[f] = IF @ = "half" THEN "whole" ELSE "half",
                            ![d].touched = clock + 1]
    /\ UNCHANGED clock

WritesIn(d, f) ==
    /\ dirs' = [dirs EXCEPT ![d].files[f] = IF @ = "half" THEN "whole" ELSE "half",
                            ![d].touched = IF dirs[d].files[f] = "missing" THEN clock ELSE @]
    /\ clock' = IF dirs[d].files[f] = "missing" THEN clock + 1 ELSE clock

\* The files in their order; an LTL extraction rewrites the one it may find.
WritesFile(r) ==
    /\ Working(r)
    /\ tool[r].dir # None
    /\ \/ /\ tool[r].stage = "extract"
          /\ \E i \in DOMAIN Required :
              /\ dirs[tool[r].dir].files[Required[i]] # "whole"
              /\ \A j \in 1 .. i - 1 : dirs[tool[r].dir].files[Required[j]] = "whole"
              /\ WritesIn(tool[r].dir, Required[i])
          /\ UNCHANGED tool
       \/ /\ tool[r].stage \in {"ltl", "ltl_half"}
          /\ WritesIn(tool[r].dir, "ltl")
          /\ tool' = [tool EXCEPT ![r].stage = IF @ = "ltl" THEN "ltl_half" ELSE "ltl_whole"]
    /\ UNCHANGED run

\* It ends well once it wrote everything, or without a directory; it may fail anywhere.
ToolExits(r) ==
    /\ Working(r)
    /\ \/ /\ \/ tool[r].stage = "ltl_whole"
             \/ /\ tool[r].stage = "extract"
                /\ tool[r].dir # None =>
                    \A i \in DOMAIN Required : dirs[tool[r].dir].files[Required[i]] = "whole"
          /\ tool' = [tool EXCEPT ![r].at = "exited"]
       \/ tool' = [tool EXCEPT ![r].at = "failed"]
    /\ UNCHANGED <<dirs, clock, run>>

-----------------------------------------------------------------------------
(* The runner *)

NoBundle == [policies |-> <<>>, rules |-> <<>>, mapping |-> {}]
NoRun == [at |-> "idle", before |-> {}, dir |-> None, index |-> 0, bundle |-> NoBundle,
          stage |-> "none"]

At(r, label) == run[r].at = label

Goes(r, label) == run' = [run EXCEPT ![r].at = label]

\* An error leaves nothing of the run.
Fails(r) == run' = [run EXCEPT ![r] = [NoRun EXCEPT !.at = "failed"]]

Launched(r, dir, stage) == tool' = [tool EXCEPT ![r] = [at |-> "running", dir |-> dir,
                                                        stage |-> stage]]

\* What exists before the tool is started is not its output.
BeginExtraction(r) ==
    /\ At(r, "idle")
    /\ run' = [run EXCEPT ![r].at = "waiting", ![r].before = DOMAIN dirs, ![r].stage = "extract"]
    /\ Launched(r, None, "extract")
    /\ UNCHANGED <<dirs, clock>>

\* `inspect' and `review-template' are given a directory.
BeginReview(r) ==
    /\ At(r, "idle")
    /\ \E d \in DOMAIN dirs : run' = [run EXCEPT ![r].at = "open", ![r].dir = d]
    /\ UNCHANGED <<dirs, clock, tool>>

\* Faulty variant: the process is waited for without a deadline.
NeverTimesOut(r) == FALSE

\* Time passes: the deadline may be reached whenever the process still works.
PastDeadline(r) == Working(r)

\* Faulty variant: the process that ran out of time is left behind.
LeavesTool(r) == tool' = tool

KillsTool(r) == tool' = [tool EXCEPT ![r] = NoTool]

\* The process is killed and the run ends, as an error of its own or as the bare exception.
TimeOut(r) ==
    /\ At(r, "waiting")
    /\ PastDeadline(r)
    /\ KillsTool(r)
    /\ Fails(r)
    /\ UNCHANGED <<dirs, clock>>

\* Faulty variant: every directory is a candidate.
AnyDirectory(r) == DOMAIN dirs

\* The new directories, or all of them where there is none.
Candidates(r) ==
    LET fresh == DOMAIN dirs \ run[r].before
    IN  IF fresh # {} THEN fresh ELSE DOMAIN dirs

ToolEnded(r) ==
    /\ At(r, "waiting")
    /\ tool[r].at \in {"exited", "failed"}
    /\ IF tool[r].at = "failed" \/ (run[r].stage = "extract" /\ Candidates(r) = {})
       THEN Fails(r) /\ tool' = [tool EXCEPT ![r] = NoTool]
       ELSE /\ \E d \in IF run[r].stage = "ltl" THEN {run[r].dir} ELSE Candidates(r) :
                /\ run[r].stage = "extract" =>
                    \A c \in Candidates(r) : dirs[c].touched <= dirs[d].touched
                /\ run' = [run EXCEPT ![r].at = "open", ![r].dir = d]
            /\ UNCHANGED tool
    /\ UNCHANGED <<dirs, clock>>

-----------------------------------------------------------------------------
(* The loader *)

Files(r) == dirs[run[r].dir].files
Output(r) == dirs[run[r].dir].output

\* Every required file has to be there before the first is read.
OpenDirectory(r) ==
    /\ At(r, "open")
    /\ IF \E i \in DOMAIN Required : Files(r)[Required[i]] = "missing"
       THEN Fails(r)
       ELSE run' = [run EXCEPT ![r].at = "read", ![r].index = 1, ![r].bundle = NoBundle]
    /\ UNCHANGED <<dirs, clock, tool>>

Distinct(items) == \A i, j \in DOMAIN items : items[i].id = items[j].id => i = j
Ids(items) == {items[i].id : i \in DOMAIN items}

\* The link a rule declares: its policy and itself.
Links(rules) == UNION {{<<p, rules[i].id>> : p \in rules[i].sources} : i \in DOMAIN rules}

\* Faulty variant: the mapping need only name known policies and rules.
IgnoresMapping(bundle, output) ==
    \A l \in output.mapping : l[1] \in Ids(bundle.policies) /\ l[2] \in Ids(bundle.rules)

MappingAgrees(bundle, output) == output.mapping = Links(bundle.rules)

KnownSources(rule, policies) == rule.sources # {} /\ rule.sources \subseteq Ids(policies)

\* What is checked of a file against those read before it.
Valid(file, bundle, output) ==
    CASE file = "policies" -> Distinct(output.policies)
      [] file = "rules" -> /\ Distinct(output.rules)
                           /\ \A i \in DOMAIN output.rules :
                                KnownSources(output.rules[i], bundle.policies)
      [] file = "mapping" -> MappingAgrees(bundle, output)
      [] OTHER -> TRUE

Adopted(file, bundle, output) ==
    IF file \in DOMAIN bundle THEN [bundle EXCEPT ![file] = output[file]] ELSE bundle

\* A half-written file is no JSON.
Readable(r, file) == Files(r)[file] = "whole"

\* One file after another.
ReadFile(r) ==
    /\ At(r, "read")
    /\ run[r].index \in DOMAIN Required
    /\ LET file == Required[run[r].index]
       IN  IF Readable(r, file) /\ Valid(file, run[r].bundle, Output(r))
           THEN run' = [run EXCEPT ![r].index = @ + 1,
                                   ![r].bundle = Adopted(file, @, Output(r))]
           ELSE Fails(r)
    /\ UNCHANGED <<dirs, clock, tool>>

\* LTL rules are optional; where they are asked for, the tool runs and all is read again.
ReadLtl(r) ==
    /\ At(r, "read")
    /\ run[r].index \notin DOMAIN Required
    /\ IF Files(r)["ltl"] # "missing" /\ ~Readable(r, "ltl")
       THEN Fails(r) /\ UNCHANGED tool
       ELSE IF r \in ExtractLtl /\ run[r].stage = "extract"
       THEN /\ run' = [run EXCEPT ![r].at = "waiting", ![r].stage = "ltl"]
            /\ Launched(r, run[r].dir, "ltl")
       ELSE Goes(r, "done") /\ UNCHANGED tool
    /\ UNCHANGED <<dirs, clock>>

\* The review template: each rule with its policies, nothing decided.
ReviewTemplate(bundle) ==
    [i \in DOMAIN bundle.rules |->
        [rule |-> bundle.rules[i].id, decision |-> "PENDING",
         policies |-> {bundle.policies[j] : j \in {j \in DOMAIN bundle.policies :
                                             bundle.policies[j].id \in bundle.rules[i].sources}}]]

-----------------------------------------------------------------------------
(* Specification *)

Init ==
    /\ dirs = <<>>
    /\ clock = 0
    /\ tool = [r \in Run |-> NoTool]
    /\ run = [r \in Run |-> NoRun]

Waiting(r) == TimeOut(r) \/ ToolEnded(r)
Loading(r) == OpenDirectory(r) \/ ReadFile(r) \/ ReadLtl(r)

Next ==
    \E r \in Run :
        \/ MakesDirectory(r) \/ WritesFile(r) \/ ToolExits(r)
        \/ BeginExtraction(r) \/ BeginReview(r)
        \/ Waiting(r) \/ Loading(r)

\* A process goes on and time passes; a tool may hang.
Fairness == \A r \in Run : WF_vars(Waiting(r) \/ Loading(r))

Spec == Init /\ [][Next]_vars /\ Fairness

-----------------------------------------------------------------------------
(* What an extraction should guarantee *)

\* The types of directories, tools and runs.
TypeOK ==
    /\ \A d \in DOMAIN dirs : /\ dirs[d].output \in Outputs
                              /\ dirs[d].files \in [File -> {"missing", "half", "whole"}]
                              /\ dirs[d].touched < clock
    /\ \A r \in Run :
        /\ tool[r].at \in {"none", "running", "exited", "failed"}
        /\ tool[r].dir \in DOMAIN dirs \cup {None}
        /\ run[r].at \in {"idle", "waiting", "open", "read", "done", "failed"}
        /\ run[r].dir \in DOMAIN dirs \cup {None}
        /\ run[r].before \subseteq DOMAIN dirs

\* Whatever other processes write meanwhile, a bundle that is returned belongs to one
\* extraction that wrote all it had to, each of its rules traces to policies of the bundle
\* as the mapping says, and its review template shows every one of them, undecided.
BundleIsTraceable ==
    \A r \in Run : At(r, "done") =>
        LET bundle == run[r].bundle
            template == ReviewTemplate(bundle)
        IN  /\ bundle = Output(r)
            /\ \A i \in DOMAIN Required : Files(r)[Required[i]] = "whole"
            /\ \A i \in DOMAIN bundle.rules :
                /\ {p.id : p \in template[i].policies} = bundle.rules[i].sources
                /\ Cardinality(template[i].policies) = Cardinality(bundle.rules[i].sources)
            /\ \A l \in bundle.mapping : \E i \in DOMAIN bundle.rules :
                l[1] \in bundle.rules[i].sources /\ l[2] = bundle.rules[i].id

\* An extraction that was there before the run is returned only where the run's own tool
\* made none, even while another process is writing into the older one.
OlderOnlyIfNone ==
    \A r \in Run :
        (At(r, "done") /\ run[r].dir \in run[r].before /\ run[r].stage = "extract")
            => tool[r].dir = None

\* No tool of a run that ended keeps working in the output directory.
NoToolLeft == \A r \in Run : At(r, "done") \/ At(r, "failed") => ~Working(r)

\* Every run ends, with a bundle or an error, even if its tool hangs.
RunEnds == \A r \in Run : run[r].at # "idle" ~> run[r].at \in {"done", "failed"}
=============================================================================
