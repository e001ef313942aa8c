--------------------------- MODULE AutoPolicyProofs ---------------------------
(***************************************************************************)
(* What a policy extraction returns, for every number of processes,        *)
(* outputs and directories: typing, no tool left behind, an older          *)
(* extraction only where there is no other, and a traceable bundle.        *)
(***************************************************************************)
EXTENDS AutoPolicy, FiniteSetTheorems, TLAPS

-----------------------------------------------------------------------------
(* The inductive invariant *)

Bundle ==
    [policies : {o.policies : o \in Outputs} \cup {<<>>},
     rules : {o.rules : o \in Outputs} \cup {<<>>},
     mapping : {o.mapping : o \in Outputs} \cup {{}}]

Tools ==
    [at : {"none", "running", "exited", "failed"}, dir : Nat \cup {None},
     stage : {"none", "extract", "ltl", "ltl_half", "ltl_whole"}]

Runs ==
    [at : {"idle", "waiting", "open", "read", "done", "failed"}, before : SUBSET Nat,
     dir : Nat \cup {None}, index : Nat, bundle : Bundle, stage : {"none", "extract", "ltl"}]

Directory ==
    [output : Outputs, files : [File -> {"missing", "half", "whole"}], touched : Nat]

Dirs == Seq(Directory)

Typed ==
    /\ dirs \in Dirs
    /\ clock \in Nat
    /\ tool \in [Run -> Tools]
    /\ run \in [Run -> Runs]
    /\ TypeOK

\* A tool works only for a run that waits for it.
ToolIsAwaited == \A r \in Run : /\ Working(r) => At(r, "waiting")
                                /\ At(r, "idle") => tool[r] = NoTool /\ run[r] = NoRun

\* A directory the run's extraction made is none of those it found, and is preferred to them.
Prefers(r) ==
    (run[r].stage = "extract" /\ tool[r].dir # None) =>
        /\ tool[r].dir \in DOMAIN dirs \ run[r].before
        /\ run[r].at \in {"open", "read", "done"} => run[r].dir \notin run[r].before

\* Whoever loads has a directory to load from.
HasDirectory(r) ==
    (run[r].at \in {"open", "read", "done"} \/ run[r].stage = "ltl") => run[r].dir \in DOMAIN dirs

\* What a loader at index n has read: whole files, whose contents are those of the output and
\* agree with one another.
Read(r, n) ==
    LET bundle == run[r].bundle
    IN  /\ \A i \in DOMAIN Required : i < n => Files(r)[Required[i]] = "whole"
        /\ n > 1 => bundle.policies = Output(r).policies /\ Distinct(bundle.policies)
        /\ n > 2 => /\ bundle.rules = Output(r).rules
                    /\ \A i \in DOMAIN bundle.rules :
                        KnownSources(bundle.rules[i], bundle.policies)
        /\ n > 4 => /\ bundle.mapping = Output(r).mapping
                    /\ bundle.mapping = Links(bundle.rules)

Loaded(r) ==
    /\ At(r, "read") => run[r].index \in 1 .. 6 /\ Read(r, run[r].index)
    /\ At(r, "done") => Read(r, 6)

RunOK(r) == Prefers(r) /\ HasDirectory(r) /\ Loaded(r)

LoadInv == Typed /\ ToolIsAwaited /\ \A r \in Run : RunOK(r)

-----------------------------------------------------------------------------
(* The invariant holds at first, and implies the properties *)

\* The five required files, and the optional one.
LEMMA RequiredFiles ==
    /\ DOMAIN Required = 1 .. 5
    /\ Required[1] = "policies" /\ Required[2] = "rules" /\ Required[3] = "categories"
    /\ Required[4] = "mapping" /\ Required[5] = "report"
    /\ File = {"policies", "rules", "categories", "mapping", "report", "ltl"}
BY DEF Required, File

\* The directories are those numbered up to their count, each of its type.
LEMMA DirectoryTyped ==
    ASSUME Typed
    PROVE  /\ Len(dirs) \in Nat /\ DOMAIN dirs = 1 .. Len(dirs)
           /\ \A d \in DOMAIN dirs : dirs[d] \in Directory
<1>1. dirs \in Seq(Directory)
  BY DEF Typed, Dirs
<1> QED BY <1>1

\* No process, directory or tool at first.
LEMMA InitLoad == Init => LoadInv
<1> SUFFICES ASSUME Init PROVE LoadInv
  OBVIOUS
<1>1. NoRun \in Runs /\ NoTool \in Tools
  BY DEF NoRun, NoTool, NoBundle, Runs, Tools, Bundle
<1>2. Typed
  BY <1>1 DEF Init, Typed, TypeOK, Dirs, NoRun, NoTool
<1>3. ToolIsAwaited
  BY DEF Init, ToolIsAwaited, Working, At, NoRun, NoTool
<1>4. ASSUME NEW r \in Run PROVE RunOK(r)
  BY DEF Init, RunOK, Prefers, HasDirectory, Loaded, At, NoRun, NoTool
<1> QED BY <1>2, <1>3, <1>4 DEF LoadInv

\* A template shows as many policies as the rule has sources, as ids are distinct.
LEMMA TemplateIsFaithful ==
    ASSUME NEW o \in Outputs, Distinct(o.policies),
           NEW i \in DOMAIN o.rules, KnownSources(o.rules[i], o.policies)
    PROVE  LET shown == ReviewTemplate(o)[i].policies
           IN  /\ {p.id : p \in shown} = o.rules[i].sources
               /\ Cardinality(shown) = Cardinality(o.rules[i].sources)
<1> DEFINE shown == {o.policies[j] : j \in {k \in DOMAIN o.policies :
                                                o.policies[k].id \in o.rules[i].sources}}
           id == [p \in shown |-> p.id]
<1>1. ReviewTemplate(o)[i].policies = shown
  BY DEF ReviewTemplate
<1>2. {p.id : p \in shown} = o.rules[i].sources
  BY DEF KnownSources, Ids
<1>3. IsFiniteSet(shown)
  <2> DEFINE K == {k \in DOMAIN o.policies : o.policies[k].id \in o.rules[i].sources}
             f == [k \in K |-> o.policies[k]]
  <2>1. IsFiniteSet(K)
    BY OutputsAssumption, FS_Subset
  <2>2. f \in Surjection(K, shown)
    BY DEF Surjection
  <2> QED BY <2>1, <2>2, FS_Surjection DEF ExistsSurjection
<1>4. id \in Bijection(shown, o.rules[i].sources)
  <2>1. id \in [shown -> o.rules[i].sources]
    BY <1>2
  <2>2. \A p, q \in shown : id[p] = id[q] => p = q
    BY DEF Distinct
  <2>3. \A s \in o.rules[i].sources : \E p \in shown : id[p] = s
    BY <1>2
  <2> QED BY <2>1, <2>2, <2>3 DEF Bijection, Injection, Surjection, IsInjective
<1>5. Cardinality(shown) = Cardinality(o.rules[i].sources)
  BY <1>3, <1>4, FS_Bijection DEF ExistsBijection
<1> QED BY <1>1, <1>2, <1>5

\* What has been read of all five files is what the property asks of a bundle.
LEMMA LoadedIsTraceable == LoadInv => BundleIsTraceable
<1> SUFFICES ASSUME LoadInv, NEW r \in Run, At(r, "done")
             PROVE  LET bundle == run[r].bundle
                        template == ReviewTemplate(bundle)
                    IN  /\ bundle = Output(r)
                        /\ \A i \in DOMAIN Required : Files(r)[Required[i]] = "whole"
                        /\ \A i \in DOMAIN bundle.rules :
                            /\ {p.id : p \in template[i].policies} = bundle.rules[i].sources
                            /\ Cardinality(template[i].policies)
                                = Cardinality(bundle.rules[i].sources)
                        /\ \A l \in bundle.mapping : \E i \in DOMAIN bundle.rules :
                            l[1] \in bundle.rules[i].sources /\ l[2] = bundle.rules[i].id
  BY DEF BundleIsTraceable
<1> DEFINE bundle == run[r].bundle
<1>1. Read(r, 6) /\ run[r].dir \in DOMAIN dirs
  BY DEF LoadInv, RunOK, Loaded, HasDirectory, At
<1>2. Output(r) \in Outputs
  BY <1>1, DirectoryTyped DEF LoadInv, Output, Directory
<1>3. bundle = Output(r)
  <2>1. bundle = [policies |-> bundle.policies, rules |-> bundle.rules,
                  mapping |-> bundle.mapping]
    BY DEF LoadInv, Typed, Runs, Bundle
  <2> QED BY <2>1, <1>1, <1>2, OutputsAssumption DEF Read
<1>4. \A i \in DOMAIN Required : Files(r)[Required[i]] = "whole"
  BY <1>1, RequiredFiles DEF Read
<1>5. ASSUME NEW i \in DOMAIN bundle.rules
      PROVE  LET shown == ReviewTemplate(bundle)[i].policies
             IN  /\ {p.id : p \in shown} = bundle.rules[i].sources
                 /\ Cardinality(shown) = Cardinality(bundle.rules[i].sources)
  <2>1. Distinct(bundle.policies) /\ KnownSources(bundle.rules[i], bundle.policies)
    BY <1>1 DEF Read
  <2> QED BY <2>1, <1>2, <1>3, TemplateIsFaithful
<1>6. ASSUME NEW l \in bundle.mapping
      PROVE  \E i \in DOMAIN bundle.rules :
                l[1] \in bundle.rules[i].sources /\ l[2] = bundle.rules[i].id
  <2>1. l \in Links(bundle.rules)
    BY <1>1 DEF Read
  <2>2. PICK i \in DOMAIN bundle.rules : l \in {<<p, bundle.rules[i].id>> :
                                                    p \in bundle.rules[i].sources}
    BY <2>1 DEF Links
  <2> QED BY <2>2
<1> QED BY <1>3, <1>4, <1>5, <1>6

\* The other properties are parts of the invariant.
LEMMA LoadImplies == LoadInv => TypeOK /\ OlderOnlyIfNone /\ NoToolLeft
BY DEF LoadInv, Typed, OlderOnlyIfNone, NoToolLeft, RunOK, Prefers, ToolIsAwaited, At

-----------------------------------------------------------------------------
(* Every step preserves the invariant *)

\* What is said of a run is left alone by a step of another over the same directories.
LEMMA RunFrame ==
    ASSUME NEW q \in Run, RunOK(q), UNCHANGED <<dirs, run[q], tool[q]>>
    PROVE  RunOK(q)'
BY DEF RunOK, Prefers, HasDirectory, Loaded, Read, At, Files, Output

\* Directories only grow: their outputs stay, and so do the required files that are whole.
Grow ==
    /\ DOMAIN dirs \subseteq DOMAIN dirs'
    /\ \A d \in DOMAIN dirs :
        /\ dirs'[d].output = dirs[d].output
        /\ \A i \in DOMAIN Required :
            dirs[d].files[Required[i]] = "whole" => dirs'[d].files[Required[i]] = "whole"

\* Growing directories keep what a loader has read.
LEMMA GrowthKeepsReading ==
    ASSUME NEW q \in Run, RunOK(q), Grow, UNCHANGED run
    PROVE  HasDirectory(q)' /\ Loaded(q)'
<1>1. HasDirectory(q)'
  BY DEF RunOK, HasDirectory, Grow, At
<1>2. ASSUME NEW n \in 1 .. 6, Read(q, n), run[q].dir \in DOMAIN dirs
      PROVE  Read(q, n)'
  BY <1>2, RequiredFiles DEF Read, Grow, Files, Output
<1>3. ASSUME At(q, "read") PROVE run'[q].index \in 1 .. 6 /\ Read(q, run[q].index)'
  <2> PICK n \in 1 .. 6 : n = run[q].index /\ Read(q, n)
    BY <1>3 DEF RunOK, Loaded
  <2>1. Read(q, n)' /\ run'[q].index = n
    BY <1>2, <1>3 DEF RunOK, HasDirectory, At
  <2> QED BY <2>1 DEF Read
<1>4. ASSUME At(q, "done") PROVE Read(q, 6)'
  BY <1>2, <1>4 DEF RunOK, HasDirectory, Loaded, At
<1> QED BY <1>1, <1>3, <1>4 DEF Loaded, At

\* The directory a tool makes is none that its run found.
LEMMA MakesDirectoryKeeps ==
    ASSUME LoadInv, NEW r \in Run, MakesDirectory(r)
    PROVE  LoadInv'
<1> PICK output \in Outputs :
        dirs' = Append(dirs, [output |-> output, files |-> [f \in File |-> "missing"],
                              touched |-> clock])
  BY DEF MakesDirectory
<1> DEFINE new == [output |-> output, files |-> [f \in File |-> "missing"], touched |-> clock]
<1>1. Typed /\ clock' = clock + 1 /\ clock \in Nat /\ run' = run
  BY DEF MakesDirectory, LoadInv, Typed
<1>2. /\ Len(dirs) \in Nat /\ DOMAIN dirs = 1 .. Len(dirs)
      /\ \A d \in DOMAIN dirs : dirs[d] \in Directory
  BY <1>1, DirectoryTyped
<1>3. /\ new \in Directory
      /\ new.output \in Outputs /\ new.files \in [File -> {"missing", "half", "whole"}]
      /\ new.touched = clock
  BY <1>1 DEF Directory
<1>4. /\ dirs' \in Dirs /\ DOMAIN dirs' = 1 .. Len(dirs) + 1
      /\ dirs'[Len(dirs) + 1] = new
      /\ \A d \in DOMAIN dirs : dirs'[d] = dirs[d]
  <2> HIDE DEF new
  <2>1. dirs \in Seq(Directory) /\ dirs' = Append(dirs, new)
    BY <1>1 DEF Typed, Dirs, new
  <2> QED BY <2>1, <1>3 DEF Dirs
<1>5. /\ tool' = [tool EXCEPT ![r].dir = Len(dirs) + 1]
      /\ tool[r].at = "running" /\ run[r].at = "waiting"
  BY DEF MakesDirectory, Working, LoadInv, ToolIsAwaited, At
<1>6. Grow
  BY <1>2, <1>4 DEF Grow
<1>7. Typed'
  <2>1. tool' \in [Run -> Tools]
    BY <1>1, <1>2, <1>5 DEF Typed, Tools
  <2>2. TypeOK'
    <3>1. ASSUME NEW d \in DOMAIN dirs'
          PROVE  /\ dirs'[d].output \in Outputs
                 /\ dirs'[d].files \in [File -> {"missing", "half", "whole"}]
                 /\ dirs'[d].touched < clock'
      <4>1. CASE d \in DOMAIN dirs
        <5>1. dirs[d].touched \in Nat
          BY <1>2, <4>1 DEF Directory
        <5> QED BY <5>1, <1>1, <1>4, <4>1 DEF Typed, TypeOK
      <4>2. CASE d = Len(dirs) + 1
        BY <1>1, <1>3, <1>4, <4>2
      <4> QED BY <1>2, <1>4, <4>1, <4>2
    <3>2. ASSUME NEW q \in Run
          PROVE  /\ tool'[q].at \in {"none", "running", "exited", "failed"}
                 /\ tool'[q].dir \in DOMAIN dirs' \cup {None}
                 /\ run'[q].at \in {"idle", "waiting", "open", "read", "done", "failed"}
                 /\ run'[q].dir \in DOMAIN dirs' \cup {None}
                 /\ run'[q].before \subseteq DOMAIN dirs'
      BY <1>1, <1>2, <1>4, <1>5 DEF Typed, TypeOK, Tools
    <3> QED BY <3>1, <3>2 DEF TypeOK
  <2> QED BY <1>1, <1>4, <2>1, <2>2 DEF Typed
<1>8. ToolIsAwaited'
  BY <1>1, <1>5 DEF LoadInv, ToolIsAwaited, Working, At, Typed, Tools
<1>9. ASSUME NEW q \in Run PROVE RunOK(q)'
  <2>1. HasDirectory(q)' /\ Loaded(q)'
    BY <1>1, <1>6, GrowthKeepsReading DEF LoadInv
  <2>2. Prefers(q)'
    <3>1. CASE q = r
      BY <3>1, <1>1, <1>2, <1>4, <1>5 DEF Prefers, Typed, TypeOK, Tools
    <3>2. CASE q # r
      BY <3>2, <1>1, <1>2, <1>4, <1>5 DEF LoadInv, RunOK, Prefers, Typed
    <3> QED BY <3>1, <3>2
  <2> QED BY <2>1, <2>2 DEF RunOK
<1> QED BY <1>7, <1>8, <1>9 DEF LoadInv

\* A file only comes to be, and a whole one that is required stays whole.
LEMMA WritesFileKeeps ==
    ASSUME LoadInv, NEW r \in Run, WritesFile(r)
    PROVE  LoadInv'
<1> DEFINE d == tool[r].dir
<1> PICK f \in File :
        /\ WritesIn(d, f)
        /\ f = "ltl" \/ dirs[d].files[f] # "whole"
  BY RequiredFiles DEF WritesFile
<1> DEFINE contents == IF dirs[d].files[f] = "half" THEN "whole" ELSE "half"
           moment == IF dirs[d].files[f] = "missing" THEN clock ELSE dirs[d].touched
<1>1. Typed /\ run' = run /\ d \in DOMAIN dirs /\ run[r].at = "waiting" /\ tool[r].at = "running"
  BY DEF WritesFile, Working, LoadInv, ToolIsAwaited, At, Typed, TypeOK
<1>2. /\ Len(dirs) \in Nat /\ DOMAIN dirs = 1 .. Len(dirs)
      /\ \A e \in DOMAIN dirs : dirs[e] \in Directory
  BY <1>1, DirectoryTyped
<1>3. clock \in Nat /\ clock' \in Nat /\ clock <= clock' /\ moment < clock'
  BY <1>1, <1>2 DEF Typed, TypeOK, WritesIn, Directory
<1>4. dirs' = [dirs EXCEPT ![d].files[f] = contents, ![d].touched = moment]
  BY <1>1 DEF WritesIn
<1>5. dirs' = [dirs EXCEPT ![d] = [output |-> dirs[d].output,
                                   files |-> [dirs[d].files EXCEPT ![f] = contents],
                                   touched |-> moment]]
  <2> HIDE DEF contents, moment
  <2>1. dirs[d] \in Directory
    BY <1>1, <1>2
  <2>2. [dirs[d] EXCEPT !.files[f] = contents, !.touched = moment]
            = [output |-> dirs[d].output, files |-> [dirs[d].files EXCEPT ![f] = contents],
               touched |-> moment]
    <3>1. PICK o \in Outputs, files \in [File -> {"missing", "half", "whole"}], m \in Nat :
            dirs[d] = [output |-> o, files |-> files, touched |-> m]
      BY <2>1 DEF Directory
    <3>2. [[output |-> o, files |-> files, touched |-> m] EXCEPT !.files[f] = contents]
            = [output |-> o, files |-> [files EXCEPT ![f] = contents], touched |-> m]
      OBVIOUS
    <3>3. [[output |-> o, files |-> [files EXCEPT ![f] = contents], touched |-> m]
                EXCEPT !.touched = moment]
            = [output |-> o, files |-> [files EXCEPT ![f] = contents], touched |-> moment]
      OBVIOUS
    <3> QED BY <3>1, <3>2, <3>3
  <2>3. dirs' = [dirs EXCEPT ![d] = [dirs[d] EXCEPT !.files[f] = contents, !.touched = moment]]
    BY <1>1, <1>2, <1>4
  <2> QED BY <2>2, <2>3
<1> DEFINE new == [output |-> dirs[d].output, files |-> [dirs[d].files EXCEPT ![f] = contents],
                   touched |-> moment]
<1>6. /\ new \in Directory
      /\ new.output = dirs[d].output /\ new.output \in Outputs
      /\ new.files = [dirs[d].files EXCEPT ![f] = contents]
      /\ new.files \in [File -> {"missing", "half", "whole"}]
      /\ new.touched < clock'
  BY <1>1, <1>2, <1>3 DEF Directory
<1>7. /\ dirs' \in Dirs /\ DOMAIN dirs' = DOMAIN dirs /\ dirs'[d] = new
      /\ \A e \in DOMAIN dirs : e # d => dirs'[e] = dirs[e]
  <2> HIDE DEF new, d
  <2>1. dirs \in Seq(Directory) /\ dirs' = [dirs EXCEPT ![d] = new]
    BY <1>1, <1>5 DEF Typed, Dirs, new
  <2> QED BY <2>1, <1>1, <1>2, <1>6 DEF Dirs
<1>8. Grow
  <2>1. \A i \in DOMAIN Required : Required[i] \in File /\ Required[i] # "ltl"
    BY RequiredFiles
  <2>2. dirs[d].files \in [File -> {"missing", "half", "whole"}]
    BY <1>1, <1>2 DEF Directory
  <2> QED BY <2>1, <2>2, <1>1, <1>6, <1>7 DEF Grow
<1>9. /\ tool' \in [Run -> Tools]
      /\ \A q \in Run : tool'[q].dir = tool[q].dir /\ tool'[q].at = tool[q].at
      /\ \A q \in Run : q # r => tool'[q] = tool[q]
  BY <1>1 DEF Typed, Tools, WritesFile
<1>10. Typed'
  <2>1. ASSUME NEW e \in DOMAIN dirs'
        PROVE  /\ dirs'[e].output \in Outputs
               /\ dirs'[e].files \in [File -> {"missing", "half", "whole"}]
               /\ dirs'[e].touched < clock'
    <3>1. CASE e = d
      BY <3>1, <1>6, <1>7
    <3>2. CASE e # d
      <4>1. dirs[e].touched \in Nat
        BY <1>2, <1>7, <3>2 DEF Directory
      <4> QED BY <4>1, <3>2, <1>1, <1>3, <1>7 DEF Typed, TypeOK
    <3> QED BY <3>1, <3>2
  <2>2. TypeOK'
    BY <2>1, <1>1, <1>7, <1>9 DEF Typed, TypeOK
  <2> QED BY <2>2, <1>1, <1>3, <1>7, <1>9 DEF Typed
<1>11. ToolIsAwaited'
  BY <1>1, <1>9 DEF LoadInv, ToolIsAwaited, Working, At
<1>12. ASSUME NEW q \in Run PROVE RunOK(q)'
  <2>1. HasDirectory(q)' /\ Loaded(q)'
    BY <1>1, <1>8, GrowthKeepsReading DEF LoadInv
  <2>2. Prefers(q)'
    BY <1>1, <1>7, <1>9 DEF LoadInv, RunOK, Prefers
  <2> QED BY <2>1, <2>2 DEF RunOK
<1> QED BY <1>10, <1>11, <1>12 DEF LoadInv

\* What a step of one run has to show, where it leaves the directories alone.
LEMMA OneRun ==
    ASSUME LoadInv, NEW r \in Run, UNCHANGED <<dirs, clock>>,
           \E t \in Tools : tool' = [tool EXCEPT ![r] = t],
           \E s \in Runs : run' = [run EXCEPT ![r] = s],
           tool'[r].dir \in DOMAIN dirs \cup {None},
           run'[r].dir \in DOMAIN dirs \cup {None},
           run'[r].before \subseteq DOMAIN dirs,
           tool'[r].at = "running" => run'[r].at = "waiting",
           run'[r].at # "idle",
           RunOK(r)'
    PROVE  LoadInv'
<1> PICK t \in Tools, s \in Runs : tool' = [tool EXCEPT ![r] = t] /\ run' = [run EXCEPT ![r] = s]
  OBVIOUS
<1>1. Typed
  BY DEF LoadInv
<1>2. /\ tool' \in [Run -> Tools] /\ run' \in [Run -> Runs]
      /\ \A q \in Run : q # r => tool'[q] = tool[q] /\ run'[q] = run[q]
  BY <1>1 DEF Typed
<1>3. TypeOK'
  BY <1>1, <1>2 DEF Typed, TypeOK, Tools, Runs
<1>4. Typed'
  BY <1>1, <1>2, <1>3 DEF Typed
<1>5. ToolIsAwaited'
  BY <1>2 DEF LoadInv, ToolIsAwaited, Working, At
<1>6. ASSUME NEW q \in Run, q # r PROVE RunOK(q)'
  BY <1>2, <1>6, RunFrame DEF LoadInv
<1> QED BY <1>4, <1>5, <1>6 DEF LoadInv

\* A tool exits: nobody else's turn has come.
LEMMA ToolExitsKeeps ==
    ASSUME LoadInv, NEW r \in Run, ToolExits(r)
    PROVE  LoadInv'
<1>1. Typed /\ run[r].at = "waiting" /\ UNCHANGED <<dirs, clock, run>>
  BY DEF ToolExits, LoadInv, ToolIsAwaited, At
<1>2. PICK t \in Tools : /\ tool' = [tool EXCEPT ![r] = t] /\ t.dir = tool[r].dir
                        /\ t.at # "running"
  <2>1. PICK label \in {"exited", "failed"} : tool' = [tool EXCEPT ![r].at = label]
    BY DEF ToolExits
  <2>2. tool[r] \in Tools /\ tool \in [Run -> Tools]
    BY <1>1 DEF Typed
  <2>3. [tool[r] EXCEPT !.at = label] \in Tools
    BY <2>2 DEF Tools
  <2> QED BY <2>1, <2>2, <2>3 DEF Tools
<1>3. run' = [run EXCEPT ![r] = run[r]] /\ run[r] \in Runs
  BY <1>1 DEF Typed
<1>4. tool'[r] = t
  BY <1>1, <1>2 DEF Typed
<1>5. RunOK(r)'
  BY <1>1, <1>2, <1>4 DEF LoadInv, RunOK, Prefers, HasDirectory, Loaded, Read, At, Files, Output
<1> QED BY <1>1, <1>2, <1>3, <1>4, <1>5, OneRun DEF Typed, TypeOK

\* A run that failed is nothing but failed.
LEMMA FailsKeeps ==
    ASSUME LoadInv, NEW r \in Run, Fails(r), UNCHANGED <<dirs, clock>>,
           \E t \in Tools : /\ tool' = [tool EXCEPT ![r] = t] /\ t.at # "running"
                           /\ t.dir \in DOMAIN dirs \cup {None}
    PROVE  LoadInv'
<1> DEFINE failed == [NoRun EXCEPT !.at = "failed"]
<1>1. /\ failed \in Runs /\ failed.at = "failed" /\ failed.dir = None
      /\ failed.before = {} /\ failed.stage = "none"
  BY DEF NoRun, NoBundle, Runs, Bundle
<1> HIDE DEF failed
<1>2. run' = [run EXCEPT ![r] = failed] /\ Typed
  BY DEF Fails, LoadInv, failed
<1>3. run'[r] = failed
  BY <1>2 DEF Typed
<1>4. RunOK(r)'
  BY <1>1, <1>3 DEF RunOK, Prefers, HasDirectory, Loaded, At
<1>5. tool'[r].at # "running" /\ tool'[r].dir \in DOMAIN dirs \cup {None}
  BY <1>2 DEF Typed
<1> QED BY <1>1, <1>2, <1>3, <1>4, <1>5, OneRun

\* The tool of a run that does not work is none or has exited, and stays as it is.
LEMMA IdleTool ==
    ASSUME LoadInv, NEW r \in Run, UNCHANGED tool, run[r].at # "waiting"
    PROVE  /\ \E t \in Tools : /\ tool' = [tool EXCEPT ![r] = t] /\ t.at # "running"
                              /\ t.dir \in DOMAIN dirs \cup {None}
           /\ tool'[r] = tool[r] /\ tool[r].at # "running"
           /\ tool[r].dir \in DOMAIN dirs \cup {None}
<1>1. tool \in [Run -> Tools] /\ tool[r].at # "running" /\ tool[r].dir \in DOMAIN dirs \cup {None}
  BY DEF LoadInv, Typed, TypeOK, ToolIsAwaited, Working, At
<1> QED BY <1>1

\* A timeout leaves no tool and a failed run.
LEMMA TimeOutKeeps ==
    ASSUME LoadInv, NEW r \in Run, TimeOut(r)
    PROVE  LoadInv'
<1>1. NoTool \in Tools /\ NoTool.at # "running" /\ NoTool.dir = None
  BY DEF NoTool, Tools
<1> QED BY <1>1, FailsKeeps DEF TimeOut, KillsTool

\* What an extraction finds at its start are all the directories there are.
LEMMA BeginExtractionKeeps ==
    ASSUME LoadInv, NEW r \in Run, BeginExtraction(r)
    PROVE  LoadInv'
<1> DEFINE t == [at |-> "running", dir |-> None, stage |-> "extract"]
           s == [NoRun EXCEPT !.at = "waiting", !.before = DOMAIN dirs, !.stage = "extract"]
<1>1. Typed /\ run[r] = NoRun /\ UNCHANGED <<dirs, clock>>
  BY DEF BeginExtraction, LoadInv, ToolIsAwaited
<1>2. DOMAIN dirs \subseteq Nat
  BY <1>1, DirectoryTyped
<1>3. t \in Tools /\ t.dir = None
  BY DEF Tools
<1>4. /\ s \in Runs /\ s.at = "waiting" /\ s.before = DOMAIN dirs /\ s.stage = "extract"
      /\ s.dir = None
  BY <1>2 DEF Runs, NoRun, NoBundle, Bundle
<1>5. tool' = [tool EXCEPT ![r] = t] /\ run' = [run EXCEPT ![r] = s]
  BY <1>1 DEF BeginExtraction, Launched, Typed
<1> HIDE DEF t, s
<1>6. tool'[r] = t /\ run'[r] = s
  BY <1>1, <1>5 DEF Typed
<1>7. RunOK(r)'
  BY <1>3, <1>4, <1>6 DEF RunOK, Prefers, HasDirectory, Loaded, At
<1> QED BY <1>1, <1>3, <1>4, <1>5, <1>6, <1>7, OneRun

\* A review has a directory to read.
LEMMA BeginReviewKeeps ==
    ASSUME LoadInv, NEW r \in Run, BeginReview(r)
    PROVE  LoadInv'
<1> PICK d \in DOMAIN dirs : run' = [run EXCEPT ![r].at = "open", ![r].dir = d]
  BY DEF BeginReview
<1> DEFINE s == [NoRun EXCEPT !.at = "open", !.dir = d]
<1>1. /\ Typed /\ run[r] = NoRun /\ run[r].at # "waiting"
      /\ UNCHANGED <<dirs, clock, tool>>
  BY DEF BeginReview, LoadInv, ToolIsAwaited, At, NoRun
<1>2. d \in Nat
  BY <1>1, DirectoryTyped
<1>3. s \in Runs /\ s.at = "open" /\ s.before = {} /\ s.stage = "none" /\ s.dir = d
  BY <1>2 DEF Runs, NoRun, NoBundle, Bundle
<1>4. run' = [run EXCEPT ![r] = s]
  BY <1>1 DEF Typed
<1> HIDE DEF s
<1>5. run'[r] = s
  BY <1>1, <1>4 DEF Typed
<1>6. RunOK(r)'
  BY <1>1, <1>3, <1>5 DEF RunOK, Prefers, HasDirectory, Loaded, At
<1> QED BY <1>1, <1>3, <1>4, <1>5, <1>6, IdleTool, OneRun

\* The newest of the candidates is none of those found, where the tool made one.
LEMMA ToolEndedKeeps ==
    ASSUME LoadInv, NEW r \in Run, ToolEnded(r)
    PROVE  LoadInv'
<1>1. /\ Typed /\ UNCHANGED <<dirs, clock>> /\ At(r, "waiting")
      /\ tool \in [Run -> Tools] /\ tool[r].at \in {"exited", "failed"}
      /\ tool[r].dir \in DOMAIN dirs \cup {None}
  BY DEF ToolEnded, LoadInv, Typed, TypeOK
<1>2. CASE Fails(r) /\ tool' = [tool EXCEPT ![r] = NoTool]
  <2>1. NoTool \in Tools /\ NoTool.at # "running" /\ NoTool.dir = None
    BY DEF NoTool, Tools
  <2> QED BY <1>1, <1>2, <2>1, FailsKeeps
<1>3. ASSUME NEW d \in IF run[r].stage = "ltl" THEN {run[r].dir} ELSE Candidates(r),
             run' = [run EXCEPT ![r].at = "open", ![r].dir = d], UNCHANGED tool
      PROVE  LoadInv'
  <2> DEFINE s == [run[r] EXCEPT !.at = "open", !.dir = d]
  <2>1. d \in DOMAIN dirs
    BY <1>3 DEF LoadInv, RunOK, HasDirectory, Candidates
  <2>2. run[r] \in Runs /\ run[r].before \subseteq DOMAIN dirs /\ d \in Nat
    BY <1>1, <2>1, DirectoryTyped DEF Typed, TypeOK
  <2>3. /\ s \in Runs /\ s.at = "open" /\ s.dir = d
        /\ s.before = run[r].before /\ s.stage = run[r].stage
    BY <2>2 DEF Runs
  <2>4. run' = [run EXCEPT ![r] = s]
    BY <1>1, <1>3 DEF Typed
  <2> HIDE DEF s
  <2>5. run'[r] = s
    BY <1>1, <2>4 DEF Typed
  <2>6. Prefers(r)'
    <3> SUFFICES ASSUME run[r].stage = "extract", tool[r].dir # None
                 PROVE  /\ tool[r].dir \in DOMAIN dirs \ run[r].before
                        /\ d \notin run[r].before
      BY <1>1, <1>3, <2>3, <2>5 DEF Prefers
    <3>1. tool[r].dir \in DOMAIN dirs \ run[r].before
      BY DEF LoadInv, RunOK, Prefers
    <3> QED BY <3>1, <1>3 DEF Candidates
  <2>7. RunOK(r)'
    BY <1>1, <2>1, <2>3, <2>5, <2>6 DEF RunOK, HasDirectory, Loaded, At
  <2>8. tool' = [tool EXCEPT ![r] = tool[r]] /\ tool[r] \in Tools
    BY <1>1, <1>3
  <2> QED BY <1>1, <1>3, <2>1, <2>2, <2>3, <2>4, <2>5, <2>7, <2>8, OneRun
<1> QED BY <1>2, <1>3 DEF ToolEnded

\* A loader starts with nothing read.
LEMMA OpenDirectoryKeeps ==
    ASSUME LoadInv, NEW r \in Run, OpenDirectory(r)
    PROVE  LoadInv'
<1>1. /\ Typed /\ UNCHANGED <<dirs, clock, tool>> /\ run[r].at = "open"
      /\ run[r].dir \in DOMAIN dirs /\ run[r].before \subseteq DOMAIN dirs
  BY DEF OpenDirectory, LoadInv, Typed, TypeOK, RunOK, HasDirectory, At
<1>2. CASE Fails(r)
  BY <1>1, <1>2, IdleTool, FailsKeeps
<1>3. CASE run' = [run EXCEPT ![r].at = "read", ![r].index = 1, ![r].bundle = NoBundle]
  <2> DEFINE s == [run[r] EXCEPT !.at = "read", !.index = 1, !.bundle = NoBundle]
  <2>1. /\ s \in Runs /\ s.at = "read" /\ s.index = 1 /\ s.dir = run[r].dir
        /\ s.before = run[r].before /\ s.stage = run[r].stage
    <3>1. run[r] \in Runs /\ NoBundle \in Bundle
      BY <1>1 DEF Typed, NoBundle, Bundle
    <3> QED BY <3>1 DEF Runs
  <2>2. run' = [run EXCEPT ![r] = s]
    BY <1>1, <1>3 DEF Typed
  <2> HIDE DEF s
  <2>3. run'[r] = s
    BY <1>1, <2>2 DEF Typed
  <2>4. RunOK(r)'
    <3>1. Read(r, 1)'
      BY RequiredFiles DEF Read
    <3>2. Prefers(r)'
      BY <1>1, <2>1, <2>3 DEF LoadInv, RunOK, Prefers
    <3>3. HasDirectory(r)'
      BY <1>1, <2>1, <2>3 DEF HasDirectory
    <3>4. Loaded(r)'
      BY <2>1, <2>3, <3>1 DEF Loaded, At, Read
    <3> QED BY <3>2, <3>3, <3>4 DEF RunOK
  <2> QED BY <1>1, <2>1, <2>2, <2>3, <2>4, IdleTool, OneRun
<1> QED BY <1>2, <1>3 DEF OpenDirectory

\* Each file adds to what was read before it.
LEMMA ReadFileKeeps ==
    ASSUME LoadInv, NEW r \in Run, ReadFile(r)
    PROVE  LoadInv'
<1> PICK n \in 1 .. 5 : n = run[r].index
  BY RequiredFiles DEF ReadFile
<1> DEFINE file == Required[n]
           old == run[r].bundle
<1>1. /\ Typed /\ UNCHANGED <<dirs, clock, tool>> /\ run[r].at = "read"
      /\ run[r].dir \in DOMAIN dirs /\ run[r].before \subseteq DOMAIN dirs
  BY DEF ReadFile, LoadInv, Typed, TypeOK, RunOK, HasDirectory, At
<1>2. Read(r, n) /\ run[r] \in Runs /\ old \in Bundle
  BY <1>1, RequiredFiles DEF LoadInv, RunOK, Loaded, At, Typed, Runs
<1>3. CASE Fails(r)
  BY <1>1, <1>3, IdleTool, FailsKeeps
<1>4. ASSUME Readable(r, file), Valid(file, old, Output(r)),
             run' = [run EXCEPT ![r].index = @ + 1, ![r].bundle = Adopted(file, @, Output(r))]
      PROVE  LoadInv'
  <2> DEFINE next == Adopted(file, old, Output(r))
             s == [run[r] EXCEPT !.index = n + 1, !.bundle = next]
  <2>1. Output(r) \in Outputs
    BY <1>1, DirectoryTyped DEF Output, Directory
  <2>2. /\ old = [policies |-> old.policies, rules |-> old.rules, mapping |-> old.mapping]
        /\ DOMAIN old = {"policies", "rules", "mapping"}
    BY <1>2 DEF Bundle
  <2>3. /\ next \in Bundle
        /\ next.policies = IF n = 1 THEN Output(r).policies ELSE old.policies
        /\ next.rules = IF n = 2 THEN Output(r).rules ELSE old.rules
        /\ next.mapping = IF n = 4 THEN Output(r).mapping ELSE old.mapping
    <3>1. CASE n = 1
      BY <3>1, <1>2, <2>1, <2>2, RequiredFiles DEF Adopted, Bundle
    <3>2. CASE n = 2
      BY <3>2, <1>2, <2>1, <2>2, RequiredFiles DEF Adopted, Bundle
    <3>3. CASE n = 4
      BY <3>3, <1>2, <2>1, <2>2, RequiredFiles DEF Adopted, Bundle
    <3>4. CASE n \in {3, 5}
      BY <3>4, <1>2, <2>1, <2>2, RequiredFiles DEF Adopted, Bundle
    <3> QED BY <3>1, <3>2, <3>3, <3>4, <1>2
  <2> HIDE DEF next
  <2>4. /\ s \in Runs /\ s.at = "read" /\ s.index = n + 1 /\ s.dir = run[r].dir
        /\ s.before = run[r].before /\ s.stage = run[r].stage /\ s.bundle = next
    <3>1. next \in Bundle /\ run[r] \in Runs /\ n + 1 \in Nat /\ run[r].at = "read"
      BY <1>1, <1>2, <2>3
    <3> QED BY <3>1 DEF Runs
  <2>5. run' = [run EXCEPT ![r] = s]
    BY <1>1, <1>4 DEF Typed, next
  <2> HIDE DEF s
  <2>6. run'[r] = s
    BY <1>1, <2>5 DEF Typed
  <2>7. Read(r, n + 1)'
    <3>1. Files(r)' = Files(r) /\ Output(r)' = Output(r)
      BY <1>1, <2>4, <2>6 DEF Files, Output
    <3>2. \A i \in DOMAIN Required : i < n + 1 => Files(r)[Required[i]] = "whole"
      BY <1>2, <1>4, RequiredFiles DEF Read, Readable
    <3>3. next.policies = Output(r).policies /\ Distinct(next.policies)
      BY <1>2, <1>4, <2>3, RequiredFiles DEF Read, Valid
    <3>4. n > 1 => /\ next.rules = Output(r).rules
                   /\ \A i \in DOMAIN next.rules : KnownSources(next.rules[i], next.policies)
      BY <1>2, <1>4, <2>3, RequiredFiles DEF Read, Valid
    <3>5. n > 3 => next.mapping = Output(r).mapping /\ next.mapping = Links(next.rules)
      BY <1>2, <1>4, <2>3, RequiredFiles DEF Read, Valid, MappingAgrees
    <3> QED BY <3>1, <3>2, <3>3, <3>4, <3>5, <1>2, <2>4, <2>6 DEF Read
  <2>8. RunOK(r)'
    <3>1. Prefers(r)' /\ HasDirectory(r)'
      BY <1>1, <2>4, <2>6 DEF LoadInv, RunOK, Prefers, HasDirectory
    <3>2. run'[r].index = n + 1 /\ n + 1 \in 1 .. 6 /\ run'[r].at = "read"
      BY <1>2, <2>4, <2>6
    <3>3. Read(r, run[r].index)'
      BY <2>7, <3>2 DEF Read
    <3> QED BY <3>1, <3>2, <3>3 DEF RunOK, Loaded, At
  <2> QED BY <1>1, <2>4, <2>5, <2>6, <2>8, IdleTool, OneRun
<1> QED BY <1>3, <1>4 DEF ReadFile

\* All five files have been read before the LTL rules are looked for.
LEMMA ReadLtlKeeps ==
    ASSUME LoadInv, NEW r \in Run, ReadLtl(r)
    PROVE  LoadInv'
<1>1. /\ Typed /\ UNCHANGED <<dirs, clock>> /\ run[r].at = "read"
      /\ run[r].dir \in DOMAIN dirs /\ run[r].before \subseteq DOMAIN dirs
      /\ run[r].dir \in Nat
  BY DirectoryTyped DEF ReadLtl, LoadInv, Typed, TypeOK, RunOK, HasDirectory, At
<1>2. Read(r, 6) /\ run[r] \in Runs
  BY <1>1, RequiredFiles DEF ReadLtl, LoadInv, RunOK, Loaded, At, Typed
<1>3. CASE Fails(r) /\ UNCHANGED tool
  BY <1>1, <1>3, IdleTool, FailsKeeps
<1>4. CASE /\ run' = [run EXCEPT ![r].at = "waiting", ![r].stage = "ltl"]
           /\ Launched(r, run[r].dir, "ltl")
  <2> DEFINE t == [at |-> "running", dir |-> run[r].dir, stage |-> "ltl"]
             s == [run[r] EXCEPT !.at = "waiting", !.stage = "ltl"]
  <2>1. t \in Tools /\ t.dir = run[r].dir
    BY <1>1 DEF Tools
  <2>2. /\ s \in Runs /\ s.at = "waiting" /\ s.stage = "ltl" /\ s.dir = run[r].dir
        /\ s.before = run[r].before
    BY <1>2 DEF Runs
  <2>3. tool' = [tool EXCEPT ![r] = t] /\ run' = [run EXCEPT ![r] = s]
    BY <1>1, <1>4 DEF Launched, Typed
  <2> HIDE DEF t, s
  <2>4. tool'[r] = t /\ run'[r] = s
    BY <1>1, <2>3 DEF Typed
  <2>5. RunOK(r)'
    BY <1>1, <2>2, <2>4 DEF RunOK, Prefers, HasDirectory, Loaded, At
  <2> QED BY <1>1, <2>1, <2>2, <2>3, <2>4, <2>5, OneRun
<1>5. CASE Goes(r, "done") /\ UNCHANGED tool
  <2> DEFINE s == [run[r] EXCEPT !.at = "done"]
  <2>1. /\ s \in Runs /\ s.at = "done" /\ s.dir = run[r].dir /\ s.bundle = run[r].bundle
        /\ s.before = run[r].before /\ s.stage = run[r].stage
    BY <1>2 DEF Runs
  <2>2. run' = [run EXCEPT ![r] = s]
    BY <1>1, <1>5 DEF Goes, Typed
  <2> HIDE DEF s
  <2>3. run'[r] = s
    BY <1>1, <2>2 DEF Typed
  <2>4. Read(r, 6)'
    BY <1>1, <1>2, <2>1, <2>3 DEF Read, Files, Output
  <2>5. RunOK(r)'
    BY <1>1, <1>5, <2>1, <2>3, <2>4 DEF LoadInv, RunOK, Prefers, HasDirectory, Loaded, At
  <2> QED BY <1>1, <1>5, <2>1, <2>2, <2>3, <2>5, IdleTool, OneRun
<1> QED BY <1>3, <1>4, <1>5 DEF ReadLtl

\* Every step of every process keeps the invariant.
LEMMA NextKeeps == LoadInv /\ [Next]_vars => LoadInv'
<1> SUFFICES ASSUME LoadInv, [Next]_vars PROVE LoadInv'
  OBVIOUS
<1>1. CASE UNCHANGED vars
  <2>1. Typed'
    BY <1>1 DEF LoadInv, Typed, TypeOK, vars
  <2>2. ToolIsAwaited'
    BY <1>1 DEF LoadInv, ToolIsAwaited, Working, At, vars
  <2>3. \A q \in Run : RunOK(q)'
    BY <1>1, RunFrame DEF LoadInv, vars
  <2> QED BY <2>1, <2>2, <2>3 DEF LoadInv
<1>2. CASE Next
  <2> PICK r \in Run :
        \/ MakesDirectory(r) \/ WritesFile(r) \/ ToolExits(r)
        \/ BeginExtraction(r) \/ BeginReview(r)
        \/ Waiting(r) \/ Loading(r)
    BY <1>2 DEF Next
  <2>1. CASE MakesDirectory(r) \/ WritesFile(r) \/ ToolExits(r)
    BY <2>1, MakesDirectoryKeeps, WritesFileKeeps, ToolExitsKeeps
  <2>2. CASE BeginExtraction(r) \/ BeginReview(r)
    BY <2>2, BeginExtractionKeeps, BeginReviewKeeps
  <2>3. CASE Waiting(r)
    BY <2>3, TimeOutKeeps, ToolEndedKeeps DEF Waiting
  <2>4. CASE Loading(r)
    BY <2>4, OpenDirectoryKeeps, ReadFileKeeps, ReadLtlKeeps DEF Loading
  <2> QED BY <2>1, <2>2, <2>3, <2>4
<1> QED BY <1>1, <1>2

\* The invariant holds of every behaviour.
LEMMA Invariance == Spec => []LoadInv
BY InitLoad, NextKeeps, PTL DEF Spec

-----------------------------------------------------------------------------
(* The properties *)

\* Directories, tools and runs are of their types (AutoPolicyRunner.run).
THEOREM TypeCorrect == Spec => []TypeOK
BY Invariance, LoadImplies, PTL

\* An extraction that was there before is returned only where the tool made none
\* (AutoPolicyRunner.run choosing the newest directory).
THEOREM OlderOnlyIfNoneHolds == Spec => []OlderOnlyIfNone
BY Invariance, LoadImplies, PTL

\* No tool of a run that ended keeps working, whether it timed out or not
\* (AutoPolicyRunner.run and extract_ltl).
THEOREM NoToolLeftHolds == Spec => []NoToolLeft
BY Invariance, LoadImplies, PTL

\* A bundle that is returned is whole and traceable, and its template faithful, however many
\* processes write to the directories meanwhile (load_autopolicy_bundle).
THEOREM BundleIsTraceableHolds == Spec => []BundleIsTraceable
BY Invariance, LoadedIsTraceable, PTL
=============================================================================
