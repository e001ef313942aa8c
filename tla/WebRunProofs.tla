----------------------------- MODULE WebRunProofs -----------------------------
(***************************************************************************)
(* A web run, for every policy, set of candidates and bounds: nothing is   *)
(* performed that was not allowed and recorded, each verdict is relayed    *)
(* once and in order whenever the runner polls, a handoff is used once,    *)
(* however many scripts record it, and resumed from only where it was      *)
(* attested, no child is left behind, and under GDPR or PIPL nothing       *)
(* personal is filled in or said.                                          *)
(***************************************************************************)
EXTENDS WebRun, PolicyProofs, TLAPS

-----------------------------------------------------------------------------
(* The inductive invariant *)

\* What the actions take apart.
Shape ==
    /\ DOMAIN console = {"at", "resume", "handoff", "runs", "from", "late"}
    /\ DOMAIN superseded = {"at", "handoff"}
    /\ DOMAIN runner = {"at", "offset"}
    /\ DOMAIN child = {"at", "candidate", "event", "repairs", "verdict", "asked", "steps"}
    /\ child.asked \in Nat
    /\ runner.offset \in Nat
    /\ written \in Nat
    /\ relayed \in Seq(Nat)
    /\ \E S : trace \in Seq(S)
    /\ \E S : performed \in Seq(S)

\* A run that is to start is within the bound.
StartsInBound ==
    console.at \in {"recording", "checked", "writing", "recorded", "starting"}
        => console.runs < MaxRuns

\* A record is half written only between the two writes of it, and then is the last one.
HalfWritten ==
    /\ child.at = "flush" => written = 2 * Len(trace) - 1
    /\ child.at # "flush" => written = 2 * Len(trace)

\* What an answer will be made of is what was recorded last.
VerdictIsLast ==
    child.at \in {"flush", "answer"} => Len(trace) > 0 /\ trace[Len(trace)] = child.verdict

\* The agent is asked only where an attempt is left.
AttemptLeft == child.at = "observe" => child.asked <= MaxReplans

\* The records relayed lie below the offset, in order.
RelayedBelow ==
    /\ \A i \in DOMAIN relayed : relayed[i] > 0 /\ 2 * relayed[i] <= runner.offset
    /\ \A i, j \in DOMAIN relayed : i < j => relayed[i] < relayed[j]

\* Every record below the offset was relayed or torn, and one the offset is within is torn.
CompleteBelow ==
    \A l \in DOMAIN trace :
        2 * l - 1 <= runner.offset => l \in torn \/ \E i \in DOMAIN relayed : relayed[i] = l

\* The last read of a run has read everything.
EndIsRead == console.at = "ended" => runner.offset = written

RunInv ==
    /\ TypeOK /\ Shape /\ StartsInBound
    /\ HalfWritten /\ VerdictIsLast /\ PerformedWasAllowed
    /\ AttemptLeft /\ AskedAtMost
    /\ RelayedBelow /\ CompleteBelow /\ EndIsRead
    /\ NoOrphan

-----------------------------------------------------------------------------
(* What reading the trace does *)

\* Halving, which the prover is told about once.
LEMMA Halves ==
    \A n \in Nat : /\ n \div 2 \in Nat
                   /\ 2 * (n \div 2) <= n /\ n <= 2 * (n \div 2) + 1
OBVIOUS

\* The records of a read are consecutive numbers.
LEMMA InOrderNumbers ==
    ASSUME NEW first \in Nat, NEW last \in Nat
    PROVE  LET s == InOrder(first, last)
           IN  /\ s \in Seq(Nat)
               /\ \A i \in DOMAIN s : s[i] = first + i - 1 /\ s[i] \in first .. last
               /\ \A l \in first .. last : \E i \in DOMAIN s : s[i] = l
               /\ \A i, j \in DOMAIN s : i < j => s[i] < s[j]
<1> DEFINE s == InOrder(first, last)
           n == IF last >= first THEN last - first + 1 ELSE 0
<1>1. n \in Nat /\ s = [i \in 1 .. n |-> first + i - 1]
  BY DEF InOrder
<1>2. s \in Seq(Nat) /\ DOMAIN s = 1 .. n
  BY <1>1
<1>3. \A i \in DOMAIN s : s[i] = first + i - 1 /\ s[i] \in first .. last
  BY <1>1, <1>2
<1>4. ASSUME NEW l \in first .. last PROVE \E i \in DOMAIN s : s[i] = l
  <2>1. l - first + 1 \in 1 .. n
    BY <1>1
  <2>2. l - first + 1 \in DOMAIN s /\ s[l - first + 1] = l
    BY <2>1, <1>2, <1>3
  <2> QED BY <2>2
<1>5. \A i, j \in DOMAIN s : i < j => s[i] < s[j]
  BY <1>2, <1>3
<1> QED BY <1>2, <1>3, <1>4, <1>5

\* A read relays what it finds whole, and keeps the order and the account of the rest.
LEMMA ReadKeeps ==
    ASSUME Shape, TypeOK, HalfWritten, RelayedBelow, CompleteBelow, ReadTrace, UNCHANGED <<trace, written>>
    PROVE  /\ runner' = [runner EXCEPT !.offset = written]
           /\ relayed' \in Seq(Nat)
           /\ RelayedBelow' /\ CompleteBelow'
<1> DEFINE first == (runner.offset + 1) \div 2 + 1
           last == written \div 2
           s == InOrder(first, last)
<1>1. /\ runner' = [runner EXCEPT !.offset = written] /\ runner'.offset = written
      /\ relayed' = relayed \o s /\ torn' = torn \cup Partial(written)
      /\ relayed \in Seq(Nat) /\ written \in Nat /\ runner.offset \in Nat
      /\ runner.offset <= written
  BY DEF ReadTrace, NextOffset, Shape, TypeOK
<1>2. /\ first \in Nat /\ last \in Nat
      /\ 2 * last <= written /\ written <= 2 * last + 1
      /\ runner.offset + 1 <= 2 * first - 1 /\ 2 * first - 2 <= runner.offset + 1
  <2> DEFINE half == (runner.offset + 1) \div 2
  <2>1. last \in Nat /\ 2 * last <= written /\ written <= 2 * last + 1
    BY <1>1, Halves
  <2>2. /\ half \in Nat
        /\ 2 * half <= runner.offset + 1 /\ runner.offset + 1 <= 2 * half + 1
    <3>1. runner.offset + 1 \in Nat
      BY <1>1
    <3> QED BY <3>1, Halves
  <2>3. first = half + 1 /\ runner.offset \in Nat
    BY <1>1
  <2> HIDE DEF first, last, half
  <2> QED BY <2>1, <2>2, <2>3
<1> HIDE DEF first, last
<1>3. \A l \in first .. last : l \in Nat /\ l > 0 /\ 2 * l <= written /\ runner.offset < 2 * l
  <2>1. written \in Nat /\ runner.offset \in Nat
    BY <1>1
  <2> QED BY <1>2, <2>1
<1>4. \A l \in Nat : runner.offset < 2 * l - 1 /\ 2 * l <= written => l \in first .. last
  <2>1. written \in Nat /\ runner.offset \in Nat
    BY <1>1
  <2> QED BY <1>2, <2>1
<1>5. /\ s \in Seq(Nat)
      /\ \A i \in DOMAIN s : s[i] \in first .. last
      /\ \A l \in first .. last : \E i \in DOMAIN s : s[i] = l
      /\ \A i, j \in DOMAIN s : i < j => s[i] < s[j]
  BY <1>2, InOrderNumbers
<1> HIDE DEF s
<1>6. /\ relayed' \in Seq(Nat) /\ Len(relayed) \in Nat /\ Len(s) \in Nat
      /\ DOMAIN relayed = 1 .. Len(relayed) /\ DOMAIN s = 1 .. Len(s)
      /\ DOMAIN relayed' = 1 .. Len(relayed) + Len(s)
      /\ \A i \in DOMAIN relayed : relayed'[i] = relayed[i]
      /\ \A i \in 1 .. Len(s) : relayed'[Len(relayed) + i] = s[i]
      /\ \A i \in DOMAIN relayed' : i \notin DOMAIN relayed =>
            i - Len(relayed) \in DOMAIN s /\ relayed'[i] = s[i - Len(relayed)]
  BY <1>1, <1>5
<1>7. RelayedBelow'
  <2>1. ASSUME NEW i \in DOMAIN relayed'
        PROVE  relayed'[i] > 0 /\ 2 * relayed'[i] <= written
    <3>1. CASE i \in DOMAIN relayed
      <4>1. relayed[i] \in Nat /\ relayed[i] > 0 /\ 2 * relayed[i] <= runner.offset
        BY <3>1, <1>1 DEF RelayedBelow
      <4> QED BY <4>1, <3>1, <1>1, <1>6
    <3>2. CASE i \notin DOMAIN relayed
      <4>1. relayed'[i] \in first .. last
        BY <3>2, <1>5, <1>6
      <4> QED BY <4>1, <1>3
    <3> QED BY <3>1, <3>2
  <2>2. ASSUME NEW i \in DOMAIN relayed', NEW j \in DOMAIN relayed', i < j
        PROVE  relayed'[i] < relayed'[j]
    <3>1. CASE j \in DOMAIN relayed
      <4>1. i \in DOMAIN relayed
        BY <3>1, <2>2, <1>6
      <4> QED BY <4>1, <3>1, <2>2, <1>6 DEF RelayedBelow
    <3>2. CASE i \in DOMAIN relayed /\ j \notin DOMAIN relayed
      <4>1. relayed[i] \in Nat /\ 2 * relayed[i] <= runner.offset /\ relayed'[i] = relayed[i]
        BY <3>2, <1>1, <1>6 DEF RelayedBelow
      <4>2. relayed'[j] \in first .. last
        BY <3>2, <1>5, <1>6
      <4>3. relayed'[j] \in Nat /\ runner.offset < 2 * relayed'[j]
        BY <4>2, <1>3
      <4>4. runner.offset \in Nat
        BY <1>1
      <4> QED BY <4>1, <4>3, <4>4
    <3>3. CASE i \notin DOMAIN relayed /\ j \notin DOMAIN relayed
      <4>1. /\ i - Len(relayed) \in DOMAIN s /\ j - Len(relayed) \in DOMAIN s
            /\ relayed'[i] = s[i - Len(relayed)] /\ relayed'[j] = s[j - Len(relayed)]
            /\ i - Len(relayed) < j - Len(relayed)
        BY <3>3, <2>2, <1>6
      <4> QED BY <4>1, <1>5
    <3> QED BY <3>1, <3>2, <3>3, <2>2, <1>6
  <2> QED BY <2>1, <2>2, <1>1 DEF RelayedBelow
<1>8. CompleteBelow'
  <2> SUFFICES ASSUME NEW l \in DOMAIN trace, 2 * l - 1 <= written
               PROVE  l \in torn' \/ \E i \in DOMAIN relayed' : relayed'[i] = l
    BY <1>1 DEF CompleteBelow
  <2>1. l \in Nat /\ l > 0
    BY DEF Shape
  <2>2. CASE 2 * l - 1 <= runner.offset
    <3>1. l \in torn \/ \E i \in DOMAIN relayed : relayed[i] = l
      BY <2>2 DEF CompleteBelow
    <3>2. torn \subseteq torn' /\ DOMAIN relayed \subseteq DOMAIN relayed'
      BY <1>1, <1>6
    <3> QED BY <3>1, <3>2, <1>6
  <2>3. CASE runner.offset < 2 * l - 1 /\ 2 * l <= written
    <3>1. l \in first .. last
      BY <2>1, <2>3, <1>4
    <3>2. PICK i \in 1 .. Len(s) : s[i] = l
      BY <3>1, <1>5, <1>6
    <3>3. Len(relayed) + i \in DOMAIN relayed' /\ relayed'[Len(relayed) + i] = l
      BY <3>2, <1>6
    <3> QED BY <3>3
  <2>4. CASE runner.offset < 2 * l - 1 /\ 2 * l - 1 = written
    BY <2>1, <2>4, <1>1 DEF Partial
  <2>5. \/ 2 * l - 1 <= runner.offset
        \/ runner.offset < 2 * l - 1 /\ 2 * l <= written
        \/ runner.offset < 2 * l - 1 /\ 2 * l - 1 = written
    <3>1. l \in Nat /\ runner.offset \in Nat /\ written \in Nat /\ 2 * l - 1 <= written
      BY <2>1, <1>1
    <3> QED BY <3>1
  <2> QED BY <2>2, <2>3, <2>4, <2>5
<1> QED BY <1>1, <1>6, <1>7, <1>8

-----------------------------------------------------------------------------
(* The console *)

ConsoleFields == {"at", "resume", "handoff", "runs", "from", "late"}
ChildFields == {"at", "candidate", "event", "repairs", "verdict", "asked", "steps"}

ScriptLabels == {"idle", "recording", "checked", "writing", "recorded", "refused", "starting"}

\* What a step of the script alone has to show.
LEMMA ScriptKeeps ==
    ASSUME RunInv, UNCHANGED <<runner, relayed, torn, processes>>,
           DOMAIN console' = ConsoleFields,
           console'.at \in ScriptLabels \/ console'.at = console.at,
           console'.at = "running" \/ ~Alive,
           console'.runs \in 0 .. MaxRuns, console'.late \in BOOLEAN, StartsInBound',
           DOMAIN superseded' = {"at", "handoff"},
           superseded'.at \in {"none", "recording", "checked", "writing"}
    PROVE  RunInv'
<1> USE DEF RunInv
<1>1. TypeOK'
  BY DEF TypeOK, processes, ScriptLabels
<1>2. Shape'
  BY DEF Shape, processes, ConsoleFields
<1>3. HalfWritten' /\ VerdictIsLast' /\ PerformedWasAllowed' /\ AttemptLeft' /\ AskedAtMost'
  BY DEF HalfWritten, VerdictIsLast, PerformedWasAllowed, AttemptLeft, AskedAtMost, processes
<1>4. RelayedBelow' /\ CompleteBelow' /\ EndIsRead'
  BY DEF RelayedBelow, CompleteBelow, EndIsRead, processes, ScriptLabels
<1>5. NoOrphan'
  BY DEF NoOrphan, Alive, processes
<1> QED BY <1>1, <1>2, <1>3, <1>4, <1>5

\* The console between two scripts, and a script that does not exist.
LEMMA IdleConsole ==
    ASSUME RunInv
    PROVE  /\ DOMAIN Idle = ConsoleFields
           /\ Idle.at = "idle" /\ Idle.from = None /\ Idle.late = FALSE
           /\ Idle.runs = console.runs /\ Idle.resume = console.resume
           /\ DOMAIN NoScript = {"at", "handoff"} /\ NoScript.at = "none"
           /\ NoScript.handoff = None
BY DEF RunInv, Shape, Idle, NoScript, ConsoleFields

\* Where the console is not running there is no child.
LEMMA Launching ==
    ASSUME RunInv, Launch \/ RecordCompletion \/ ForgetResume \/ ScriptInterrupted
                    \/ StartFails \/ ConfirmHandoff \/ HandoffExpires
                    \/ SupersededRecords \/ Supersede \/ ServerEnds
    PROVE  RunInv'
<1>1. /\ DOMAIN console = ConsoleFields /\ console.runs \in 0 .. MaxRuns /\ MaxRuns \in Nat
      /\ console.late \in BOOLEAN
      /\ console.at # "running" => ~Alive
      /\ DOMAIN superseded = {"at", "handoff"}
      /\ superseded.at \in {"none", "recording", "checked", "writing"}
      /\ StartsInBound
  BY WebRunAssumption DEF RunInv, Shape, TypeOK, NoOrphan, ConsoleFields
<1> USE DEF ConsoleFields, ScriptLabels, StartsInBound, evidence
<1>2. CASE Launch
  <2>1. (console.resume \in expired) \in BOOLEAN
    OBVIOUS
  <2> QED BY <1>1, <1>2, <2>1, ScriptKeeps DEF Launch
<1>3. CASE RecordCompletion
  <2>1. PICK next \in {"checked", "writing", "recorded", "refused"} :
            /\ Recording(console.at, console.from, next)
            /\ console' = [console EXCEPT !.at = next]
    BY <1>3 DEF RecordCompletion
  <2>2. /\ console.at \in {"recording", "checked", "writing"}
        /\ UNCHANGED <<superseded, runner, relayed, torn, processes>>
    BY <1>3, <2>1 DEF RecordCompletion, Recording
  <2> QED BY <1>1, <2>1, <2>2, ScriptKeeps
<1>4. CASE ForgetResume
  <2>1. console.at \in {"recorded", "refused"}
    BY <1>4 DEF ForgetResume
  <2>2. CASE console.at = "recorded"
    <3>1. console' = [[console EXCEPT !.at = "starting"] EXCEPT !.resume = None]
      BY <1>4, <2>2 DEF ForgetResume, AfterRecord
    <3>2. /\ DOMAIN console' = ConsoleFields /\ console'.at = "starting"
          /\ console'.runs = console.runs /\ console'.late = console.late
      BY <1>1, <3>1
    <3> QED BY <1>1, <1>4, <2>2, <3>2, ScriptKeeps DEF ForgetResume
  <2>3. CASE console.at = "refused"
    <3>1. console' = [Idle EXCEPT !.resume = None]
      BY <1>4, <2>3 DEF ForgetResume, AfterRecord
    <3> QED BY <1>1, <1>4, <2>3, <3>1, IdleConsole, ScriptKeeps DEF ForgetResume
  <2> QED BY <2>1, <2>2, <2>3
<1>5. CASE ScriptInterrupted
  <2>1. console' = Idle \/ console' = [Idle EXCEPT !.handoff = None]
    BY <1>5 DEF ScriptInterrupted
  <2> QED BY <1>1, <1>5, <2>1, IdleConsole, ScriptKeeps DEF ScriptInterrupted
<1>6. CASE StartFails
  <2>1. console.runs + 1 \in 0 .. MaxRuns
    BY <1>1, <1>6 DEF StartFails
  <2>2. console' = [Idle EXCEPT !.handoff = None, !.runs = Idle.runs + 1]
    BY <1>6 DEF StartFails
  <2>3. /\ DOMAIN console' = ConsoleFields /\ console'.at = "idle"
        /\ console'.runs = console.runs + 1 /\ console'.late = FALSE
    BY <2>2, IdleConsole
  <2> QED BY <1>1, <1>6, <2>1, <2>3, ScriptKeeps DEF StartFails
<1>7. CASE ConfirmHandoff
  BY <1>1, <1>7, ScriptKeeps DEF ConfirmHandoff
<1>8. CASE HandoffExpires
  BY <1>1, <1>8, ScriptKeeps DEF HandoffExpires
<1>9. CASE SupersededRecords
  <2>1. PICK next \in {"checked", "writing", "recorded", "refused"} :
            superseded' = IF next \in {"recorded", "refused"} THEN NoScript
                          ELSE [superseded EXCEPT !.at = next]
    BY <1>9 DEF SupersededRecords
  <2>2. /\ DOMAIN superseded' = {"at", "handoff"}
        /\ superseded'.at \in {"none", "recording", "checked", "writing"}
    BY <1>1, <2>1, IdleConsole
  <2> QED BY <1>1, <1>9, <2>2, ScriptKeeps DEF SupersededRecords
<1>10. CASE Supersede
  <2>1. /\ DOMAIN superseded' = {"at", "handoff"}
        /\ superseded'.at \in {"none", "recording", "checked", "writing"}
    BY <1>10 DEF Supersede
  <2> QED BY <1>1, <1>10, <2>1, IdleConsole, ScriptKeeps DEF Supersede
<1>11. CASE ServerEnds
  BY <1>1, <1>11, IdleConsole, ScriptKeeps DEF ServerEnds
<1> QED BY <1>2, <1>3, <1>4, <1>5, <1>6, <1>7, <1>8, <1>9, <1>10, <1>11

\* A run begins, and is left, with nothing read, written or performed.
LEMMA Empty ==
    ASSUME RunInv, UNCHANGED superseded,
           relayed' = <<>>, torn' = {}, trace' = <<>>, written' = 0, performed' = <<>>,
           DOMAIN console' = ConsoleFields, console'.runs \in 0 .. MaxRuns,
           console'.late \in BOOLEAN,
           DOMAIN runner' = {"at", "offset"}, runner'.offset = 0,
           DOMAIN child' = ChildFields, child'.asked = 0, child'.steps = 0,
           runner'.at \in {"none", "polling"},
           \/ child'.at = "none" /\ console'.at = "idle"
           \/ child'.at = "observe" /\ console'.at = "running"
    PROVE  RunInv'
<1>1. MaxReplans \in Nat
  BY WebRunAssumption
<1>2. /\ trace' \in Seq({}) /\ performed' \in Seq({}) /\ relayed' \in Seq(Nat)
      /\ Len(trace)' = 0 /\ Len(performed)' = 0
      /\ DOMAIN trace' = {} /\ DOMAIN performed' = {} /\ DOMAIN relayed' = {}
  OBVIOUS
<1>3. Shape'
  BY <1>2 DEF RunInv, Shape, ConsoleFields, ChildFields
<1>4. TypeOK'
  BY <1>2 DEF RunInv, TypeOK
<1>5. StartsInBound' /\ HalfWritten' /\ VerdictIsLast' /\ PerformedWasAllowed'
  BY <1>2 DEF StartsInBound, HalfWritten, VerdictIsLast, PerformedWasAllowed
<1>6. AttemptLeft' /\ AskedAtMost'
  BY <1>1 DEF AttemptLeft, AskedAtMost
<1>7. RelayedBelow' /\ CompleteBelow' /\ EndIsRead'
  BY <1>2 DEF RelayedBelow, CompleteBelow, EndIsRead
<1>8. NoOrphan'
  BY DEF NoOrphan, Alive
<1> QED BY <1>3, <1>4, <1>5, <1>6, <1>7, <1>8 DEF RunInv

\* A child that is started has done nothing.
LEMMA NewChild ==
    /\ DOMAIN NoChild = ChildFields /\ NoChild.at = "none"
    /\ NoChild.asked = 0 /\ NoChild.steps = 0
    /\ LET c == [NoChild EXCEPT !.at = "observe"]
       IN  DOMAIN c = ChildFields /\ c.at = "observe" /\ c.asked = 0 /\ c.steps = 0
BY DEF NoChild, ChildFields

\* The console at first.
LEMMA InitRun == Init => RunInv
<1> SUFFICES ASSUME Init PROVE RunInv
  OBVIOUS
<1>1. MaxReplans \in Nat /\ MaxRuns \in Nat
  BY WebRunAssumption
<1>2. /\ trace \in Seq({}) /\ performed \in Seq({}) /\ relayed \in Seq(Nat)
      /\ Len(trace) = 0 /\ Len(performed) = 0
      /\ DOMAIN trace = {} /\ DOMAIN performed = {} /\ DOMAIN relayed = {}
  BY DEF Init
<1>3. /\ console.at = "idle" /\ child.at = "none" /\ child.asked = 0 /\ child.steps = 0
      /\ runner.offset = 0 /\ runner.at = "none" /\ written = 0 /\ console.runs = 0
      /\ console.late = FALSE /\ superseded.at = "none"
  BY DEF Init, NoChild, NoRunner, NoScript
<1>4. Shape
  <2>1. DOMAIN superseded = {"at", "handoff"} /\ DOMAIN runner = {"at", "offset"}
    BY DEF Init, NoScript, NoRunner
  <2>2. DOMAIN console = {"at", "resume", "handoff", "runs", "from", "late"}
    BY DEF Init
  <2>3. DOMAIN child = {"at", "candidate", "event", "repairs", "verdict", "asked", "steps"}
    BY DEF Init, NoChild
  <2> QED BY <1>2, <1>3, <2>1, <2>2, <2>3 DEF Shape
<1>5. TypeOK
  <2>1. console.late \in BOOLEAN
    BY <1>3
  <2>2. /\ console.runs \in 0 .. MaxRuns /\ runner.offset \in 0 .. written
        /\ written \in {2 * Len(trace) - 1, 2 * Len(trace)} /\ child.steps = Len(performed)
    BY <1>1, <1>2, <1>3
  <2> QED BY <1>3, <2>1, <2>2 DEF TypeOK
<1>6. StartsInBound /\ HalfWritten /\ VerdictIsLast /\ PerformedWasAllowed
  BY <1>2, <1>3 DEF StartsInBound, HalfWritten, VerdictIsLast, PerformedWasAllowed
<1>7. AttemptLeft /\ AskedAtMost /\ RelayedBelow /\ CompleteBelow /\ EndIsRead
  BY <1>1, <1>2, <1>3 DEF AttemptLeft, AskedAtMost, RelayedBelow, CompleteBelow, EndIsRead
<1>8. NoOrphan
  BY <1>3 DEF NoOrphan, Alive
<1> QED BY <1>4, <1>5, <1>6, <1>7, <1>8 DEF RunInv

\* A run starts from nothing, with its first attempt left.
LEMMA StartRunKeeps ==
    ASSUME RunInv, StartRun
    PROVE  RunInv'
<1>1. /\ DOMAIN console = ConsoleFields /\ console.runs \in 0 .. MaxRuns
      /\ console.runs < MaxRuns /\ MaxRuns \in Nat
  BY WebRunAssumption DEF RunInv, Shape, TypeOK, StartsInBound, StartRun, ConsoleFields
<1>2. console.runs + 1 \in 0 .. MaxRuns
  BY <1>1
<1>3. console' = [Idle EXCEPT !.at = "running", !.handoff = None, !.runs = Idle.runs + 1]
  BY DEF StartRun
<1>4. /\ DOMAIN console' = ConsoleFields /\ console'.at = "running"
      /\ console'.runs = console.runs + 1 /\ console'.late = FALSE
  BY <1>3, IdleConsole DEF ConsoleFields
<1> QED BY <1>2, <1>4, NewChild, Empty DEF StartRun

\* Leaving a run, whichever way.
LEMMA LeaveRunKeeps ==
    ASSUME RunInv, LeaveRun, UNCHANGED evidence,
           DOMAIN console' = ConsoleFields, console'.runs = console.runs, console'.at = "idle",
           console'.late = console.late
    PROVE  RunInv'
<1>1. NoRunner.at = "none" /\ NoRunner.offset = 0 /\ DOMAIN NoRunner = {"at", "offset"}
  BY DEF NoRunner
<1> QED BY <1>1, NewChild, Empty DEF LeaveRun, RunInv, TypeOK, evidence

\* A run that failed leaves the console idle.
LEMMA RunFailedConsole ==
    ASSUME RunInv, RunFailed
    PROVE  /\ DOMAIN console' = ConsoleFields /\ console'.runs = console.runs
           /\ console'.at = "idle" /\ console'.late = console.late
BY DEF RunInv, Shape, RunFailed, ConsoleFields

-----------------------------------------------------------------------------
(* The runner *)

\* What a read of the trace has to show beside what it relays.
LEMMA ReadTraceKeeps ==
    ASSUME RunInv, ReadTrace, UNCHANGED <<processes, evidence>>,
           UNCHANGED console \/ (~Alive /\ console' = [console EXCEPT !.at = "ended"])
    PROVE  RunInv'
<1> USE DEF RunInv
<1>1. /\ runner' = [runner EXCEPT !.offset = written]
      /\ relayed' \in Seq(Nat) /\ RelayedBelow' /\ CompleteBelow'
  BY ReadKeeps DEF processes
<1>2. /\ DOMAIN console' = ConsoleFields /\ console'.runs = console.runs
      /\ console'.late = console.late
      /\ console'.at \in {console.at, "ended"}
      /\ console'.at = console.at \/ ~Alive
  BY DEF Shape, ConsoleFields
<1>3. runner'.offset = written /\ runner'.at = runner.at /\ DOMAIN runner' = {"at", "offset"}
  BY <1>1 DEF Shape
<1>4. Shape'
  BY <1>1, <1>2, <1>3 DEF Shape, ConsoleFields, processes, evidence
<1>5. TypeOK'
  BY <1>2, <1>3 DEF TypeOK, Shape, processes, evidence
<1>6. StartsInBound' /\ EndIsRead'
  BY <1>2, <1>3 DEF StartsInBound, EndIsRead, processes
<1>7. HalfWritten' /\ VerdictIsLast' /\ PerformedWasAllowed' /\ AttemptLeft' /\ AskedAtMost'
  BY DEF HalfWritten, VerdictIsLast, PerformedWasAllowed, AttemptLeft, AskedAtMost, processes
<1>8. NoOrphan'
  BY <1>2 DEF NoOrphan, Alive, processes
<1> QED BY <1>1, <1>4, <1>5, <1>6, <1>7, <1>8

\* However a poll, a timeout or an exception ends, what was relayed stays in order.
LEMMA RunnerKeeps ==
    ASSUME RunInv, Runner \/ PollRaises \/ CollectResult
    PROVE  RunInv'
<1>1. CASE Poll
  BY <1>1, ReadTraceKeeps DEF Poll
<1>2. CASE ChildEnded
  BY <1>2, ReadTraceKeeps DEF ChildEnded, LastRead
<1>3. CASE TimeOut
  BY <1>3, RunFailedConsole, LeaveRunKeeps DEF TimeOut
<1>4. CASE Reap
  BY <1>4, RunFailedConsole, LeaveRunKeeps DEF Reap
<1>5. CASE CollectResult
  <2>1. /\ DOMAIN console' = ConsoleFields /\ console'.runs = console.runs
        /\ console'.at = "idle" /\ console'.late = console.late
    BY <1>5 DEF CollectResult, RunInv, Shape, ConsoleFields
  <2> QED BY <1>5, <2>1, LeaveRunKeeps DEF CollectResult
<1>6. CASE PollRaises
  <2> USE DEF RunInv
  <2>1. /\ runner'.offset = runner.offset /\ runner'.at \in {"none", "terminating"}
        /\ DOMAIN runner' = {"at", "offset"}
    BY <1>6 DEF PollRaises, Shape
  <2>2. /\ DOMAIN console' = ConsoleFields /\ console'.runs = console.runs
        /\ console'.late = console.late
        /\ console' = console \/ (console'.at = "idle" /\ ~Alive)
    BY <1>6 DEF PollRaises, RunFailed, TerminatesChild, Shape, ConsoleFields
  <2>3. UNCHANGED <<relayed, torn, processes, evidence>>
    BY <1>6 DEF PollRaises
  <2>4. Shape' /\ TypeOK'
    BY <2>1, <2>2, <2>3 DEF Shape, TypeOK, ConsoleFields, processes, evidence
  <2>5. StartsInBound' /\ EndIsRead' /\ NoOrphan'
    BY <2>1, <2>2, <2>3 DEF StartsInBound, EndIsRead, NoOrphan, Alive, processes
  <2>6. HalfWritten' /\ VerdictIsLast' /\ PerformedWasAllowed' /\ AttemptLeft' /\ AskedAtMost'
    BY <2>3 DEF HalfWritten, VerdictIsLast, PerformedWasAllowed, AttemptLeft, AskedAtMost,
                processes
  <2>7. RelayedBelow' /\ CompleteBelow'
    BY <2>1, <2>3 DEF RelayedBelow, CompleteBelow, processes
  <2> QED BY <2>4, <2>5, <2>6, <2>7
<1> QED BY <1>1, <1>2, <1>3, <1>4, <1>5, <1>6 DEF Runner

-----------------------------------------------------------------------------
(* The child *)

\* What a step of the child leaves alone.
LEMMA ChildFrame ==
    ASSUME RunInv, Alive, Parent, DOMAIN child' = ChildFields, child'.asked \in Nat,
           child'.at \in {"observe", "verify", "record", "flush", "answer", "stepped",
                         "exited", "failed"},
           written' \in {2 * Len(trace') - 1, 2 * Len(trace')},
           written' \in Nat, written <= written', child'.steps = Len(performed'),
           (\E S : trace' \in Seq(S)) /\ (\E S : performed' \in Seq(S)),
           HalfWritten', VerdictIsLast', PerformedWasAllowed', AttemptLeft', AskedAtMost',
           CompleteBelow'
    PROVE  RunInv'
<1> USE DEF RunInv, Parent
<1>1. console.at = "running" /\ console' = console /\ runner' = runner
  BY DEF NoOrphan
<1>2. Shape'
  BY <1>1 DEF Shape, ChildFields, evidence
<1>3. TypeOK'
  <2>1. runner.offset \in 0 .. written /\ written \in Nat
    BY DEF TypeOK, Shape
  <2>2. runner'.offset \in 0 .. written'
    BY <1>1, <2>1
  <2> QED BY <1>1, <2>2 DEF TypeOK, evidence
<1>4. StartsInBound' /\ EndIsRead' /\ RelayedBelow' /\ NoOrphan'
  BY <1>1 DEF StartsInBound, EndIsRead, RelayedBelow, NoOrphan
<1> QED BY <1>2, <1>3, <1>4

\* A step that only thinks: nothing is recorded or performed.
LEMMA ChildThinks ==
    ASSUME RunInv, Alive, Parent, UNCHANGED <<trace, written, performed>>,
           DOMAIN child' = ChildFields, child'.asked \in Nat, child'.asked <= MaxReplans + 1,
           child.at # "flush", child'.steps = child.steps,
           child'.at \in {"observe", "verify", "record", "exited", "failed"},
           child'.at = "observe" => child'.asked <= MaxReplans
    PROVE  RunInv'
<1>1. HalfWritten' /\ VerdictIsLast'
  BY DEF RunInv, HalfWritten, VerdictIsLast
<1>2. PerformedWasAllowed' /\ CompleteBelow'
  BY DEF RunInv, PerformedWasAllowed, CompleteBelow, Parent
<1>3. AttemptLeft' /\ AskedAtMost'
  BY DEF AttemptLeft, AskedAtMost
<1>4. /\ written' \in {2 * Len(trace') - 1, 2 * Len(trace')} /\ written' \in Nat
      /\ written <= written' /\ child'.steps = Len(performed')
      /\ (\E S : trace' \in Seq(S)) /\ (\E S : performed' \in Seq(S))
  BY DEF RunInv, TypeOK, Shape
<1> QED BY <1>1, <1>2, <1>3, <1>4, ChildFrame

\* An attempt is counted where the agent is asked.
LEMMA ThinkingKeeps ==
    ASSUME RunInv, GetAction \/ VerifyAction \/ NextObservation \/ ChildFails
    PROVE  RunInv'
<1>1. /\ DOMAIN child = ChildFields /\ child.asked \in Nat /\ child.asked <= MaxReplans + 1
      /\ child.at = "observe" => child.asked <= MaxReplans
      /\ MaxReplans \in Nat
  BY WebRunAssumption DEF RunInv, Shape, AttemptLeft, AskedAtMost, ChildFields
<1>2. CASE GetAction
  <2>1. /\ DOMAIN child' = ChildFields /\ child'.asked = child.asked + 1
        /\ child'.at \in {"verify", "record"} /\ child'.steps = child.steps
    <3> PICK candidate \in Candidates : Proposes(candidate)
      BY <1>2 DEF GetAction
    <3>1. CASE candidate.kind \in DOMAIN ActionEvents
      <4>1. \E e : child' = [child EXCEPT !.at = "verify", !.candidate = candidate,
                                        !.event = e, !.repairs = 0, !.asked = @ + 1]
        BY <3>1 DEF Proposes
      <4> QED BY <4>1, <1>1 DEF ChildFields
    <3>2. CASE candidate.kind \notin DOMAIN ActionEvents
      <4>1. \E v : child' = [child EXCEPT !.at = "record", !.candidate = candidate,
                                        !.asked = @ + 1, !.verdict = v]
        BY <3>2 DEF Proposes
      <4> QED BY <4>1, <1>1 DEF ChildFields
    <3> QED BY <3>1, <3>2
  <2>2. Alive /\ child.at = "observe"
    BY <1>2 DEF GetAction, ChildAt, Alive
  <2> QED BY <1>1, <1>2, <2>1, <2>2, ChildThinks DEF GetAction
<1>3. CASE VerifyAction
  <2>1. /\ DOMAIN child' = ChildFields /\ child'.asked = child.asked
        /\ child'.at \in {"verify", "record"} /\ child'.steps = child.steps
    BY <1>1, <1>3 DEF VerifyAction, ChildAt, ChildFields
  <2>2. Alive /\ child.at = "verify"
    BY <1>3 DEF VerifyAction, ChildAt, Alive
  <2> QED BY <1>1, <1>3, <2>1, <2>2, ChildThinks DEF VerifyAction
<1>4. CASE NextObservation
  <2>1. /\ DOMAIN child' = ChildFields /\ child'.asked \in {0, child.asked}
        /\ child'.at \in {"observe", "exited"} /\ child'.steps = child.steps
        /\ child'.at = "observe" => child'.asked = 0
    BY <1>1, <1>4 DEF NextObservation, ChildFields
  <2>2. Alive /\ child.at = "stepped"
    BY <1>4 DEF NextObservation, ChildAt, Alive
  <2> QED BY <1>1, <1>4, <2>1, <2>2, ChildThinks DEF NextObservation
<1>5. CASE ChildFails
  <2>1. /\ DOMAIN child' = ChildFields /\ child'.asked = child.asked
        /\ child'.at = "failed" /\ child'.steps = child.steps
    BY <1>1, <1>5 DEF ChildFails, ChildFields
  <2>2. Alive /\ child.at # "flush"
    BY <1>5 DEF ChildFails, Alive
  <2> QED BY <1>1, <1>5, <2>1, <2>2, ChildThinks DEF ChildFails
<1> QED BY <1>2, <1>3, <1>4, <1>5

\* Appending keeps what there is and adds one.
LEMMA Appending ==
    ASSUME NEW S, NEW s \in Seq(S), NEW e
    PROVE  /\ Len(s) \in Nat /\ DOMAIN s = 1 .. Len(s)
           /\ Append(s, e) \in Seq(S \cup {e})
           /\ Len(Append(s, e)) = Len(s) + 1
           /\ DOMAIN Append(s, e) = 1 .. Len(s) + 1
           /\ Append(s, e)[Len(s) + 1] = e
           /\ \A i \in 1 .. Len(s) : Append(s, e)[i] = s[i]
<1> DEFINE T == S \cup {e}
<1>1. s \in Seq(T) /\ e \in T
  OBVIOUS
<1> HIDE DEF T
<1>2. /\ Append(s, e) \in Seq(T) /\ Len(s) \in Nat /\ DOMAIN s = 1 .. Len(s)
      /\ Len(Append(s, e)) = Len(s) + 1
      /\ DOMAIN Append(s, e) = 1 .. Len(s) + 1
      /\ Append(s, e)[Len(s) + 1] = e
      /\ \A i \in 1 .. Len(s) : Append(s, e)[i] = s[i]
  BY <1>1
<1> QED BY <1>2 DEF T

\* The first half of a record: it is the last one and not yet relayed.
LEMMA RecordVerdictKeeps ==
    ASSUME RunInv, RecordVerdict
    PROVE  RunInv'
<1>1. /\ child.at = "record" /\ Alive /\ Parent /\ performed' = performed
      /\ trace' = Append(trace, child.verdict) /\ written' = written + 1
  BY DEF RecordVerdict, ChildAt, Alive
<1>2. /\ DOMAIN child' = ChildFields /\ child'.asked = child.asked /\ child'.at = "flush"
      /\ child'.steps = child.steps /\ child'.verdict = child.verdict
  BY DEF RecordVerdict, RunInv, Shape, ChildFields
<1>3. /\ Len(trace) \in Nat /\ DOMAIN trace = 1 .. Len(trace) /\ \E S : trace' \in Seq(S)
      /\ Len(trace') = Len(trace) + 1 /\ DOMAIN trace' = 1 .. Len(trace) + 1
      /\ trace'[Len(trace) + 1] = child.verdict
      /\ \A i \in 1 .. Len(trace) : trace'[i] = trace[i]
  <2> PICK S : trace \in Seq(S)
    BY DEF RunInv, Shape
  <2>1. /\ Len(trace) \in Nat /\ DOMAIN trace = 1 .. Len(trace)
        /\ Append(trace, child.verdict) \in Seq(S \cup {child.verdict})
        /\ Len(Append(trace, child.verdict)) = Len(trace) + 1
        /\ DOMAIN Append(trace, child.verdict) = 1 .. Len(trace) + 1
        /\ Append(trace, child.verdict)[Len(trace) + 1] = child.verdict
        /\ \A i \in 1 .. Len(trace) : Append(trace, child.verdict)[i] = trace[i]
    BY Appending
  <2> QED BY <1>1, <2>1
<1>4. /\ written = 2 * Len(trace) /\ runner.offset <= written /\ runner.offset \in Nat
      /\ runner' = runner /\ relayed' = relayed /\ torn' = torn
  BY <1>1 DEF RunInv, HalfWritten, TypeOK, Shape, Parent
<1>5. HalfWritten' /\ VerdictIsLast'
  BY <1>1, <1>2, <1>3, <1>4 DEF HalfWritten, VerdictIsLast
<1>6. PerformedWasAllowed'
  BY <1>1, <1>3 DEF RunInv, PerformedWasAllowed
<1>7. AttemptLeft' /\ AskedAtMost' /\ child'.asked \in Nat /\ child'.steps = Len(performed')
  BY <1>1, <1>2 DEF RunInv, AttemptLeft, AskedAtMost, Shape, TypeOK
<1>8. CompleteBelow'
  <2> SUFFICES ASSUME NEW l \in DOMAIN trace', 2 * l - 1 <= runner.offset
               PROVE  l \in torn \/ \E i \in DOMAIN relayed : relayed[i] = l
    BY <1>4 DEF CompleteBelow
  <2>1. l \in DOMAIN trace
    BY <1>3, <1>4
  <2> QED BY <2>1 DEF RunInv, CompleteBelow
<1>9. /\ written' \in {2 * Len(trace') - 1, 2 * Len(trace')}
      /\ written' \in Nat /\ written <= written'
  BY <1>1, <1>3, <1>4
<1> QED BY <1>1, <1>2, <1>3, <1>5, <1>6, <1>7, <1>8, <1>9, ChildFrame DEF RunInv, Shape

\* The second half makes it whole.
LEMMA FlushVerdictKeeps ==
    ASSUME RunInv, FlushVerdict
    PROVE  RunInv'
<1>1. /\ child.at = "flush" /\ Alive /\ Parent /\ UNCHANGED <<trace, performed>>
      /\ written' = written + 1
  BY DEF FlushVerdict, ChildAt, Alive
<1>2. /\ DOMAIN child' = ChildFields /\ child'.asked = child.asked /\ child'.at = "answer"
      /\ child'.steps = child.steps /\ child'.verdict = child.verdict
  BY DEF FlushVerdict, RunInv, Shape, ChildFields
<1>3. written = 2 * Len(trace) - 1 /\ written \in Nat /\ Len(trace) \in Nat
  BY <1>1 DEF RunInv, HalfWritten, Shape
<1>4. HalfWritten' /\ VerdictIsLast'
  BY <1>1, <1>2, <1>3 DEF RunInv, HalfWritten, VerdictIsLast
<1>5. PerformedWasAllowed' /\ CompleteBelow'
  BY <1>1 DEF RunInv, PerformedWasAllowed, CompleteBelow, Parent
<1>6. AttemptLeft' /\ AskedAtMost' /\ child'.asked \in Nat /\ child'.steps = Len(performed')
  BY <1>1, <1>2 DEF RunInv, AttemptLeft, AskedAtMost, Shape, TypeOK
<1>7. /\ written' \in {2 * Len(trace') - 1, 2 * Len(trace')}
      /\ written' \in Nat /\ written <= written'
  BY <1>1, <1>3
<1> QED BY <1>1, <1>2, <1>4, <1>5, <1>6, <1>7, ChildFrame DEF RunInv, Shape

\* What is performed is what the last record allows.
LEMMA AnswerActionKeeps ==
    ASSUME RunInv, AnswerAction
    PROVE  RunInv'
<1>1. child.at = "answer" /\ Alive /\ Parent /\ UNCHANGED <<trace, written>>
  BY DEF AnswerAction, ChildAt, Alive
<1>2. /\ DOMAIN child = ChildFields /\ child.asked \in Nat /\ MaxReplans \in Nat
      /\ child.asked <= MaxReplans + 1
      /\ written = 2 * Len(trace) /\ written \in Nat
      /\ Len(trace) > 0 /\ trace[Len(trace)] = child.verdict
      /\ child.steps = Len(performed)
  BY <1>1, WebRunAssumption DEF RunInv, Shape, AskedAtMost, HalfWritten, VerdictIsLast, TypeOK,
                                ChildFields
<1>3. CASE Replans(child.verdict) /\ child' = [child EXCEPT !.at = "observe"]
           /\ UNCHANGED performed
  <2>1. /\ DOMAIN child' = ChildFields /\ child'.asked = child.asked
        /\ child'.at = "observe" /\ child'.steps = child.steps
    BY <1>2, <1>3 DEF ChildFields
  <2>2. child.asked <= MaxReplans
    BY <1>3 DEF Replans
  <2> QED BY <1>1, <1>2, <1>3, <2>1, <2>2, ChildThinks
<1>4. CASE /\ performed' = Append(performed, Answer(child.verdict))
           /\ child' = [child EXCEPT !.at = "stepped", !.steps = @ + 1]
  <2> DEFINE answer == Answer(child.verdict)
  <2>1. /\ DOMAIN child' = ChildFields /\ child'.asked = child.asked
        /\ child'.at = "stepped" /\ child'.steps = child.steps + 1
    BY <1>2, <1>4 DEF ChildFields
  <2>2. /\ Len(performed) \in Nat /\ DOMAIN performed = 1 .. Len(performed)
        /\ \E S : performed' \in Seq(S)
        /\ Len(performed') = Len(performed) + 1
        /\ DOMAIN performed' = 1 .. Len(performed) + 1
        /\ performed'[Len(performed) + 1] = answer
        /\ \A i \in 1 .. Len(performed) : performed'[i] = performed[i]
    <3> HIDE DEF answer
    <3> PICK S : performed \in Seq(S)
      BY DEF RunInv, Shape
    <3>1. /\ Len(performed) \in Nat /\ DOMAIN performed = 1 .. Len(performed)
          /\ Append(performed, answer) \in Seq(S \cup {answer})
          /\ Len(Append(performed, answer)) = Len(performed) + 1
          /\ DOMAIN Append(performed, answer) = 1 .. Len(performed) + 1
          /\ Append(performed, answer)[Len(performed) + 1] = answer
          /\ \A i \in 1 .. Len(performed) : Append(performed, answer)[i] = performed[i]
      BY Appending
    <3>2. performed' = Append(performed, answer)
      BY <1>4 DEF answer
    <3> QED BY <3>1, <3>2
  <2>3. answer.candidate # None =>
            /\ answer.line = Len(trace) /\ child.verdict.allowed
            /\ child.verdict.candidate = answer.candidate
    BY DEF Answer, Step
  <2>4. Len(trace) \in DOMAIN trace
    BY <1>2 DEF RunInv, Shape
  <2>5. PerformedWasAllowed'
    <3> SUFFICES ASSUME NEW i \in DOMAIN performed', performed'[i].candidate # None
                 PROVE  /\ performed'[i].line \in DOMAIN trace
                        /\ trace[performed'[i].line].allowed
                        /\ trace[performed'[i].line].candidate = performed'[i].candidate
      BY <1>1 DEF PerformedWasAllowed
    <3>1. CASE i \in DOMAIN performed
      BY <3>1, <2>2 DEF RunInv, PerformedWasAllowed
    <3>2. CASE i = Len(performed) + 1
      BY <3>2, <1>2, <2>2, <2>3, <2>4
    <3> QED BY <3>1, <3>2, <2>2
  <2>6. HalfWritten' /\ VerdictIsLast' /\ AttemptLeft' /\ AskedAtMost' /\ CompleteBelow'
    BY <1>1, <1>2, <2>1 DEF RunInv, HalfWritten, VerdictIsLast, AttemptLeft, AskedAtMost,
                            CompleteBelow, Parent
  <2>7. /\ written' \in {2 * Len(trace') - 1, 2 * Len(trace')} /\ written <= written'
        /\ written' \in Nat /\ child'.steps = Len(performed') /\ \E S : trace' \in Seq(S)
    BY <1>1, <1>2, <2>1, <2>2 DEF RunInv, Shape
  <2> QED BY <1>1, <1>2, <2>1, <2>2, <2>5, <2>6, <2>7, ChildFrame
<1> QED BY <1>3, <1>4 DEF AnswerAction

-----------------------------------------------------------------------------
(* The properties *)

\* Every step of console, runner and child keeps the invariant.
LEMMA NextKeeps == RunInv /\ [Next]_vars => RunInv'
<1> SUFFICES ASSUME RunInv, [Next]_vars PROVE RunInv'
  OBVIOUS
<1>1. CASE UNCHANGED vars
  BY <1>1 DEF vars, processes, evidence, RunInv, TypeOK, Shape, StartsInBound, HalfWritten,
              VerdictIsLast, PerformedWasAllowed, AttemptLeft, AskedAtMost, RelayedBelow,
              CompleteBelow, EndIsRead, NoOrphan, Alive
<1>2. CASE Next
  <2>1. CASE StartRun
    BY <2>1, StartRunKeeps
  <2>2. CASE Child
    BY <2>2, ThinkingKeeps, RecordVerdictKeeps, FlushVerdictKeeps, AnswerActionKeeps DEF Child
  <2> QED BY <1>2, <2>1, <2>2, Launching, RunnerKeeps DEF Next, Script
<1> QED BY <1>1, <1>2

\* The invariant holds of every behaviour.
LEMMA Invariance == Spec => []RunInv
BY InitRun, NextKeeps, PTL DEF Spec

\* What is below the offset is the whole trace once the run has ended.
LEMMA RelayFollows == RunInv => RelayedInOrder /\ RelayIsComplete
<1> SUFFICES ASSUME RunInv PROVE RelayedInOrder /\ RelayIsComplete
  OBVIOUS
<1>1. RelayedInOrder
  <2>1. ASSUME NEW i \in DOMAIN relayed PROVE 2 * relayed[i] <= written
    <3>1. /\ relayed[i] \in Nat /\ 2 * relayed[i] <= runner.offset
          /\ runner.offset \in 0 .. written /\ written \in Nat
      BY DEF RunInv, Shape, RelayedBelow, TypeOK
    <3> QED BY <3>1
  <2> QED BY <2>1 DEF RunInv, RelayedBelow, RelayedInOrder
<1>2. RelayIsComplete
  <2> SUFFICES ASSUME console.at = "ended", NEW l \in DOMAIN trace
               PROVE  l \in torn \/ \E i \in DOMAIN relayed : relayed[i] = l
    BY DEF RelayIsComplete
  <2>1. child.at # "flush"
    BY DEF RunInv, NoOrphan, Alive
  <2>2. /\ runner.offset = 2 * Len(trace) /\ Len(trace) \in Nat
        /\ DOMAIN trace = 1 .. Len(trace)
    BY <2>1 DEF RunInv, EndIsRead, HalfWritten, Shape
  <2>3. 2 * l - 1 <= runner.offset
    BY <2>2
  <2> QED BY <2>3 DEF RunInv, CompleteBelow
<1> QED BY <1>1, <1>2

\* The types of a run and of the two ends of its trace (AWMWebArenaRunner.run).
THEOREM TypeCorrect == Spec => []TypeOK
BY Invariance, PTL DEF RunInv

\* The environment is given no candidate but the one its own last record allows
\* (ShieldedBrowserAgent.get_action).
THEOREM PerformedWasAllowedHolds == Spec => []PerformedWasAllowed
BY Invariance, PTL DEF RunInv

\* A step asks the agent at most max_replans times again (ShieldedBrowserAgent.get_action).
THEOREM AskedAtMostHolds == Spec => []AskedAtMost
BY Invariance, PTL DEF RunInv

\* Each verdict is relayed at most once, in order and whole (_emit_trace_updates).
THEOREM RelayedInOrderHolds == Spec => []RelayedInOrder
BY Invariance, RelayFollows, PTL

\* When the child has ended every record but the torn ones was relayed, whenever the runner
\* polled (_emit_trace_updates and the last read of AWMWebArenaRunner.run).
THEOREM RelayIsCompleteHolds == Spec => []RelayIsComplete
BY Invariance, RelayFollows, PTL

\* No child acts once the console is no longer running (AWMWebArenaRunner.run).
THEOREM NoOrphanHolds == Spec => []NoOrphan
BY Invariance, PTL DEF RunInv
-----------------------------------------------------------------------------
(* What a handoff is good for *)

Attested(handoff) == \E k \in DOMAIN attested : attested[k] = handoff
Resumed(handoff) == \E i \in DOMAIN resumed : resumed[i].handoff = handoff

\* A script that writes a completion has created its file, and is the only one to do so.
Owns(at, handoff) == at = "writing" => handoff \in files /\ ~Attested(handoff)
OwnFiles ==
    /\ Owns(console.at, console.from)
    /\ Owns(superseded.at, superseded.handoff)
    /\ ~(console.at = "writing" /\ superseded.at = "writing"
            /\ console.from = superseded.handoff)

\* The script has a handoff recorded, or goes on from one.
GoesOn == console.at = "recorded" \/ (console.at = "starting" /\ console.from # None)

\* Such a script has its completion on file, and no run has been started from it yet.
Earned == GoesOn => Attested(console.from) /\ ~Resumed(console.from)

\* A script that began too late is refused when it looks at the half hour.
BeganInTime ==
    /\ console.at = "recording" /\ console.late => console.from \in expired
    /\ console.at \in {"checked", "writing"} \/ GoesOn => console.late = FALSE

HandoffInv ==
    /\ attested \in Seq(files)
    /\ \E S : resumed \in Seq(S)
    /\ UsedOnce
    /\ ResumedOnEvidence
    /\ OwnFiles
    /\ Earned
    /\ BeganInTime

\* Before the first run nothing is recorded.
LEMMA InitHandoff == Init => HandoffInv
<1> SUFFICES ASSUME Init PROVE HandoffInv
  OBVIOUS
<1>1. /\ attested = <<>> /\ resumed = <<>>
      /\ console.at = "idle" /\ superseded.at = "none"
  BY DEF Init, NoScript
<1>2. /\ attested \in Seq(files) /\ resumed \in Seq({})
      /\ DOMAIN attested = {} /\ DOMAIN resumed = {}
  BY <1>1
<1> QED BY <1>1, <1>2 DEF HandoffInv, UsedOnce, ResumedOnEvidence, OwnFiles, Owns, Earned,
                          GoesOn, BeganInTime

\* A step outside the record: nothing is written, and the script stays where it is or ends.
LEMMA OutsideRecord ==
    ASSUME HandoffInv, UNCHANGED <<files, attested, resumed>>,
           superseded' = superseded \/ superseded'.at = "none",
           \/ console'.at \in {"idle", "refused", "running", "ended"}
           \/ /\ console'.at = console.at /\ console'.from = console.from
              /\ console'.late = console.late,
           expired \subseteq expired'
    PROVE  HandoffInv'
<1>1. attested' \in Seq(files') /\ (\E S : resumed' \in Seq(S)) /\ UsedOnce' /\ ResumedOnEvidence'
  BY DEF HandoffInv, UsedOnce, ResumedOnEvidence
<1>2. OwnFiles'
  BY DEF HandoffInv, OwnFiles, Owns, Attested
<1>3. Earned'
  BY DEF HandoffInv, Earned, GoesOn, Attested, Resumed
<1>4. BeganInTime'
  BY DEF HandoffInv, BeganInTime, GoesOn
<1> QED BY <1>1, <1>2, <1>3, <1>4 DEF HandoffInv

\* A completion is written of a handoff that was not attested before.
LEMMA AttestOnce ==
    ASSUME HandoffInv, NEW handoff, handoff \in files, ~Attested(handoff),
           attested' = Append(attested, handoff), UNCHANGED <<files, resumed>>
    PROVE  /\ attested' \in Seq(files')
           /\ UsedOnce' /\ ResumedOnEvidence'
           /\ \A h : Attested(h)' <=> Attested(h) \/ h = handoff
           /\ ~Resumed(handoff)
<1>1. /\ attested \in Seq(files) /\ Len(attested) \in Nat
      /\ DOMAIN attested = 1 .. Len(attested)
      /\ DOMAIN attested' = 1 .. Len(attested) + 1
      /\ \A k \in DOMAIN attested : attested'[k] = attested[k]
      /\ attested'[Len(attested) + 1] = handoff
      /\ attested' \in Seq(files')
  BY DEF HandoffInv
<1>2. \A h : Attested(h)' <=> Attested(h) \/ h = handoff
  BY <1>1 DEF Attested
<1>3. UsedOnce'
  <2> SUFFICES ASSUME NEW i \in DOMAIN attested', NEW j \in DOMAIN attested',
                      attested'[i] = attested'[j]
               PROVE  i = j
    BY DEF UsedOnce
  <2>1. CASE i \in DOMAIN attested /\ j \in DOMAIN attested
    BY <2>1, <1>1 DEF HandoffInv, UsedOnce
  <2>2. CASE i \in DOMAIN attested /\ j = Len(attested) + 1
    BY <2>2, <1>1 DEF Attested
  <2>3. CASE i = Len(attested) + 1 /\ j \in DOMAIN attested
    BY <2>3, <1>1 DEF Attested
  <2>4. CASE i = Len(attested) + 1 /\ j = Len(attested) + 1
    BY <2>4
  <2> QED BY <1>1, <2>1, <2>2, <2>3, <2>4
<1>4. ResumedOnEvidence'
  <2>1. \A i \in DOMAIN resumed : \E k \in DOMAIN attested' : attested'[k] = resumed[i].handoff
    BY <1>1 DEF HandoffInv, ResumedOnEvidence
  <2> QED BY <2>1 DEF HandoffInv, ResumedOnEvidence
<1>5. ~Resumed(handoff)
  BY DEF HandoffInv, ResumedOnEvidence, Resumed, Attested
<1> QED BY <1>1, <1>2, <1>3, <1>4, <1>5

\* What a step of a record does to the files and to what is attested.
LEMMA RecordingWrites ==
    ASSUME HandoffInv, NEW at, NEW handoff, NEW next, Owns(at, handoff),
           Recording(at, handoff, next), UNCHANGED resumed
    PROVE  /\ files \subseteq files'
           /\ attested' \in Seq(files') /\ UsedOnce' /\ ResumedOnEvidence'
           /\ \A h : Attested(h) => Attested(h)'
           /\ \A h : Attested(h)' => Attested(h) \/ (h = handoff /\ at = "writing")
           /\ next = "writing" => handoff \in files' /\ handoff \notin files
           /\ next = "recorded" => Attested(handoff)' /\ ~Resumed(handoff)
<1>1. CASE at = "writing" /\ next = "recorded"
  <2>1. attested' = Append(attested, handoff) /\ files' = files
    BY <1>1 DEF Recording
  <2>2. handoff \in files /\ ~Attested(handoff)
    BY <1>1 DEF Owns
  <2> QED BY <1>1, <2>1, <2>2, AttestOnce
<1>2. CASE ~(at = "writing" /\ next = "recorded")
  <2>1. attested' = attested /\ files \subseteq files' /\ next # "recorded"
    BY <1>2 DEF Recording
  <2>2. attested' \in Seq(files') /\ UsedOnce' /\ ResumedOnEvidence'
    <3>1. attested' \in Seq(files')
      BY <2>1 DEF HandoffInv
    <3> QED BY <2>1, <3>1 DEF HandoffInv, UsedOnce, ResumedOnEvidence
  <2>3. \A h : Attested(h)' <=> Attested(h)
    BY <2>1 DEF Attested
  <2>4. next = "writing" => handoff \in files' /\ handoff \notin files
    BY DEF Recording, Creates
  <2> QED BY <2>1, <2>2, <2>3, <2>4
<1> QED BY <1>1, <1>2

\* What has no file is not attested.
LEMMA NoFileNoEvidence ==
    ASSUME HandoffInv, NEW handoff, handoff \notin files
    PROVE  ~Attested(handoff)
BY DEF HandoffInv, Attested

\* The script under way takes a step of its record.
LEMMA RecordCompletionKeeps ==
    ASSUME RunInv, HandoffInv, RecordCompletion
    PROVE  HandoffInv'
<1>1. PICK next \in {"checked", "writing", "recorded", "refused"} :
          /\ Recording(console.at, console.from, next)
          /\ console' = [console EXCEPT !.at = next]
  BY DEF RecordCompletion
<1>2. /\ console'.at = next /\ console'.from = console.from /\ console'.late = console.late
      /\ UNCHANGED <<superseded, expired, resumed>>
      /\ console.at \in {"recording", "checked", "writing"}
      /\ next = "checked" => console.at = "recording" /\ console.from \notin expired
      /\ next = "writing" => console.at = "checked"
      /\ next = "recorded" => console.at = "writing"
  BY <1>1 DEF RecordCompletion, RunInv, Shape, Recording, handoff_valid
<1>3. Owns(console.at, console.from) /\ Owns(superseded.at, superseded.handoff)
  BY DEF HandoffInv, OwnFiles
<1>4. /\ files \subseteq files'
      /\ attested' \in Seq(files') /\ UsedOnce' /\ ResumedOnEvidence'
      /\ \A h : Attested(h)' => Attested(h) \/ (h = console.from /\ console.at = "writing")
      /\ next = "writing" => console.from \in files' /\ console.from \notin files
      /\ next = "recorded" => Attested(console.from)' /\ ~Resumed(console.from)
  BY <1>1, <1>2, <1>3, RecordingWrites
<1>5. OwnFiles'
  <2>1. Owns(superseded.at, superseded.handoff)'
    <3> SUFFICES ASSUME superseded.at = "writing"
                 PROVE  superseded.handoff \in files' /\ ~Attested(superseded.handoff)'
      BY <1>2 DEF Owns
    <3>1. superseded.handoff \in files /\ ~Attested(superseded.handoff)
      BY <1>3 DEF Owns
    <3>2. ~(superseded.handoff = console.from /\ console.at = "writing")
      BY DEF HandoffInv, OwnFiles
    <3> QED BY <1>2, <1>4, <3>1, <3>2 DEF Attested
  <2>2. CASE next = "writing"
    <3>1. ~Attested(console.from)
      BY <1>4, <2>2, NoFileNoEvidence
    <3>2. Owns(console.at, console.from)'
      BY <1>2, <1>4, <2>2, <3>1 DEF Owns
    <3>3. superseded.at = "writing" => superseded.handoff # console.from
      BY <1>3, <1>4, <2>2 DEF Owns
    <3> QED BY <1>2, <2>1, <3>2, <3>3 DEF OwnFiles
  <2>3. CASE next # "writing"
    BY <1>2, <2>1, <2>3 DEF OwnFiles, Owns
  <2> QED BY <2>2, <2>3
<1>6. Earned'
  BY <1>2, <1>4 DEF Earned, GoesOn, Resumed
<1>7. BeganInTime'
  <2>1. console.late \in BOOLEAN
    BY DEF RunInv, TypeOK
  <2>2. next = "checked" => ~console.late
    BY <1>2 DEF HandoffInv, BeganInTime
  <2>3. console.at \in {"checked", "writing"} => console.late = FALSE
    BY DEF HandoffInv, BeganInTime
  <2>4. next \in {"checked", "writing", "recorded"} => console.late = FALSE
    BY <1>2, <2>1, <2>2, <2>3
  <2> QED BY <1>1, <1>2, <2>4 DEF BeganInTime, GoesOn
<1>8. \E S : resumed' \in Seq(S)
  BY <1>2 DEF HandoffInv
<1> QED BY <1>4, <1>5, <1>6, <1>7, <1>8 DEF HandoffInv

\* A superseded script takes a step of its record, beside whatever the console does.
LEMMA SupersededRecordsKeeps ==
    ASSUME RunInv, HandoffInv, SupersededRecords
    PROVE  HandoffInv'
<1>1. PICK next \in {"checked", "writing", "recorded", "refused"} :
          /\ Recording(superseded.at, superseded.handoff, next)
          /\ superseded' = IF next \in {"recorded", "refused"} THEN NoScript
                           ELSE [superseded EXCEPT !.at = next]
  BY DEF SupersededRecords
<1>2. /\ next \in {"recorded", "refused"} => superseded'.at = "none"
      /\ next \in {"checked", "writing"} =>
            superseded'.at = next /\ superseded'.handoff = superseded.handoff
      /\ UNCHANGED <<console, expired, resumed>>
      /\ superseded.at \in {"recording", "checked", "writing"}
  BY <1>1 DEF SupersededRecords, RunInv, Shape, Recording, NoScript
<1>3. Owns(console.at, console.from) /\ Owns(superseded.at, superseded.handoff)
  BY DEF HandoffInv, OwnFiles
<1>4. /\ files \subseteq files'
      /\ attested' \in Seq(files') /\ UsedOnce' /\ ResumedOnEvidence'
      /\ \A h : Attested(h) => Attested(h)'
      /\ \A h : Attested(h)' => Attested(h) \/ (h = superseded.handoff /\ superseded.at = "writing")
      /\ next = "writing" => superseded.handoff \in files' /\ superseded.handoff \notin files
  BY <1>1, <1>2, <1>3, RecordingWrites
<1>5. OwnFiles'
  <2>1. Owns(console.at, console.from)'
    <3> SUFFICES ASSUME console.at = "writing"
                 PROVE  console.from \in files' /\ ~Attested(console.from)'
      BY <1>2 DEF Owns
    <3>1. console.from \in files /\ ~Attested(console.from)
      BY <1>3 DEF Owns
    <3>2. ~(superseded.handoff = console.from /\ superseded.at = "writing")
      BY DEF HandoffInv, OwnFiles
    <3> QED BY <1>2, <1>4, <3>1, <3>2 DEF Attested
  <2>2. CASE next = "writing"
    <3>1. ~Attested(superseded.handoff) /\ superseded.at # "writing"
      BY <1>1, <1>4, <2>2, NoFileNoEvidence DEF Recording
    <3>2. Owns(superseded.at, superseded.handoff)'
      BY <1>2, <1>4, <2>2, <3>1 DEF Owns
    <3>3. console.at = "writing" => superseded.handoff # console.from
      BY <1>3, <1>4, <2>2 DEF Owns
    <3> QED BY <1>2, <2>1, <2>2, <3>2, <3>3 DEF OwnFiles
  <2>3. CASE next # "writing"
    BY <1>1, <1>2, <2>1, <2>3 DEF OwnFiles, Owns
  <2> QED BY <2>2, <2>3
<1>6. Earned'
  BY <1>2, <1>4 DEF HandoffInv, Earned, GoesOn, Resumed
<1>7. BeganInTime'
  BY <1>2 DEF HandoffInv, BeganInTime, GoesOn
<1>8. \E S : resumed' \in Seq(S)
  BY <1>2 DEF HandoffInv
<1> QED BY <1>4, <1>5, <1>6, <1>7, <1>8 DEF HandoffInv

\* A run that goes on from a handoff is the first one to.
LEMMA StartRunIsEarned ==
    ASSUME RunInv, HandoffInv, StartRun
    PROVE  HandoffInv'
<1>1. /\ UNCHANGED <<superseded, expired, files, attested>>
      /\ console.at = "starting" /\ console'.at = "running"
  BY IdleConsole DEF StartRun, ConsoleFields
<1>2. CASE console.from = None
  <2>1. resumed' = resumed
    BY <1>2 DEF StartRun
  <2> QED BY <1>1, <2>1, OutsideRecord
<1>3. CASE console.from # None
  <2> DEFINE entry == [handoff |-> console.from, late |-> console.late]
  <2>1. resumed' = Append(resumed, entry)
    BY <1>3 DEF StartRun
  <2>2. entry.handoff = console.from /\ ~entry.late
    BY <1>1, <1>3 DEF HandoffInv, BeganInTime, GoesOn
  <2>3. Attested(console.from) /\ ~Resumed(console.from)
    BY <1>1, <1>3 DEF HandoffInv, Earned, GoesOn
  <2>4. PICK S : resumed \in Seq(S)
    BY DEF HandoffInv
  <2> HIDE DEF entry
  <2>5. /\ resumed \in Seq(S \cup {entry}) /\ Len(resumed) \in Nat
        /\ DOMAIN resumed = 1 .. Len(resumed)
    BY <2>4
  <2>6. /\ resumed' \in Seq(S \cup {entry})
        /\ DOMAIN resumed' = 1 .. Len(resumed) + 1
        /\ \A k \in DOMAIN resumed : resumed'[k] = resumed[k]
        /\ resumed'[Len(resumed) + 1] = entry
    BY <2>1, <2>5
  <2>7. ResumedOnEvidence'
    <3>1. ASSUME NEW i \in DOMAIN resumed'
          PROVE  (\E k \in DOMAIN attested : attested[k] = resumed'[i].handoff) /\ ~resumed'[i].late
      <4>1. CASE i \in DOMAIN resumed
        BY <4>1, <2>6 DEF HandoffInv, ResumedOnEvidence
      <4>2. CASE i = Len(resumed) + 1
        BY <4>2, <2>2, <2>3, <2>6 DEF Attested
      <4> QED BY <4>1, <4>2, <2>5, <2>6
    <3>2. ASSUME NEW i \in DOMAIN resumed', NEW j \in DOMAIN resumed',
                 resumed'[i].handoff = resumed'[j].handoff
          PROVE  i = j
      <4>1. CASE i \in DOMAIN resumed /\ j \in DOMAIN resumed
        BY <4>1, <3>2, <2>6 DEF HandoffInv, ResumedOnEvidence
      <4>2. CASE i \in DOMAIN resumed /\ j = Len(resumed) + 1
        BY <4>2, <3>2, <2>2, <2>3, <2>6 DEF Resumed
      <4>3. CASE i = Len(resumed) + 1 /\ j \in DOMAIN resumed
        BY <4>3, <3>2, <2>2, <2>3, <2>6 DEF Resumed
      <4> QED BY <4>1, <4>2, <4>3, <2>5, <2>6
    <3> QED BY <1>1, <3>1, <3>2 DEF ResumedOnEvidence
  <2>8. attested' \in Seq(files') /\ UsedOnce' /\ OwnFiles' /\ Earned' /\ BeganInTime'
    BY <1>1 DEF HandoffInv, UsedOnce, OwnFiles, Owns, Attested, Earned, GoesOn, BeganInTime
  <2> QED BY <2>6, <2>7, <2>8 DEF HandoffInv
<1> QED BY <1>2, <1>3

\* The other steps of the console.
LEMMA ConsoleKeepsHandoffs ==
    ASSUME RunInv, HandoffInv,
           \/ Launch \/ ForgetResume \/ ScriptInterrupted \/ StartFails \/ ConfirmHandoff
           \/ HandoffExpires \/ Supersede \/ ServerEnds
    PROVE  HandoffInv'
<1>1. /\ DOMAIN console = ConsoleFields /\ console.late \in BOOLEAN
      /\ Idle.at = "idle" /\ DOMAIN Idle = ConsoleFields /\ NoScript.at = "none"
  BY IdleConsole DEF RunInv, TypeOK, Shape, ConsoleFields
<1>2. CASE Launch
  <2>1. /\ UNCHANGED <<superseded, expired, files, attested, resumed>>
        /\ console'.at \in {"starting", "recording"}
        /\ console'.at = "starting" => console'.from = None
        /\ console'.at = "recording" /\ console'.late => console'.from \in expired
    BY <1>1, <1>2 DEF Launch, ConsoleFields, evidence
  <2>2. attested' \in Seq(files') /\ (\E S : resumed' \in Seq(S)) /\ UsedOnce' /\ ResumedOnEvidence'
    BY <2>1 DEF HandoffInv, UsedOnce, ResumedOnEvidence
  <2>3. OwnFiles' /\ Earned' /\ BeganInTime'
    BY <2>1 DEF HandoffInv, OwnFiles, Owns, Attested, Earned, GoesOn, BeganInTime
  <2> QED BY <2>2, <2>3 DEF HandoffInv
<1>3. CASE ForgetResume
  <2>1. CASE console.at = "refused"
    <3>1. console'.at = "idle"
      BY <1>1, <1>3, <2>1 DEF ForgetResume, AfterRecord, ConsoleFields
    <3> QED BY <1>3, <3>1, OutsideRecord DEF ForgetResume, evidence
  <2>2. CASE console.at = "recorded"
    <3>1. /\ UNCHANGED <<superseded, expired, files, attested, resumed>>
          /\ console'.at = "starting" /\ console'.from = console.from
          /\ console'.late = console.late
      BY <1>1, <1>3, <2>2 DEF ForgetResume, AfterRecord, ConsoleFields, evidence
    <3>2. attested' \in Seq(files') /\ (\E S : resumed' \in Seq(S)) /\ UsedOnce' /\ ResumedOnEvidence'
      BY <3>1 DEF HandoffInv, UsedOnce, ResumedOnEvidence
    <3>3. OwnFiles' /\ Earned' /\ BeganInTime'
      BY <2>2, <3>1 DEF HandoffInv, OwnFiles, Owns, Attested, Earned, GoesOn, Resumed, BeganInTime
    <3> QED BY <3>2, <3>3 DEF HandoffInv
  <2> QED BY <1>3, <2>1, <2>2 DEF ForgetResume
<1>4. CASE ScriptInterrupted \/ StartFails
  <2>1. console'.at = "idle"
    BY <1>1, <1>4 DEF ScriptInterrupted, StartFails, ConsoleFields
  <2> QED BY <1>4, <2>1, OutsideRecord DEF ScriptInterrupted, StartFails, evidence
<1>5. CASE ConfirmHandoff
  <2>1. console'.at = "idle"
    BY <1>1, <1>5 DEF ConfirmHandoff, ConsoleFields
  <2> QED BY <1>5, <2>1, OutsideRecord DEF ConfirmHandoff, evidence
<1>6. CASE HandoffExpires
  <2>1. expired \subseteq expired'
    BY <1>6 DEF HandoffExpires
  <2> QED BY <1>6, <2>1, OutsideRecord DEF HandoffExpires
<1>7. CASE ServerEnds
  <2>1. console'.at = "idle" /\ superseded'.at = "none"
    BY <1>1, <1>7 DEF ServerEnds, ConsoleFields
  <2> QED BY <1>7, <2>1, OutsideRecord DEF ServerEnds
<1>8. CASE Supersede
  <2>1. /\ UNCHANGED <<expired, files, attested, resumed>>
        /\ console'.at = "idle"
        /\ superseded'.at = console.at /\ superseded'.handoff = console.from
    BY <1>1, <1>8 DEF Supersede
  <2>2. attested' \in Seq(files') /\ (\E S : resumed' \in Seq(S)) /\ UsedOnce' /\ ResumedOnEvidence'
    BY <2>1 DEF HandoffInv, UsedOnce, ResumedOnEvidence
  <2>3. OwnFiles' /\ Earned' /\ BeganInTime'
    BY <2>1 DEF HandoffInv, OwnFiles, Owns, Attested, Earned, GoesOn, BeganInTime
  <2> QED BY <2>2, <2>3 DEF HandoffInv
<1> QED BY <1>2, <1>3, <1>4, <1>5, <1>6, <1>7, <1>8

\* What the runner and the child do is no business of the handoffs.
LEMMA HandoffStep ==
    ASSUME RunInv, HandoffInv, [Next]_vars
    PROVE  HandoffInv'
<1>1. CASE UNCHANGED vars
  BY <1>1, OutsideRecord DEF vars
<1>2. CASE Child
  <2>1. UNCHANGED <<console, evidence>>
    BY <1>2 DEF Child, GetAction, VerifyAction, RecordVerdict, FlushVerdict, AnswerAction,
                NextObservation, ChildFails, Parent
  <2> QED BY <2>1, OutsideRecord DEF evidence
<1>3. CASE Runner \/ PollRaises \/ CollectResult
  <2>1. UNCHANGED evidence
    BY <1>3 DEF Runner, Poll, TimeOut, Reap, ChildEnded, PollRaises, CollectResult
  <2>2. console' = console \/ console'.at \in {"idle", "ended"}
    BY <1>3 DEF Runner, Poll, TimeOut, Reap, ChildEnded, PollRaises, CollectResult, RunFailed,
                RunInv, Shape
  <2> QED BY <2>1, <2>2, OutsideRecord DEF evidence
<1> QED BY <1>1, <1>2, <1>3, RecordCompletionKeeps, SupersededRecordsKeeps, StartRunIsEarned,
           ConsoleKeepsHandoffs DEF Next, Script

LEMMA HandoffInvariance == Spec => []HandoffInv
<1>1. RunInv /\ HandoffInv /\ [Next]_vars => HandoffInv'
  BY HandoffStep
<1> QED BY <1>1, InitHandoff, Invariance, PTL DEF Spec

\* A handoff is attested at most once, however many scripts record it
\* (record_handoff_completion).
THEOREM UsedOnceHolds == Spec => []UsedOnce
BY HandoffInvariance, PTL DEF HandoffInv

\* A run goes on from a handoff only with its completion on file in full, in time, and only
\* once (the resume of dashboard/ui.py).
THEOREM ResumedOnEvidenceHolds == Spec => []ResumedOnEvidence
BY HandoffInvariance, PTL DEF HandoffInv

-----------------------------------------------------------------------------
(* What is filled in or said *)

Spoken(candidate) == candidate.kind \in {"fill", "message"}
Impersonal(body) == Classification(body)[Personal] # "true"

GuardShape ==
    /\ DOMAIN guard = {"state", "sequence", "attempt"}
    /\ StateRecord(guard.state)
    /\ guard.sequence \in Int
    /\ guard.attempt \in Nat

\* The event of a candidate before its first pass brings one object, gives no basis for a
\* disclosure and is of a kind that is always verified.
Proposed(e) ==
    /\ e.type \in {"EXTERNAL_TRANSFER", "RESPONSE_GENERATED"}
    /\ "trust_boundary" \in DOMAIN e.facts
    /\ "has_lawful_basis" \notin DOMAIN e.facts
    /\ e.payload = None
    /\ e.introduces # None
    /\ e.objects = {e.introduces}

\* What is verified is proposed as it is, or nothing personal as a repair left it.
Weighed ==
    child.at = "verify" =>
        /\ EventRecord(child.event)
        /\ child.event.aggregate = None
        /\ DOMAIN child.candidate = {"kind", "body"}
        /\ child.repairs \in Nat
        /\ Spoken(child.candidate) =>
            IF child.repairs = 0 THEN Proposed(child.event) ELSE Impersonal(child.event.body)

\* What was allowed is not personal.
Told ==
    child.at \in {"record", "flush", "answer"} /\ child.verdict.allowed =>
        (Spoken(child.verdict.candidate) => Impersonal(child.verdict.candidate.body))

Discretion == GuardShape /\ Weighed /\ Told /\ NothingPersonalPerformed

\* The packages of a regulated run are compiled from, and one of them asks for a basis.
LEMMA RegulatedIs ==
    ASSUME RegulatedRun
    PROVE  /\ WellFormed(Loaded)
           /\ \E o \in Places(Loaded) :
                /\ RuleAt(Loaded, o).stages = Disclosing
                /\ RuleAt(Loaded, o).applicability = {Is(Personal, "true")}
                /\ RuleAt(Loaded, o).requirements = {Is(Fact("has_lawful_basis"), "true")}
                /\ RuleAt(Loaded, o).intervention = "REQUIRE_APPROVAL"
<1>1. \A o \in Places(Loaded) :
        /\ o[1] \in DOMAIN Loaded /\ o[2] \in DOMAIN Loaded[o[1]].rules
        /\ RuleAt(Loaded, o) = Loaded[o[1]].rules[o[2]]
  BY DEF Places, RuleAt
<1>2. WellFormed(Loaded)
  BY <1>1 DEF RegulatedRun, WellFormed
<1>3. PICK p \in DOMAIN Loaded : Loaded[p] \in {GDPR, PIPL}
  BY DEF RegulatedRun
<1>4. 1 \in DOMAIN Loaded[p].rules
  BY <1>3, BasisRuleIs
<1>5. <<p, 1>> \in Places(Loaded) /\ RuleAt(Loaded, <<p, 1>>) = Loaded[p].rules[1]
  BY <1>4 DEF Places, RuleAt
<1> QED BY <1>2, <1>3, <1>5, BasisRuleIs

\* A proposal that is personal is stopped by its first pass.
LEMMA PersonalIsStopped ==
    ASSUME RegulatedRun, NEW s, StateRecord(s), NEW e, EventRecord(e), Proposed(e),
           ~Impersonal(e.body)
    PROVE  Enforced(Policy, e, s).decision \notin {"ALLOW", "AUDIT_ONLY", "REPAIR"}
<1> DEFINE v == Enforced(Policy, e, s)
           o == e.introduces
<1>1. CASE ApplyRaises(e, s)
  BY <1>1, EnforcedIs
<1>2. CASE ~ApplyRaises(e, s)
  <2>1. v.state.objects = Applied(e, s).objects
    BY <1>2, EnforcedIs
  <2>2. /\ o \in DOMAIN Applied(e, s).objects
        /\ Applied(e, s).objects[o] = DetectInto(Unclassified, e)
    BY <1>2, AppliedIs DEF Proposed, Introduces
  <2>3. Classification(e.body)[Personal] = "true" /\ e.body # "none"
    BY DEF Impersonal, Classification, FieldCategories, PatternCategories, Truth,
           ObjectVariables
  <2>4. DetectInto(Unclassified, e) = Classification(e.body)
    BY <2>3 DEF Proposed, DetectInto
  <2>5. o \in DOMAIN v.state.objects /\ v.state.objects[o][Personal] = "true"
    BY <2>1, <2>2, <2>3, <2>4
  <2>6. PICK q \in Places(Loaded) :
            /\ RuleAt(Loaded, q).stages = Disclosing
            /\ RuleAt(Loaded, q).applicability = {Is(Personal, "true")}
            /\ RuleAt(Loaded, q).requirements = {Is(Fact("has_lawful_basis"), "true")}
            /\ RuleAt(Loaded, q).intervention = "REQUIRE_APPROVAL"
    BY RegulatedIs
  <2>7. Breaks(e, RuleAt(Loaded, q), v.state)
    <3>1. e.type \in RuleAt(Loaded, q).stages
      BY <2>6 DEF Proposed, Disclosing
    <3>2. e.objects = {o} /\ "has_lawful_basis" \notin DOMAIN e.facts
      BY DEF Proposed
    <3> HIDE DEF v, o
    <3> QED BY <2>5, <2>6, <3>1, <3>2, PersonalBreaks
  <2>8. Watched(e, ChangedVariables(e), RuleAt(Loaded, q))
    BY DEF Proposed, Watched, Forced
  <2> QED BY <2>6, <2>7, <2>8, RegulatedIs, PassIsAsStrict DEF Policy
<1> QED BY <1>1, <1>2

\* Redaction and aggregation make nothing personal of what was not.
LEMMA RepairStaysImpersonal ==
    ASSUME NEW e, EventRecord(e), e.aggregate = None, Impersonal(e.body),
           NEW intervention, NEW r \in Intervene(e, intervention)
    PROVE  Impersonal(r.body)
<1>1. r.body \in {redact_payload(e.body), "stub"}
  BY IntervenesIs
<1>2. Impersonal("stub") /\ Impersonal("masked")
  BY DEF Impersonal, Classification, FieldCategories, PatternCategories, Truth, ObjectVariables
<1> QED BY <1>1, <1>2 DEF redact_payload

\* A proposal is an event of the guard's own.
LEMMA ActionEventIs ==
    ASSUME NEW candidate, candidate.kind \in DOMAIN ActionEvents, NEW sequence \in Int,
           NEW object \in ActionObject
    PROVE  LET e == ActionEvent(candidate, sequence, object)
           IN  /\ EventRecord(e) /\ e.aggregate = None
               /\ Spoken(candidate) => Proposed(e)
<1> DEFINE e == ActionEvent(candidate, sequence, object)
           type == ActionEvents[candidate.kind]
           facts == [side_effectful |-> Truth(candidate.kind # "click"),
                     trust_boundary |-> Truth(type # "TOOL_CALL"),
                     recipient_type |-> IF type = "EXTERNAL_TRANSFER" THEN "external"
                                        ELSE "user"]
<1>1. /\ type \in EventTypes
      /\ Spoken(candidate) => type \in {"EXTERNAL_TRANSFER", "RESPONSE_GENERATED"}
  BY DEF ActionEvents, EventTypes, Spoken
<1>2. object # None
  BY ActionObjectAssumption
<1>3. DOMAIN facts = {"side_effectful", "trust_boundary", "recipient_type"}
  OBVIOUS
<1>4. e = [LifecycleEvent(type, sequence) EXCEPT
            !.body = candidate.body, !.objects = {object}, !.introduces = object,
            !.recipient = "page", !.facts = facts]
  BY DEF ActionEvent
<1> HIDE DEF e, type, facts
<1>5. /\ EventRecord(e) /\ e.type = type /\ e.facts = facts /\ e.payload = None
      /\ e.introduces = object /\ e.objects = {object} /\ e.aggregate = None
  BY <1>1, <1>4 DEF LifecycleEvent, EventRecord
<1> QED BY <1>1, <1>2, <1>3, <1>5 DEF Proposed, e

\* The steps of the child that look at what it proposes or was told.
LEMMA GetActionIsDiscreet ==
    ASSUME RunInv, Discretion, GetAction
    PROVE  Discretion'
<1>1. /\ child.at = "observe" /\ UNCHANGED performed
      /\ DOMAIN child = ChildFields
  BY DEF GetAction, ChildAt, RunInv, Shape, ChildFields
<1>2. PICK candidate \in Candidates : Proposes(candidate)
  BY DEF GetAction
<1>3. NothingPersonalPerformed'
  BY <1>1 DEF Discretion, NothingPersonalPerformed
<1>4. CASE candidate.kind \in DOMAIN ActionEvents
  <2> DEFINE e == ActionEvent(candidate, GuardSequence, <<"action", guard.attempt + 1>>)
  <2>1. GuardSequence \in Int /\ <<"action", guard.attempt + 1>> \in ActionObject
    BY DEF Discretion, GuardShape, StateRecord, GuardSequence, ActionObject
  <2>2. EventRecord(e) /\ e.aggregate = None /\ (Spoken(candidate) => Proposed(e))
    BY <1>4, <2>1, ActionEventIs
  <2>3. /\ guard' = [guard EXCEPT !.attempt = @ + 1, !.sequence = GuardSequence]
        /\ child' = [child EXCEPT !.at = "verify", !.candidate = candidate, !.repairs = 0,
                                  !.asked = @ + 1, !.event = e]
    BY <1>2, <1>4 DEF Proposes
  <2> HIDE DEF e
  <2>4. GuardShape'
    BY <2>1, <2>3 DEF Discretion, GuardShape
  <2>5. /\ child'.at = "verify" /\ child'.candidate = candidate /\ child'.repairs = 0
        /\ child'.event = e
    BY <1>1, <2>3 DEF ChildFields
  <2>6. Weighed'
    BY <2>2, <2>5, WebRunAssumption DEF Weighed
  <2>7. Told'
    BY <2>5 DEF Told
  <2> QED BY <1>3, <2>4, <2>6, <2>7 DEF Discretion
<1>5. CASE candidate.kind \notin DOMAIN ActionEvents
  <2>1. /\ child' = [child EXCEPT !.at = "record", !.candidate = candidate, !.asked = @ + 1,
                                  !.verdict = Verdict(FALSE, "REPLAN", None)]
        /\ guard' = guard
    BY <1>2, <1>5 DEF Proposes
  <2>2. child'.at = "record" /\ ~child'.verdict.allowed
    BY <1>1, <2>1 DEF ChildFields, Verdict
  <2> QED BY <1>3, <2>1, <2>2 DEF Discretion, GuardShape, Weighed, Told
<1> QED BY <1>4, <1>5

LEMMA VerifyActionIsDiscreet ==
    ASSUME RegulatedRun, RunInv, Discretion, VerifyAction
    PROVE  Discretion'
<1> DEFINE e == child.event
           v == Enforced(Policy, e, guard.state)
           candidate == child.candidate
<1>1. /\ child.at = "verify" /\ UNCHANGED performed
      /\ guard' = [guard EXCEPT !.state = v.state]
      /\ DOMAIN child = ChildFields
  BY DEF VerifyAction, ChildAt, RunInv, Shape, ChildFields
<1>2. /\ EventRecord(e) /\ e.aggregate = None /\ DOMAIN candidate = {"kind", "body"}
      /\ child.repairs \in Nat
      /\ Spoken(candidate) =>
            IF child.repairs = 0 THEN Proposed(e) ELSE Impersonal(e.body)
      /\ DOMAIN guard = {"state", "sequence", "attempt"} /\ StateRecord(guard.state)
  BY <1>1 DEF Discretion, Weighed, GuardShape
<1>3. GuardShape'
  <2>1. StateRecord(v.state)
    BY <1>2, EnforcedIs
  <2> HIDE DEF v
  <2> QED BY <1>1, <2>1 DEF Discretion, GuardShape
<1>4. NothingPersonalPerformed'
  BY <1>1 DEF Discretion, NothingPersonalPerformed
<1>5. Spoken(candidate) /\ v.decision \in {"ALLOW", "AUDIT_ONLY", "REPAIR"} => Impersonal(e.body)
  BY <1>2, PersonalIsStopped
<1>6. CASE \E r \in Continues(e, v, child.repairs) :
            child' = [child EXCEPT !.event = r, !.repairs = @ + 1]
  <2> PICK r \in Continues(e, v, child.repairs) :
            child' = [child EXCEPT !.event = r, !.repairs = @ + 1]
    BY <1>6
  <2>1. v.decision = "REPAIR" /\ r \in Intervene(e, v.intervention)
    BY DEF Continues
  <2> HIDE DEF e, v, candidate
  <2>2. EventRecord(r) /\ r.aggregate = None
    BY <1>2, <2>1, IntervenesIs
  <2>3. Spoken(candidate) => Impersonal(r.body)
    BY <1>2, <1>5, <2>1, RepairStaysImpersonal
  <2>4. /\ child'.at = "verify" /\ child'.event = r /\ child'.repairs = child.repairs + 1
        /\ child'.candidate = candidate
    BY <1>1 DEF ChildFields, candidate
  <2>5. Weighed'
    BY <1>2, <2>2, <2>3, <2>4 DEF Weighed
  <2>6. Told'
    BY <2>4 DEF Told
  <2> QED BY <1>3, <1>4, <2>5, <2>6 DEF Discretion
<1>7. CASE \E decision, handoff, is_action :
            child' = [child EXCEPT !.at = "record",
                        !.verdict = Verdict(Allowed(Outcome(v)) /\ is_action, decision, handoff)]
  <2> PICK decision, handoff, is_action :
            child' = [child EXCEPT !.at = "record",
                        !.verdict = Verdict(Allowed(Outcome(v)) /\ is_action, decision, handoff)]
    BY <1>7
  <2> DEFINE verdict == Verdict(Allowed(Outcome(v)) /\ is_action, decision, handoff)
  <2>1. child'.at = "record" /\ child'.verdict = verdict
    BY <1>1 DEF ChildFields
  <2>2. Weighed'
    BY <2>1 DEF Weighed
  <2>3. verdict.allowed => Allowed(Outcome(v))
                           /\ verdict.candidate = [candidate EXCEPT !.body = e.body]
    BY DEF Verdict
  <2>4. Allowed(Outcome(v)) => v.decision \in {"ALLOW", "AUDIT_ONLY"}
    BY DEF Allowed, Outcome
  <2> HIDE DEF verdict, v, e, candidate
  <2>5. verdict.allowed => verdict.candidate.kind = candidate.kind
                           /\ verdict.candidate.body = e.body
    BY <1>2, <2>3
  <2>6. Told'
    BY <1>5, <2>1, <2>3, <2>4, <2>5 DEF Told, Spoken
  <2> QED BY <1>3, <1>4, <2>2, <2>6 DEF Discretion
<1> QED BY <1>6, <1>7 DEF VerifyAction

\* What is answered was recorded as allowed, and is not personal if it is spoken.
LEMMA AnswerActionIsDiscreet ==
    ASSUME RunInv, Discretion, AnswerAction
    PROVE  Discretion'
<1>1. child.at = "answer" /\ UNCHANGED guard /\ DOMAIN child = ChildFields
  BY DEF AnswerAction, ChildAt, RunInv, Shape, ChildFields
<1>2. child'.at \in {"observe", "stepped"}
  BY <1>1 DEF AnswerAction, ChildFields
<1>3. GuardShape' /\ Weighed' /\ Told'
  BY <1>1, <1>2 DEF Discretion, GuardShape, Weighed, Told
<1>4. NothingPersonalPerformed'
  <2>1. CASE UNCHANGED performed
    BY <2>1 DEF Discretion, NothingPersonalPerformed
  <2>2. CASE performed' = Append(performed, Answer(child.verdict))
    <3> DEFINE answer == Answer(child.verdict)
    <3>1. answer.candidate # None => child.verdict.allowed /\ answer.candidate = child.verdict.candidate
      BY DEF Answer, Step
    <3>2. answer.candidate # None /\ Spoken(answer.candidate) => Impersonal(answer.candidate.body)
      BY <1>1, <3>1 DEF Discretion, Told
    <3> HIDE DEF answer
    <3> PICK S : performed \in Seq(S)
      BY DEF RunInv, Shape
    <3>3. /\ DOMAIN performed' = 1 .. Len(performed) + 1 /\ Len(performed) \in Nat
          /\ DOMAIN performed = 1 .. Len(performed)
          /\ performed'[Len(performed) + 1] = answer
          /\ \A i \in 1 .. Len(performed) : performed'[i] = performed[i]
      BY <2>2, Appending DEF answer
    <3> SUFFICES ASSUME NEW i \in DOMAIN performed', performed'[i].candidate # None,
                        Spoken(performed'[i].candidate)
                 PROVE  Impersonal(performed'[i].candidate.body)
      BY DEF NothingPersonalPerformed, Spoken, Impersonal
    <3>4. CASE i \in DOMAIN performed
      BY <3>3, <3>4 DEF Discretion, NothingPersonalPerformed, Spoken, Impersonal
    <3>5. CASE i = Len(performed) + 1
      BY <3>2, <3>3, <3>5
    <3> QED BY <3>3, <3>4, <3>5
  <2> QED BY <2>1, <2>2 DEF AnswerAction
<1> QED BY <1>3, <1>4 DEF Discretion

\* The other steps neither propose nor perform anything.
LEMMA NextIsDiscreet == RegulatedRun /\ RunInv /\ Discretion /\ [Next]_vars => Discretion'
<1> SUFFICES ASSUME RegulatedRun, RunInv, Discretion, [Next]_vars PROVE Discretion'
  OBVIOUS
<1>1. ASSUME UNCHANGED <<guard, performed>>,
             \/ UNCHANGED child
             \/ child'.at \in {"observe", "exited", "failed"}
             \/ child.at \in {"record", "flush"} /\ child'.verdict = child.verdict
                /\ child'.at \in {"flush", "answer"}
      PROVE  Discretion'
  BY <1>1 DEF Discretion, GuardShape, Weighed, Told, NothingPersonalPerformed
<1>2. ASSUME guard' = FreshGuard, performed' = <<>>, child'.at \in {"none", "observe"}
      PROVE  Discretion'
  <2>1. DOMAIN <<>> = {}
    OBVIOUS
  <2>2. NothingPersonalPerformed' /\ Weighed' /\ Told'
    BY <1>2, <2>1 DEF NothingPersonalPerformed, Weighed, Told
  <2>3. GuardShape'
    BY <1>2 DEF GuardShape, FreshGuard, ComplianceState, StateRecord
  <2> QED BY <2>2, <2>3 DEF Discretion
<1>3. DOMAIN child = ChildFields
  BY DEF RunInv, Shape, ChildFields
<1>4. CASE UNCHANGED processes
  BY <1>1, <1>4 DEF processes
<1>5. CASE StartRun \/ LeaveRun
  BY <1>2, <1>5, NewChild DEF StartRun, LeaveRun
<1>6. CASE GetAction \/ VerifyAction \/ AnswerAction
  BY <1>6, GetActionIsDiscreet, VerifyActionIsDiscreet, AnswerActionIsDiscreet
<1>7. CASE RecordVerdict \/ FlushVerdict
  BY <1>1, <1>3, <1>7 DEF RecordVerdict, FlushVerdict, ChildAt, ChildFields
<1>8. CASE NextObservation \/ ChildFails
  BY <1>1, <1>3, <1>8 DEF NextObservation, ChildFails, ChildFields
<1>9. CASE UNCHANGED vars
  BY <1>4, <1>9 DEF vars, processes
<1>10. CASE \/ Script \/ ScriptInterrupted \/ StartFails \/ ConfirmHandoff \/ HandoffExpires
            \/ SupersededRecords \/ Supersede \/ ServerEnds
  BY <1>4, <1>5, <1>10 DEF Script, Launch, RecordCompletion, ForgetResume, CollectResult,
        ScriptInterrupted, StartFails, ConfirmHandoff, HandoffExpires, SupersededRecords,
        Supersede, ServerEnds
<1>11. CASE Runner \/ PollRaises
  BY <1>4, <1>5, <1>11 DEF Runner, Poll, TimeOut, Reap, ChildEnded, PollRaises
<1> QED BY <1>6, <1>7, <1>8, <1>9, <1>10, <1>11 DEF Next, Child

\* Under one of the bundled regulations nothing personal is filled in or said, for any
\* candidates, other packages and number of repairs and replans (BrowserActionGuard.verify).
THEOREM NothingPersonal == ASSUME RegulatedRun PROVE Spec => []NothingPersonalPerformed
<1>1. Init => Discretion
  <2> SUFFICES ASSUME Init PROVE Discretion
    OBVIOUS
  <2>1. child.at = "none" /\ guard = FreshGuard /\ performed = <<>>
    BY NewChild DEF Init
  <2>2. DOMAIN <<>> = {}
    OBVIOUS
  <2>3. GuardShape
    BY <2>1 DEF GuardShape, FreshGuard, ComplianceState, StateRecord
  <2> QED BY <2>1, <2>2, <2>3 DEF Discretion, Weighed, Told, NothingPersonalPerformed
<1>2. RunInv /\ Discretion /\ [Next]_vars => Discretion'
  BY NextIsDiscreet
<1>3. Discretion => NothingPersonalPerformed
  BY DEF Discretion
<1> QED BY <1>1, <1>2, <1>3, Invariance, PTL DEF Spec
=============================================================================
