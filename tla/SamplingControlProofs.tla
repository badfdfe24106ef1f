------------------------- MODULE SamplingControlProofs -------------------------
(***************************************************************************)
(* Proved for every order of sensors, any subset of which is ready: the    *)
(* types, that what is marked as sampled has a thread or is about to get   *)
(* one, and that a patient user is safe; and for the program of the thesis *)
(* that it implements this one and closes its sockets.                     *)
(***************************************************************************)
EXTENDS UploadSampling, SequenceTheorems, TLAPS

(* The list of a command shrinks from the front.                           *)
LEMMA TailOfList ==
    ASSUME NEW S, NEW q \in Seq(S), q # << >>
    PROVE  /\ Head(q) \in S /\ Tail(q) \in Seq(S)
           /\ Len(q) # 1 => Tail(q) # << >>
<1>1. Head(q) \in S /\ Tail(q) \in Seq(S) /\ Len(Tail(q)) = Len(q) - 1
  BY HeadTailProperties
<1>2. Len(q) \in Nat
  OBVIOUS
<1>3. ASSUME Tail(q) = << >> PROVE Len(q) = 1
  <2>1. Len(Tail(q)) = 0 /\ Len(Tail(q)) = Len(q) - 1
    BY <1>1, <1>3
  <2>2. ASSUME NEW n \in Nat, NEW l, l = 0, l = n - 1 PROVE n = 1
    BY <2>2
  <2> QED
    BY <2>1, <2>2, <1>2
<1> QED
  BY <1>1, <1>3

(* Order lists sensors only, and ToClear is a list of flags.               *)
LEMMA OrderIsOfSensors == /\ Order \in Seq(Sensors) /\ Sensors \subseteq Flags
                          /\ \A did \in Flags : ToClear(did) \in Seq(Flags) \ {<< >>}
<1>1. Order \in Seq(Sensors) /\ Sensors \subseteq Flags
  BY OrderAssumption DEF Flags
<1>2. Order \in Seq(Flags)
  BY <1>1
<1>3. Append(Order, "all") \in Seq(Flags) /\ Append(Order, "all") # << >>
  BY <1>2 DEF Flags
<1>4. ASSUME NEW did \in Flags PROVE <<did>> \in Seq(Flags) \ {<< >>}
  OBVIOUS
<1> QED
  BY <1>1, <1>3, <1>4 DEF ToClear

(* Creating threads does not change the types.                             *)
LEMMA CreateType ==
    ASSUME TypeOK, NEW these \in SUBSET Sensors,
           NEW entry \in {"none", "one", "mag", "all"}, NEW did \in {"buffer", "literal"},
           Create(these, entry, did)
    PROVE  /\ sensor' \in [Sensors -> {"none", "ready", "asleep"}]
           /\ reporter' \in [entry: {"none", "one", "mag", "all"},
                             did: {"buffer", "literal"}, at: {"ready", "asleep"}]
           /\ health' \in {"sane", "reused", "contended"}
  BY DEF TypeOK, Create, threadVars

(* Where the command is after a step of its own.                           *)
LEMMA GotoType ==
    ASSUME ShellOK, NEW step \in Steps, NEW todo \in Seq(Flags), Goto(step, todo),
           shell.op = "start" => todo \in Seq(Sensors),
           step \in {"markOne", "create", "clear"} => todo # << >>
    PROVE  ShellOK'
<1>1. /\ shell'.op = shell.op /\ shell'.did = shell.did
      /\ shell'.step = step /\ shell'.todo = todo
  BY DEF ShellOK, Goto
<1>2. shell' \in [op: {"idle", "start", "stop", "rate"}, did: Flags, step: Steps,
                  todo: Seq(Flags)]
  BY DEF ShellOK, Goto
<1> QED
  BY <1>1, <1>2 DEF ShellOK

LEMMA IdleType == shell' = Idle => ShellOK'
  BY DEF ShellOK, Idle, Flags, Steps

LEMMA InitType == Init => TypeOK
  BY DEF Init, TypeOK, ShellOK, Steps, Idle, NoReporter, Flags

LEMMA StepType == TypeOK /\ [Next]_vars => TypeOK'
<1> SUFFICES ASSUME TypeOK, [Next]_vars PROVE TypeOK'
  OBVIOUS
<1> USE DEF history
<1>s. Sensors \subseteq Flags /\ "all" \in Flags
  BY DEF Flags
<1>1. CASE Typing
  BY <1>1 DEF Typing, TypeOK, ShellOK, threadVars
<1>2. ASSUME NEW op \in {"start", "stop", "rate"}, NEW did \in Flags, CmdCall(op, did)
      PROVE TypeOK'
  BY <1>2 DEF CmdCall, Asks, TypeOK, ShellOK, Steps, threadVars
<1>e. << >> \in Seq(Flags) /\ << >> \in Seq(Sensors)
  OBVIOUS
<1>3. CASE CmdStartCheck
  <2>1. ShellOK'
    BY <1>3, <1>e, IdleType, GotoType DEF CmdStartCheck, TypeOK, Steps
  <2> QED
    BY <1>3, <2>1 DEF CmdStartCheck, TypeOK, threadVars
<1>4. CASE CmdStartMark
  <2>1. shell.did \in Flags
    BY DEF TypeOK, ShellOK
  <2>2. shell.did # "all" => <<shell.did>> \in Seq(Sensors)
    BY <2>1 DEF Flags
  <2>3. Order \in Seq(Flags) /\ Order \in Seq(Sensors) /\ <<shell.did>> \in Seq(Flags)
    BY <2>1, <1>s, OrderIsOfSensors
  <2>4. ShellOK'
    <3>1. CASE shell.did = "all"
      BY <1>4, <3>1, <2>3, GotoType DEF CmdStartMark, TypeOK, Steps
    <3>2. CASE shell.did # "all"
      BY <1>4, <3>2, <2>2, <2>3, GotoType DEF CmdStartMark, TypeOK, Steps
    <3> QED
      BY <3>1, <3>2
  <2> QED
    BY <1>4, <2>1, <2>4 DEF CmdStartMark, TypeOK, threadVars
<1>5. CASE CmdStartTest
  <2>1. shell.todo \in Seq(Sensors) /\ shell.todo \in Seq(Flags)
    BY <1>5 DEF CmdStartTest, At, TypeOK, ShellOK
  <2>2. shell.todo # << >> => /\ Tail(shell.todo) \in Seq(Sensors)
                              /\ Tail(shell.todo) \in Seq(Flags)
    BY <2>1, TailOfList
  <2>3. \/ Goto("report", << >>)
        \/ shell.todo # << >> /\ Goto("test", Tail(shell.todo))
        \/ shell.todo # << >> /\ Goto("markOne", shell.todo)
    BY <1>5 DEF CmdStartTest
  <2>4. ShellOK'
    BY <2>1, <2>2, <2>3, <1>e, GotoType DEF TypeOK, Steps
  <2> QED
    BY <1>5, <2>4 DEF CmdStartTest, TypeOK, threadVars
<1>6. CASE CmdStartMarkOne
  <2>1. shell.todo \in Seq(Sensors) /\ shell.todo \in Seq(Flags) /\ shell.todo # << >>
    BY <1>6 DEF CmdStartMarkOne, At, TypeOK, ShellOK
  <2>2. ShellOK'
    BY <1>6, <2>1, GotoType DEF CmdStartMarkOne, TypeOK, Steps
  <2>3. Head(shell.todo) \in Flags
    BY <2>1, TailOfList
  <2> QED
    BY <1>6, <2>2, <2>3 DEF CmdStartMarkOne, TypeOK, threadVars
<1>7. CASE CmdStartCreate
  <2>1. shell.todo \in Seq(Sensors) /\ shell.todo \in Seq(Flags) /\ shell.todo # << >>
    BY <1>7 DEF CmdStartCreate, At, TypeOK, ShellOK
  <2>2. /\ Head(shell.todo) \in Sensors
        /\ Tail(shell.todo) \in Seq(Sensors) /\ Tail(shell.todo) \in Seq(Flags)
    BY <2>1, TailOfList
  <2>3. ShellOK'
    BY <1>7, <2>2, <1>e, GotoType DEF CmdStartCreate, TypeOK, Steps
  <2>4. Create({Head(shell.todo)}, "none", "buffer")
    BY <1>7 DEF CmdStartCreate
  <2> QED
    BY <1>7, <2>2, <2>3, <2>4, CreateType DEF CmdStartCreate, TypeOK
<1>8. CASE CmdStartReport
  <2>1. ShellOK'
    BY <1>8, IdleType DEF CmdStartReport
  <2>2. PICK entry \in {"none", "one", "mag", "all"} : Create({}, entry, "buffer")
    BY <1>8 DEF CmdStartReport
  <2> QED
    BY <1>8, <2>1, <2>2, CreateType DEF CmdStartReport, TypeOK
<1>9. CASE CmdStopRefused
  BY <1>9, IdleType DEF CmdStopRefused, TypeOK, threadVars
<1>10. CASE CmdStopAccepted
  <2>1. ToClear(shell.did) \in Seq(Flags) \ {<< >>}
    BY OrderIsOfSensors DEF TypeOK, ShellOK
  <2>2. shell.op # "start"
    BY <1>10 DEF CmdStopAccepted, At
  <2>3. ShellOK'
    BY <1>10, <2>1, <2>2, GotoType DEF CmdStopAccepted, TypeOK, Steps
  <2> QED
    BY <1>10, <2>3 DEF CmdStopAccepted, TypeOK, threadVars
<1>11. CASE CmdStopClear
  <2>1. shell.todo \in Seq(Flags) /\ shell.todo # << >> /\ shell.op # "start"
    BY <1>11 DEF CmdStopClear, At, TypeOK, ShellOK
  <2>2. /\ Tail(shell.todo) \in Seq(Flags)
        /\ Len(shell.todo) # 1 => Tail(shell.todo) # << >>
    BY <2>1, TailOfList
  <2>3. ShellOK'
    BY <1>11, <2>1, <2>2, IdleType, GotoType DEF CmdStopClear, TypeOK, Steps
  <2>4. Live \subseteq Sensors \cup {"reporter"}
    BY DEF Live, Alive
  <2> QED
    BY <1>11, <2>3, <2>4 DEF CmdStopClear, TypeOK, threadVars
<1>12. CASE CmdRateLock
  <2>1. shell.op # "start"
    BY <1>12 DEF CmdRateLock, At
  <2>2. ShellOK'
    BY <1>12, <2>1, <1>e, GotoType DEF CmdRateLock, TypeOK, Steps
  <2> QED
    BY <1>12, <2>2 DEF CmdRateLock, TypeOK, threadVars
<1>13. CASE CmdRateUnlock
  BY <1>13, IdleType DEF CmdRateUnlock, TypeOK, threadVars
<1>14. CASE ButtonStop
  BY <1>14 DEF ButtonStop, Asks, TypeOK, ShellOK, threadVars, Live, Alive
<1>15. CASE ButtonStart
  BY <1>15, CreateType DEF ButtonStart, Asks, TypeOK, ShellOK, threadVars
<1>16. ASSUME NEW s \in Sensors, SensorStep(s) PROVE TypeOK'
  BY <1>16 DEF SensorStep, SensorEnds, SensorSamples, SensorWakes, RunOrContend, Runs,
               TypeOK, ShellOK, threadVars
<1>17. CASE ReporterStep
  BY <1>17 DEF ReporterStep, ReporterEnds, ReporterReports, ReporterWakes, ReporterAt,
               RunOrContend, Runs, NoReporter, TypeOK, ShellOK, threadVars
<1>18. CASE UNCHANGED vars
  BY <1>18 DEF vars, threadVars, TypeOK, ShellOK
<1> QED
  BY <1>1, <1>2, <1>3, <1>4, <1>5, <1>6, <1>7, <1>8, <1>9, <1>10, <1>11, <1>12, <1>13,
     <1>14, <1>15, <1>16, <1>17, <1>18, <1>s DEF Next, CmdStep, Button

-------------------------------------------------------------------------------

(* A thread that is created where none is lives, and no thread is lost.    *)
LEMMA CreateGives ==
    ASSUME TypeOK, NEW these \in SUBSET Sensors, NEW entry, NEW did,
           Create(these, entry, did), health' = "sane"
    PROVE  \A s \in Sensors : s \in these \/ sensor[s] # "none" => sensor'[s] # "none"
  BY DEF TypeOK, Create

(* Whatever is not a step of the command keeps what it is about to create. *)
LEMMA StepHasThread == TypeOK /\ SamplingHasThread /\ [Next]_vars => SamplingHasThread'
<1> SUFFICES ASSUME TypeOK, SamplingHasThread, [Next]_vars, health' = "sane",
                    NEW t \in Sensors, t \in on', t \in Ready
             PROVE  sensor'[t] # "none" \/ Creating(t)'
  BY ReadyAssumption DEF SamplingHasThread
<1>o. "all" \notin Sensors
  BY OrderAssumption
<1>h. health = "sane" /\ t \in on => sensor[t] # "none" \/ Creating(t)
  BY DEF SamplingHasThread
<1> USE DEF threadVars, Creating
<1>1. CASE Typing
  BY <1>1, <1>h DEF Typing
<1>2. ASSUME NEW op \in {"start", "stop", "rate"}, NEW did \in Flags, CmdCall(op, did)
      PROVE sensor'[t] # "none" \/ Creating(t)'
  BY <1>2, <1>h DEF CmdCall, Idle
<1>3. CASE CmdStartCheck
  BY <1>3, <1>h DEF CmdStartCheck, At, Goto
<1>4. CASE CmdStartMark
  <2>1. CASE t \in on
    BY <1>4, <1>h, <2>1 DEF CmdStartMark, At
  <2>2. CASE t \notin on
    <3>1. shell.did = t /\ Goto("create", <<t>>) /\ shell.op = "start"
      BY <1>4, <2>2, <1>o DEF CmdStartMark, At
    <3>2. shell'.op = "start" /\ shell'.step = "create" /\ shell'.todo = <<t>>
      BY <3>1 DEF Goto, TypeOK, ShellOK
    <3> QED
      BY <3>2
  <2> QED
    BY <2>1, <2>2
<1>5. CASE CmdStartTest
  BY <1>5, <1>h DEF CmdStartTest, At, Goto
<1>6. CASE CmdStartMarkOne
  <2>1. CASE t \in on
    BY <1>6, <1>h, <2>1 DEF CmdStartMarkOne, At
  <2>2. CASE t \notin on
    <3>1. t = Head(shell.todo) /\ Goto("create", shell.todo) /\ shell.op = "start"
      BY <1>6, <2>2 DEF CmdStartMarkOne, At
    <3> QED
      BY <3>1 DEF Goto, TypeOK, ShellOK
  <2> QED
    BY <2>1, <2>2
<1>7. CASE CmdStartCreate
  <2>1. Head(shell.todo) \in Sensors
    BY <1>7, TailOfList DEF CmdStartCreate, At, TypeOK, ShellOK
  <2> QED
    BY <1>7, <1>h, <2>1, CreateGives DEF CmdStartCreate, At
<1>8. CASE CmdStartReport
  BY <1>8, <1>h, CreateGives DEF CmdStartReport, At
<1>9. CASE CmdStopRefused
  BY <1>9, <1>h DEF CmdStopRefused, At
<1>10. CASE CmdStopAccepted
  BY <1>10, <1>h DEF CmdStopAccepted, At
<1>11. CASE CmdStopClear
  BY <1>11, <1>h DEF CmdStopClear, At
<1>12. CASE CmdRateLock
  BY <1>12, <1>h DEF CmdRateLock, At
<1>13. CASE CmdRateUnlock
  BY <1>13, <1>h DEF CmdRateUnlock, At
<1>14. CASE ButtonStop
  BY <1>14 DEF ButtonStop
<1>15. CASE ButtonStart
  BY <1>15, <1>h, CreateGives DEF ButtonStart
<1>16. ASSUME NEW s \in Sensors, SensorStep(s)
       PROVE sensor'[t] # "none" \/ Creating(t)'
  BY <1>16, <1>h DEF SensorStep, SensorEnds, SensorSamples, SensorWakes, RunOrContend, TypeOK
<1>17. CASE ReporterStep
  BY <1>17, <1>h DEF ReporterStep, ReporterEnds, ReporterReports, ReporterWakes, ReporterAt,
                     RunOrContend
<1>18. CASE UNCHANGED vars
  BY <1>18, <1>h DEF vars
<1> QED
  BY <1>1, <1>2, <1>3, <1>4, <1>5, <1>6, <1>7, <1>8, <1>9, <1>10, <1>11, <1>12, <1>13,
     <1>14, <1>15, <1>16, <1>17, <1>18 DEF Next, CmdStep, Button, Flags

(* The types hold in every state.                                          *)
THEOREM TypeCorrect == Spec => []TypeOK
  BY InitType, StepType, PTL DEF Spec

(* However commands, button presses and ending threads interleave, a       *)
(* sensor that is marked has its thread or is about to get it.             *)
THEOREM HasThreadCorrect == Spec => []SamplingHasThread
<1>1. Init => SamplingHasThread
  BY DEF Init, SamplingHasThread
<1> QED
  BY <1>1, StepHasThread, TypeCorrect, PTL DEF Spec

-------------------------------------------------------------------------------

(* What patience is good for.  A thread that lives belongs to a flag that  *)
(* is on, or has not run since the last stop: none is left when all is     *)
(* quiet.  A command to start or to set the rate begins when all is quiet, *)
(* so it finds no thread that it has not created itself.                   *)
Followed == /\ \A s \in Alive : s \in on \cup unsettled
            /\ reporter # NoReporter => on # {} \/ "reporter" \in unsettled
Starting == shell.op = "start" =>
               /\ unsettled = {} /\ reporter = NoReporter
               /\ shell.step \in {"check", "mark"} => on = {}
               /\ shell.step \in {"test", "markOne", "create", "report"} => on # {}
               /\ shell.step = "markOne" => Head(shell.todo) \notin on
               /\ shell.step = "create" => /\ Head(shell.todo) \in on
                                           /\ sensor[Head(shell.todo)] = "none"
Setting == /\ shell.op = "rate" => on = {} /\ unsettled = {}
           /\ owner = "shell" => shell.op = "rate"
Calm == patient => health = "sane" /\ Followed /\ Starting /\ Setting

(* When all is quiet no thread lives.                                      *)
LEMMA QuietMeansNone ==
    ASSUME Followed, on = {}, unsettled = {}
    PROVE  Alive = {} /\ reporter = NoReporter
  BY DEF Followed

(* Creating threads that do not live does no harm.                         *)
LEMMA CreateHealthy ==
    ASSUME TypeOK, NEW these \in SUBSET Sensors, NEW entry, NEW did,
           these \cap Alive = {}, entry = "none" \/ reporter = NoReporter,
           Create(these, entry, did)
    PROVE  /\ health' = health
           /\ \A s \in Sensors : sensor'[s] = IF s \in these THEN "ready" ELSE sensor[s]
           /\ entry = "none" => reporter' = reporter
  BY DEF TypeOK, Create

LEMMA CalmCommand == TypeOK /\ Calm /\ patient' /\ CmdStep => Calm'
<1> SUFFICES ASSUME TypeOK, Calm, patient', CmdStep PROVE Calm'
  OBVIOUS
<1>p. patient
  BY DEF CmdStep, CmdStartCheck, CmdStartMark, CmdStartTest, CmdStartMarkOne, CmdStartCreate,
     CmdStartReport, CmdStopRefused, CmdStopAccepted, CmdStopClear, CmdRateLock,
     CmdRateUnlock, history
<1>c. health = "sane" /\ Followed /\ Starting /\ Setting
  BY <1>p DEF Calm
<1>g. ASSUME NEW step, NEW todo, Goto(step, todo)
      PROVE  shell'.op = shell.op /\ shell'.step = step /\ shell'.todo = todo
  BY <1>g DEF Goto, TypeOK, ShellOK
<1>t. shell.op = "start" /\ shell.step \in {"markOne", "create"} =>
         Head(shell.todo) \in Sensors
  BY TailOfList DEF TypeOK, ShellOK
<1> USE <1>c DEF Calm, At, threadVars, history
<1>1. CASE CmdStartCheck
  BY <1>1, <1>g DEF CmdStartCheck, Followed, Starting, Setting, Idle, Alive
<1>2. CASE CmdStartMark
  <2>1. on = {} /\ unsettled = {} /\ Alive = {} /\ reporter = NoReporter
    BY <1>2, QuietMeansNone DEF CmdStartMark, Starting
  <2>2. UNCHANGED <<sensor, reporter, owner, health, unsettled>> /\ on' = on \cup {shell.did}
    BY <1>2 DEF CmdStartMark
  <2>3. Followed' /\ Setting'
    BY <1>2, <2>1, <2>2, <1>g DEF CmdStartMark, Followed, Setting, Alive
  <2>4. Starting'
    <3>1. CASE shell.did = "all"
      BY <1>2, <2>1, <2>2, <3>1, <1>g DEF CmdStartMark, Starting
    <3>2. CASE shell.did # "all"
      <4>1. shell.did \in Sensors
        BY <3>2 DEF TypeOK, ShellOK, Flags
      <4>2. shell'.step = "create" /\ Head(shell'.todo) = shell.did /\ shell'.op = "start"
        BY <1>2, <3>2, <1>g DEF CmdStartMark
      <4> QED BY <2>1, <2>2, <4>1, <4>2 DEF Starting, Alive
    <3> QED BY <3>1, <3>2
  <2> QED BY <2>2, <2>3, <2>4
<1>3. CASE CmdStartTest
  BY <1>3, <1>g DEF CmdStartTest, Followed, Starting, Setting, Alive
<1>4. CASE CmdStartMarkOne
  <2>1. Head(shell.todo) \in Sensors /\ Head(shell.todo) \notin Alive
    BY <1>4, <1>t DEF CmdStartMarkOne, Followed, Starting
  <2> QED BY <1>4, <2>1, <1>g DEF CmdStartMarkOne, Followed, Starting, Setting, Alive
<1>5. CASE CmdStartCreate
  <2>1. Head(shell.todo) \in Sensors /\ {Head(shell.todo)} \cap Alive = {}
        /\ Head(shell.todo) \in on
    BY <1>5, <1>t DEF CmdStartCreate, Starting, Alive
  <2>2. /\ health' = health /\ reporter' = reporter
        /\ \A s \in Sensors :
              sensor'[s] = IF s \in {Head(shell.todo)} THEN "ready" ELSE sensor[s]
    BY <1>5, <2>1, CreateHealthy DEF CmdStartCreate
  <2>3. shell'.op = "start" /\ shell'.step \in {"test", "report"}
    BY <1>5, <1>g DEF CmdStartCreate
  <2> QED BY <1>5, <2>1, <2>2, <2>3 DEF CmdStartCreate, Followed, Starting, Setting, Alive
<1>6. CASE CmdStartReport
  <2>1. reporter = NoReporter /\ on # {} /\ {} \cap Alive = {}
    BY <1>6 DEF CmdStartReport, Starting
  <2>2. health' = health /\ \A s \in Sensors : sensor'[s] = sensor[s]
    BY <1>6, <2>1, CreateHealthy DEF CmdStartReport
  <2> QED BY <1>6, <2>1, <2>2 DEF CmdStartReport, Followed, Starting, Setting, Alive, Idle
<1>7. CASE CmdStopRefused
  BY <1>7 DEF CmdStopRefused, Followed, Starting, Setting, Idle, Alive
<1>8. CASE CmdStopAccepted
  BY <1>8, <1>g DEF CmdStopAccepted, Followed, Starting, Setting, Alive
<1>9. CASE CmdStopClear
  <2>1. shell'.op \in {"idle", "stop"}
    BY <1>9, <1>g DEF CmdStopClear, Idle
  <2>2. Followed'
    BY <1>9 DEF CmdStopClear, Followed, Live, Alive
  <2> QED BY <1>9, <2>1, <2>2 DEF CmdStopClear, Starting, Setting
<1>10. CASE CmdRateLock
  BY <1>10, <1>g DEF CmdRateLock, Followed, Starting, Setting, Alive
<1>11. CASE CmdRateUnlock
  BY <1>11 DEF CmdRateUnlock, Followed, Starting, Setting, Idle, Alive
<1> QED BY <1>1, <1>2, <1>3, <1>4, <1>5, <1>6, <1>7, <1>8, <1>9, <1>10, <1>11 DEF CmdStep

LEMMA CalmStep == TypeOK /\ Calm /\ [Next]_vars => Calm'
<1> SUFFICES ASSUME TypeOK, Calm, [Next]_vars, patient' PROVE Calm'
  BY DEF Calm
<1>p. patient
  BY DEF Next, CmdStep, CmdStartCheck, CmdStartMark, CmdStartTest, CmdStartMarkOne,
     CmdStartCreate, CmdStartReport, CmdStopRefused, CmdStopAccepted, CmdStopClear,
     CmdRateLock, CmdRateUnlock, history, vars, Typing, CmdCall, Asks, Button, ButtonStop,
     ButtonStart, SensorStep, SensorEnds, SensorSamples, SensorWakes, ReporterStep,
     ReporterEnds, ReporterReports, ReporterWakes, Runs
<1>c. health = "sane" /\ Followed /\ Starting /\ Setting
  BY <1>p DEF Calm
<1>r. "reporter" \notin Sensors
  BY OrderAssumption
<1> USE <1>c DEF Calm, threadVars, history
<1>1. CASE Typing
  BY <1>1 DEF Typing, Followed, Starting, Setting, Alive
<1>2. ASSUME NEW op \in {"start", "stop", "rate"}, NEW did \in Flags, CmdCall(op, did)
      PROVE Calm'
  <2>1. shell'.op = op /\ shell'.step = "check"
    BY <1>2 DEF CmdCall
  <2>2. op # "stop" => on = {} /\ unsettled = {} /\ reporter = NoReporter
    BY <1>2, QuietMeansNone DEF CmdCall, Asks, Quiet
  <2>3. owner # "shell"
    BY <1>2 DEF CmdCall, Setting, Idle
  <2> QED BY <1>2, <2>1, <2>2, <2>3 DEF CmdCall, Followed, Starting, Setting, Alive
<1>3. CASE CmdStep
  BY <1>3, CalmCommand
<1>4. CASE ButtonStop
  <2>1. shell' = shell /\ shell = Idle /\ UNCHANGED <<owner, health, sensor, reporter>>
    BY <1>4 DEF ButtonStop, Asks
  <2>2. shell.op = "idle"
    BY <2>1 DEF Idle
  <2>3. Starting' /\ Setting'
    BY <2>1, <2>2 DEF Starting, Setting
  <2>4. Followed'
    BY <1>4 DEF ButtonStop, Followed, Live, Alive
  <2> QED BY <2>1, <2>3, <2>4
<1>5. CASE ButtonStart
  <2>0. shell = Idle /\ Quiet /\ shell' = shell
    BY <1>5 DEF ButtonStart, Asks
  <2>1. on = {} /\ unsettled = {} /\ shell.op = "idle" /\ shell' = shell
    BY <2>0 DEF Quiet, Idle
  <2>2. Alive = {} /\ reporter = NoReporter
    BY <2>1, QuietMeansNone
  <2>3. health' = health
    BY <1>5, <2>2, CreateHealthy DEF ButtonStart
  <2>4. on' = Flags /\ Sensors \subseteq Flags /\ "all" \in Flags
    BY <1>5 DEF ButtonStart, Flags
  <2> QED BY <1>5, <2>1, <2>3, <2>4 DEF ButtonStart, Followed, Starting, Setting, Alive
<1>6. ASSUME NEW s \in Sensors, SensorStep(s) PROVE Calm'
  <2>1. shell' = shell /\ on' = on /\ owner' = owner /\ reporter' = reporter
    BY <1>6 DEF SensorStep, SensorEnds, SensorSamples, SensorWakes, RunOrContend
  <2>2. Setting'
    BY <1>6, <2>1 DEF SensorStep, SensorEnds, SensorSamples, SensorWakes, Runs, Setting
  <2>3. CASE SensorEnds(s)
    BY <2>1, <2>2, <2>3, <1>r DEF SensorEnds, Runs, TypeOK, Followed, Starting, Alive
  <2>4. CASE SensorSamples(s)
    <3>1. owner = "nobody"
      BY <2>4 DEF SensorSamples, Setting, TypeOK
    <3>2. health' = health /\ sensor' = [sensor EXCEPT ![s] = "asleep"] /\ s \in on
          /\ unsettled' = unsettled \ {s} /\ sensor[s] = "ready"
      BY <2>4, <3>1 DEF SensorSamples, RunOrContend, Runs
    <3> QED BY <2>1, <2>2, <3>2, <1>r DEF TypeOK, Followed, Starting, Alive
  <2>5. CASE SensorWakes(s)
    BY <2>1, <2>2, <2>5 DEF SensorWakes, TypeOK, Followed, Starting, Alive
  <2> QED BY <1>6, <2>3, <2>4, <2>5 DEF SensorStep
<1>7. CASE ReporterStep
  <2>1. UNCHANGED <<shell, on, owner, sensor>> /\ reporter # NoReporter
    BY <1>7 DEF ReporterStep, ReporterEnds, ReporterReports, ReporterWakes, ReporterAt,
       RunOrContend
  <2>2. Starting' /\ Setting'
    BY <1>7, <2>1 DEF Starting, Setting, ReporterStep, ReporterEnds, ReporterReports,
       ReporterWakes, Runs
  <2>3. CASE ReporterEnds
    BY <2>1, <2>2, <2>3, <1>r DEF ReporterEnds, Runs, Followed, Alive
  <2>4. CASE ReporterReports
    <3>1. on # {}
      BY <2>4 DEF ReporterReports, GoesOn
    <3>2. owner = "nobody"
      BY <3>1 DEF Setting, TypeOK
    <3>3. health' = health /\ unsettled' = unsettled \ {"reporter"}
      BY <2>4, <3>2 DEF ReporterReports, RunOrContend, Runs
    <3> QED BY <2>1, <2>2, <3>1, <3>3, <1>r DEF Followed, Alive
  <2>5. CASE ReporterWakes
    BY <2>1, <2>2, <2>5 DEF ReporterWakes, Followed, Alive
  <2> QED BY <1>7, <2>3, <2>4, <2>5 DEF ReporterStep
<1>8. CASE UNCHANGED vars
  BY <1>8 DEF vars, Followed, Starting, Setting, Alive
<1> QED BY <1>1, <1>2, <1>3, <1>4, <1>5, <1>6, <1>7, <1>8 DEF Next, Button, Flags

(* A patient user never has two threads on one stack and never makes one   *)
(* wait for the rate.                                                      *)
THEOREM StaysSaneCorrect == Spec => []StaysSane
<1>1. Init => Calm
  BY DEF Init, Calm, Followed, Starting, Setting, Alive, Idle
<1>2. Calm => StaysSane
  BY DEF Calm, StaysSane
<1> QED BY <1>1, <1>2, CalmStep, TypeCorrect, PTL DEF Spec

-------------------------------------------------------------------------------

LEMMA UploadStep == [UploadNext]_uploadVars => [Next]_vars
<1> SUFFICES ASSUME UploadNext \/ UNCHANGED uploadVars PROVE Next \/ UNCHANGED vars
  OBVIOUS
<1>1. CASE SampleCall
  BY <1>1 DEF SampleCall, Next
<1>2. CASE SampleStart \/ SampleStop \/ SampleRate
  BY <1>2 DEF SampleStart, SampleStop, SampleRate, CmdStep, Next
<1>3. ASSUME NEW s \in Sensors, SensorThread(s) PROVE Next
  BY <1>3 DEF SensorThread, Next
<1>4. CASE SingleSensorJson \/ AllSensorsReport \/ AllSensorsEnds \/ AllSensorsWakes
  BY <1>4 DEF SingleSensorJson, AllSensorsReport, AllSensorsEnds, AllSensorsWakes,
     ReporterStep, Next
<1>5. CASE ConnectToWifi \/ SendJsonToInfluxdb \/ UNCHANGED uploadVars
  BY <1>5 DEF ConnectToWifi, SendJsonToInfluxdb, Socket, Connect, Send, Recv, uploadVars
<1> QED BY <1>1, <1>2, <1>3, <1>4, <1>5 DEF UploadNext, AllSensorsJson

(* The sampling program of the thesis implements the sampling of prac 2:   *)
(* the blocking calls of an upload are part of the sleep of its thread.    *)
THEOREM UploadIsSampling == UploadSpec => Spec
<1>1. UploadInit => Init
  BY DEF UploadInit
<1> QED BY <1>1, UploadStep, PTL DEF UploadSpec, Spec

(* So a patient user is safe there too.                                    *)
THEOREM UploadStaysSane == UploadSpec => []StaysSane
  BY UploadIsSampling, StaysSaneCorrect

(* The thread that posts is asleep to all others; nobody takes its place.  *)
PostsAsleep == upload # "none" => reporter.entry = "all" /\ reporter.at = "asleep"
SocketInv   == PostsAsleep /\ SocketsClosed

LEMMA CreateKeepsReporter ==
    ASSUME reporter # NoReporter, NEW these, NEW entry, NEW did, Create(these, entry, did)
    PROVE  \/ entry = "none" /\ reporter' = reporter
           \/ entry # "none" /\ reporter' = reporter
  BY DEF Create, threadVars

LEMMA PostsAsleepStep == TypeOK /\ PostsAsleep /\ [UploadNext]_uploadVars => PostsAsleep'
<1> SUFFICES ASSUME TypeOK, PostsAsleep, [UploadNext]_uploadVars, upload' # "none"
             PROVE (reporter.entry = "all" /\ reporter.at = "asleep")'
  BY DEF PostsAsleep
<1>1. CASE AllSensorsReport
  BY <1>1 DEF TypeOK, AllSensorsReport, ReporterReports
<1>2. CASE SendJsonToInfluxdb
  BY <1>2 DEF PostsAsleep, SendJsonToInfluxdb, Calls, Socket, Connect, Send, Recv, vars,
     threadVars
<1>3. ASSUME upload' = upload, ~ AllSensorsReport, ~ SendJsonToInfluxdb
      PROVE (reporter.entry = "all" /\ reporter.at = "asleep")'
  <2>1. reporter.entry = "all" /\ reporter.at = "asleep" /\ reporter # NoReporter
    BY <1>3 DEF PostsAsleep, NoReporter
  <2>2. SUFFICES reporter' = reporter
    BY <2>1
  <2>3. CASE SampleCall
    BY <2>3 DEF SampleCall, Typing, CmdCall, threadVars
  <2>4. CASE SampleStart
    BY <2>1, <2>4, CreateKeepsReporter DEF SampleStart, CmdStartCheck, CmdStartMark,
       CmdStartTest, CmdStartMarkOne, CmdStartCreate, CmdStartReport, threadVars
  <2>5. CASE SampleStop \/ SampleRate
    BY <2>5 DEF SampleStop, SampleRate, CmdStopRefused, CmdStopAccepted, CmdStopClear,
       CmdRateLock, CmdRateUnlock, threadVars
  <2>6. ASSUME NEW s \in Sensors, SensorThread(s) PROVE reporter' = reporter
    BY <2>6 DEF SensorThread, SensorStep, SensorEnds, SensorSamples, SensorWakes,
       RunOrContend, threadVars
  <2>7. ~ SingleSensorJson /\ ~ AllSensorsEnds /\ ~ AllSensorsWakes
    BY <1>3, <2>1 DEF SingleSensorJson, AllSensorsEnds, AllSensorsWakes, ReporterEnds,
       ReporterAt
  <2>8. CASE ConnectToWifi \/ UNCHANGED uploadVars
    BY <2>8 DEF ConnectToWifi, uploadVars, vars, threadVars
  <2> QED BY <1>3, <2>3, <2>4, <2>5, <2>6, <2>7, <2>8 DEF UploadNext, AllSensorsJson
<1>4. upload' = upload \/ AllSensorsReport \/ SendJsonToInfluxdb
  BY DEF UploadNext, ConnectToWifi, SampleCall, SampleStart, SampleStop, SampleRate,
     SensorThread, SingleSensorJson, AllSensorsJson, AllSensorsEnds, AllSensorsWakes,
     uploadVars, net
<1> QED BY <1>1, <1>2, <1>3, <1>4

LEMMA SocketsStep == SocketInv /\ [UploadNext]_uploadVars => SocketsClosed'
<1> SUFFICES ASSUME SocketInv, [UploadNext]_uploadVars PROVE SocketsClosed'
  OBVIOUS
<1> USE DEF SocketsClosed
<1>1. CASE AllSensorsReport
  BY <1>1 DEF SocketInv, PostsAsleep, AllSensorsReport, ReporterReports, ReporterAt
<1>2. CASE SendJsonToInfluxdb
  BY <1>2 DEF SocketInv, SendJsonToInfluxdb, Socket, Connect, Send, Recv, Calls, Close
<1>3. CASE UNCHANGED <<upload, open>>
  BY <1>3 DEF SocketInv
<1>4. AllSensorsReport \/ SendJsonToInfluxdb \/ UNCHANGED <<upload, open>>
  BY DEF UploadNext, ConnectToWifi, SampleCall, SampleStart, SampleStop, SampleRate,
     SensorThread, SingleSensorJson, AllSensorsJson, AllSensorsEnds, AllSensorsWakes,
     uploadVars, net
<1> QED BY <1>1, <1>2, <1>3, <1>4

(* Whichever call of an upload fails, the socket is closed.                *)
THEOREM UploadSocketsClosed == UploadSpec => []SocketsClosed
<1>1. UploadInit => SocketInv
  BY DEF UploadInit, SocketInv, PostsAsleep, SocketsClosed
<1>2. TypeOK /\ SocketInv /\ [UploadNext]_uploadVars => SocketInv'
  BY PostsAsleepStep, SocketsStep DEF SocketInv
<1>3. SocketInv => SocketsClosed
  BY DEF SocketInv
<1> QED BY <1>1, <1>2, <1>3, UploadIsSampling, TypeCorrect, PTL DEF UploadSpec

(* What the calls of an upload may be, and that sockets are counted.       *)
NetOK == /\ wifi \in {"unasked", "asked", "failed"}
         /\ upload \in {"none", "socket", "connect", "send", "recv"}
         /\ server \in {"nothing", "request"}

LEMMA NetStep == NetOK /\ [UploadNext]_uploadVars => NetOK'
<1> SUFFICES ASSUME NetOK, [UploadNext]_uploadVars PROVE NetOK'
  OBVIOUS
<1> USE DEF NetOK
<1>1. CASE ConnectToWifi
  BY <1>1 DEF ConnectToWifi
<1>2. CASE AllSensorsReport
  BY <1>2 DEF AllSensorsReport
<1>3. CASE SendJsonToInfluxdb
  BY <1>3 DEF SendJsonToInfluxdb, Socket, Connect, Send, Recv, Close
<1>4. CASE UNCHANGED <<wifi, upload, server>>
  BY <1>4
<1>5. \/ ConnectToWifi \/ AllSensorsReport \/ SendJsonToInfluxdb
      \/ UNCHANGED <<wifi, upload, server>>
  BY DEF UploadNext, SampleCall, SampleStart, SampleStop, SampleRate, SensorThread,
     SingleSensorJson, AllSensorsJson, AllSensorsEnds, AllSensorsWakes, uploadVars, net
<1> QED BY <1>1, <1>2, <1>3, <1>4, <1>5

(* The types of the upload program hold, and the bound on the sockets,     *)
(* which are never more than one, is not met.                              *)
THEOREM UploadTypeCorrect == UploadSpec => []UploadTypeOK
<1>1. UploadInit => SocketInv /\ NetOK
  BY DEF UploadInit, SocketInv, PostsAsleep, SocketsClosed, NetOK
<1>2. TypeOK /\ SocketInv /\ [UploadNext]_uploadVars => SocketInv'
  BY PostsAsleepStep, SocketsStep DEF SocketInv
<1>3. TypeOK /\ SocketInv /\ NetOK => UploadTypeOK
  BY DEF SocketInv, PostsAsleep, SocketsClosed, NetOK, UploadTypeOK, MaxOpen
<1> QED BY <1>1, <1>2, <1>3, NetStep, UploadIsSampling, TypeCorrect, PTL DEF UploadSpec
===============================================================================
