---------------------------- MODULE SamplingControl ----------------------------
(***************************************************************************)
(* Continuous sampling in prac 2: the shell command sample (start, stop,   *)
(* rate), the button interrupt, which may come between any two steps of a  *)
(* command, the sensor threads, each with a flag that keeps it going, and  *)
(* the thread that prints JSON.  All JSON threads are created on the one   *)
(* json_thread_stack, so there is room for one.                            *)
(*                                                                         *)
(* A device id is written as the name of what it selects: "temp" for 0,    *)
(* "hum" for 1, "press" for 2, "mag" for 4 and "all" for 15.               *)
(***************************************************************************)
EXTENDS Integers, SequencesExt

CONSTANTS Order,     (* the sensors in the order the code starts them       *)
          Ready      (* those whose device is ready                         *)

Sensors == Range(Order)
Flags   == Sensors \cup {"all"}

ASSUME OrderAssumption == Order \in Seq(Sensors) /\ {"all", "reporter"} \cap Sensors = {}
ASSUME ReadyAssumption == Ready \subseteq Sensors

VARIABLES
    on,          (* sampling_settings: the flags that are set               *)
    sensor,      (* sensor threads                                          *)
    reporter,    (* the JSON thread: entry point and where did points to    *)
    shell,       (* the command in execution                                *)
    word,        (* the shell buffer, where the device id of sample is      *)
    owner,       (* owner of sampling_rate_mutex                            *)
    health,      (* whether anything undefined has happened                 *)
    unsettled,   (* history: threads that have not run since a stop         *)
    patient      (* history: whether the user has been patient              *)

threadVars == <<sensor, reporter>>
history == <<unsettled, patient>>
vars == <<on, threadVars, shell, word, owner, health, history>>

Idle       == [op |-> "idle", did |-> "all", step |-> "none", todo |-> << >>]
NoReporter == [entry |-> "none", did |-> "literal", at |-> "ready"]

Steps == {"none", "check", "mark", "test", "markOne", "create", "report",
          "clear", "locked"}
ShellOK ==
    /\ shell \in [op: {"idle", "start", "stop", "rate"}, did: Flags, step: Steps,
                  todo: Seq(Flags)]
    /\ shell.op = "start" => shell.todo \in Seq(Sensors)
    /\ shell.step \in {"markOne", "create", "clear"} => shell.todo # << >>

TypeOK ==
    /\ on \subseteq Flags
    /\ sensor \in [Sensors -> {"none", "ready", "asleep"}]
    /\ reporter \in [entry: {"none", "one", "mag", "all"},
                     did: {"buffer", "literal"}, at: {"ready", "asleep"}]
    /\ ShellOK
    /\ word \in Flags \cup {"other"}
    /\ owner \in {"nobody", "shell"}
    /\ health \in {"sane", "reused", "contended"}
    /\ unsettled \subseteq Sensors \cup {"reporter"}
    /\ patient \in BOOLEAN

Init == /\ on = {}
        /\ sensor = [s \in Sensors |-> "none"]
        /\ reporter = NoReporter
        /\ shell = Idle
        /\ word = "other"
        /\ owner = "nobody"
        /\ health = "sane"
        /\ unsettled = {}
        /\ patient = TRUE

-------------------------------------------------------------------------------

Alive == {s \in Sensors : sensor[s] # "none"}
Live  == Alive \cup (IF reporter = NoReporter THEN {} ELSE {"reporter"})

(* k_thread_create on a structure and stack that are free, or in use: then *)
(* the kernel's lists and the old thread's frames are overwritten.         *)
Create(these, entry, did) ==
    IF \/ these \cap Alive # {}
       \/ entry # "none" /\ reporter # NoReporter
    THEN health' = "reused" /\ UNCHANGED threadVars
    ELSE /\ sensor' = [s \in Sensors |-> IF s \in these THEN "ready" ELSE sensor[s]]
         /\ reporter' = IF entry = "none" THEN reporter
                        ELSE [entry |-> entry, did |-> did, at |-> "ready"]
         /\ UNCHANGED health

(* What a command does before it returns changes its position only.        *)
Goto(step, todo) == shell' = [shell EXCEPT !.step = step, !.todo = todo]
At(op, step) == health = "sane" /\ shell.op = op /\ shell.step = step

(* A patient user starts sampling or sets the rate only when nothing is    *)
(* being sampled and, after a stop, a sampling period has passed, in which *)
(* every thread has run; and does not press the button during a command.   *)
Quiet == on = {} /\ unsettled = {}
Asks(when) == patient' = (patient /\ when)

(* The user types a line.  While it is typed, and if it is another line    *)
(* than sample s or p, other text gets to where the device id was.         *)
Typing == /\ health = "sane" /\ shell = Idle
          /\ word' = "other"
          /\ UNCHANGED <<on, threadVars, shell, owner, health, history>>

CmdCall(op, did) ==
    /\ health = "sane" /\ shell = Idle
    /\ shell' = [op |-> op, did |-> did, step |-> "check", todo |-> << >>]
    /\ word' = IF op = "rate" THEN "other" ELSE did
    /\ Asks(op # "stop" => Quiet)
    /\ UNCHANGED <<on, threadVars, owner, health, unsettled>>

(* sample s: the flag is tested, then set, then the threads are created.   *)
CmdStartCheck ==
    /\ At("start", "check")
    /\ IF shell.did \in on THEN shell' = Idle ELSE Goto("mark", << >>)
    /\ UNCHANGED <<on, threadVars, word, owner, health, history>>

(* Mutant: 15 is taken for the id of a sensor.                             *)
CmdStartMarkOnly ==
    /\ At("start", "mark")
    /\ on' = on \cup {shell.did}
    /\ Goto("create", <<shell.did>>)
    /\ UNCHANGED <<threadVars, word, owner, health, history>>

CmdStartMark ==
    /\ At("start", "mark")
    /\ on' = on \cup {shell.did}
    /\ IF shell.did = "all" THEN Goto("test", Order) ELSE Goto("create", <<shell.did>>)
    /\ UNCHANGED <<threadVars, word, owner, health, history>>

(* sample s 15: each sensor that does not run yet is marked and started.   *)
CmdStartTest ==
    /\ At("start", "test")
    /\ CASE shell.todo = << >>     -> Goto("report", << >>)
         [] shell.todo # << >> /\ Head(shell.todo) \in on
                                   -> Goto("test", Tail(shell.todo))
         [] OTHER                  -> Goto("markOne", shell.todo)
    /\ UNCHANGED <<on, threadVars, word, owner, health, history>>

CmdStartMarkOne ==
    /\ At("start", "markOne")
    /\ on' = on \cup {Head(shell.todo)}
    /\ Goto("create", shell.todo)
    /\ UNCHANGED <<threadVars, word, owner, health, history>>

CmdStartCreate ==
    /\ At("start", "create")
    /\ Create({Head(shell.todo)}, "none", "buffer")
    /\ IF shell.did = "all" THEN Goto("test", Tail(shell.todo)) ELSE Goto("report", << >>)
    /\ UNCHANGED <<on, word, owner, history>>

(* did points into the buffer of the shell.                                *)
CmdStartReport ==
    /\ At("start", "report")
    /\ Create({}, IF shell.did \in {"mag", "all"} THEN shell.did ELSE "one", "buffer")
    /\ shell' = Idle
    /\ UNCHANGED <<on, word, owner, history>>

CmdStopRefused ==
    /\ At("stop", "check") /\ shell.did \notin on
    /\ shell' = Idle
    /\ UNCHANGED <<on, threadVars, word, owner, health, history>>

(* sample p 15 clears flag after flag, its own last.                       *)
ToClear(did) == IF did = "all" THEN Append(Order, "all") ELSE <<did>>

CmdStopAccepted ==
    /\ At("stop", "check") /\ shell.did \in on
    /\ Goto("clear", ToClear(shell.did))
    /\ UNCHANGED <<on, threadVars, word, owner, health, history>>

CmdStopClear ==
    /\ At("stop", "clear")
    /\ on' = on \ {Head(shell.todo)}
    /\ unsettled' = Live
    /\ IF Len(shell.todo) = 1 THEN shell' = Idle ELSE Goto("clear", Tail(shell.todo))
    /\ UNCHANGED <<threadVars, word, owner, health, patient>>

CmdRateLock ==
    /\ At("rate", "check")
    /\ owner' = "shell"
    /\ Goto("locked", << >>)
    /\ UNCHANGED <<on, threadVars, word, health, history>>

CmdRateUnlock ==
    /\ At("rate", "locked")
    /\ owner' = "nobody"
    /\ shell' = Idle
    /\ UNCHANGED <<on, threadVars, word, health, history>>

(* The interrupt: all flags off if all sensors were started together, else *)
(* all on, with threads for those that were off and a reporter.            *)
ButtonStop == /\ health = "sane" /\ "all" \in on
              /\ on' = {}
              /\ unsettled' = Live
              /\ Asks(shell = Idle)
              /\ UNCHANGED <<threadVars, shell, word, owner, health>>

ButtonStart == /\ health = "sane" /\ "all" \notin on
               /\ on' = Flags
               /\ Create(Sensors \ on, "all", "literal")
               /\ Asks(shell = Idle /\ Quiet)
               /\ UNCHANGED <<shell, word, owner, unsettled>>

-------------------------------------------------------------------------------

(* sampling_rate_mutex is never initialised.  That does no harm as long as *)
(* nobody has to wait for it; the list of waiting threads is not a list.   *)
RunOrContend(run) ==
    IF owner = "nobody" THEN run /\ UNCHANGED health
    ELSE health' = "contended" /\ UNCHANGED threadVars

Runs(t) == unsettled' = unsettled \ {t} /\ UNCHANGED patient

(* Mutants: a thread ends with the common flag; with the last flag.        *)
SensorEndsWithAll(s) ==
    /\ health = "sane" /\ sensor[s] = "ready"
    /\ "all" \notin on \/ s \notin Ready
    /\ sensor' = [sensor EXCEPT ![s] = "none"]
    /\ Runs(s)
    /\ UNCHANGED <<on, reporter, shell, word, owner, health>>

SensorEndsLate(s) ==
    /\ health = "sane" /\ sensor[s] = "ready"
    /\ on = {} \/ s \notin Ready
    /\ sensor' = [sensor EXCEPT ![s] = "none"]
    /\ Runs(s)
    /\ UNCHANGED <<on, reporter, shell, word, owner, health>>

SensorEnds(s) ==
    /\ health = "sane" /\ sensor[s] = "ready"
    /\ s \notin on \/ s \notin Ready
    /\ sensor' = [sensor EXCEPT ![s] = "none"]
    /\ Runs(s)
    /\ UNCHANGED <<on, reporter, shell, word, owner, health>>

(* Fetch, put into the ring buffer, sleep for a sampling period.           *)
(* Mutant: the flag is tested at the end of the loop.                      *)
SensorSamplesOnce(s) ==
    /\ health = "sane" /\ sensor[s] = "ready"
    /\ s \in Ready
    /\ RunOrContend(sensor' = [sensor EXCEPT ![s] = "asleep"] /\ UNCHANGED reporter)
    /\ Runs(s)
    /\ UNCHANGED <<on, shell, word, owner>>

SensorSamples(s) ==
    /\ health = "sane" /\ sensor[s] = "ready"
    /\ s \in on /\ s \in Ready
    /\ RunOrContend(sensor' = [sensor EXCEPT ![s] = "asleep"] /\ UNCHANGED reporter)
    /\ Runs(s)
    /\ UNCHANGED <<on, shell, word, owner>>

SensorWakes(s) ==
    /\ health = "sane" /\ sensor[s] = "asleep"
    /\ sensor' = [sensor EXCEPT ![s] = "ready"]
    /\ UNCHANGED <<on, reporter, shell, word, owner, health, history>>

(* The loops of the JSON threads go on for the device id they read now.    *)
Text == IF reporter.did = "literal" THEN "all" ELSE word

GoesOn == CASE reporter.entry = "one" -> Text \in on \ {"mag", "all"}
            [] reporter.entry = "mag" -> Text = "mag" /\ "mag" \in on
            [] OTHER                  -> "all" \in on

ReporterAt(place) == health = "sane" /\ reporter # NoReporter /\ reporter.at = place

ReporterEnds ==
    /\ ReporterAt("ready") /\ ~ GoesOn
    /\ reporter' = NoReporter
    /\ Runs("reporter")
    /\ UNCHANGED <<on, sensor, shell, word, owner, health>>

(* The thread for all sensors reads the rate without the mutex.            *)
ReporterReports ==
    LET sleep == reporter' = [reporter EXCEPT !.at = "asleep"] /\ UNCHANGED sensor
    IN  /\ ReporterAt("ready") /\ GoesOn
        /\ IF reporter.entry = "all" THEN sleep /\ UNCHANGED health
           ELSE RunOrContend(sleep)
        /\ Runs("reporter")
        /\ UNCHANGED <<on, shell, word, owner>>

ReporterWakes ==
    /\ ReporterAt("asleep")
    /\ reporter' = [reporter EXCEPT !.at = "ready"]
    /\ UNCHANGED <<on, sensor, shell, word, owner, health, history>>

-------------------------------------------------------------------------------

CmdStep == \/ CmdStartCheck \/ CmdStartMark \/ CmdStartTest \/ CmdStartMarkOne
           \/ CmdStartCreate \/ CmdStartReport
           \/ CmdStopRefused \/ CmdStopAccepted \/ CmdStopClear
           \/ CmdRateLock \/ CmdRateUnlock
Button == ButtonStop \/ ButtonStart
SensorStep(s) == SensorEnds(s) \/ SensorSamples(s) \/ SensorWakes(s)
ReporterStep  == ReporterEnds \/ ReporterReports \/ ReporterWakes

Next == \/ Typing
        \/ \E op \in {"start", "stop"}, did \in Flags : CmdCall(op, did)
        \/ CmdCall("rate", "all")
        \/ CmdStep
        \/ Button
        \/ \E s \in Sensors : SensorStep(s)
        \/ ReporterStep

Spec == Init /\ [][Next]_vars

(* Threads are scheduled and sleeps end.                                   *)
FairSpec == /\ Spec
            /\ WF_vars(ReporterStep)
            /\ \A s \in Sensors : WF_vars(SensorStep(s))

-------------------------------------------------------------------------------

(* A sensor that is marked as sampled has its thread, or the command that  *)
(* marked it is about to create it, however commands, button presses and   *)
(* threads that are ending interleave.                                     *)
Creating(s) == /\ shell.op = "start" /\ shell.step = "create"
               /\ Head(shell.todo) = s
SamplingHasThread ==
    health = "sane" => \A s \in on \cap Ready : sensor[s] # "none" \/ Creating(s)

(* For a patient user no thread is ever created on the structure or stack  *)
(* of one that still lives, and nobody waits for the rate: one period      *)
(* after a stop all threads have ended.                                    *)
StaysSane == patient => health = "sane"

(* A thread whose flag goes off ends, unless sampling is switched on again *)
StopsEnd ==
    /\ \A s \in Sensors :
          s \notin on ~> (sensor[s] = "none" \/ s \in on \/ health # "sane")
    /\ on = {} ~> (reporter = NoReporter \/ on # {} \/ health # "sane")

(* prac2/README.md: "Encodes the sampled data into JSON fomat."  While     *)
(* something is sampled and no command is at work there is a JSON thread.  *)
SamplingIsReported ==
    health = "sane" /\ shell = Idle /\ on # {} => reporter # NoReporter

===============================================================================
