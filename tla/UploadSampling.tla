----------------------------- MODULE UploadSampling -----------------------------
(***************************************************************************)
(* The sampling program of the thesis (seminarold).  Its shell command and *)
(* its threads are those of prac 2 without the button and the              *)
(* magnetometer, so the actions of SamplingControl are taken from there.   *)
(* What is new is that the JSON thread for all sensors posts each line to  *)
(* a server before it sleeps.  It does so with blocking calls: to the rest *)
(* of the program the thread is asleep until the last of them returns.     *)
(***************************************************************************)
EXTENDS SamplingControl

MaxOpen == 2             (* bound on the sockets that are open               *)

VARIABLES
    wifi,        (* the request for a connection, made once by main         *)
    upload,      (* the call of send_json_to_influxdb that comes next       *)
    open,        (* how many sockets are open                               *)
    server       (* external: what the server has to answer                 *)

net == <<wifi, upload, open, server>>
uploadVars == <<vars, net>>

UploadTypeOK ==
    /\ TypeOK
    /\ wifi \in {"unasked", "asked", "failed"}
    /\ upload \in {"none", "socket", "connect", "send", "recv"}
    /\ upload # "none" => reporter.entry = "all" /\ reporter.at = "asleep"
    /\ open \in 0 .. MaxOpen
    /\ server \in {"nothing", "request"}

UploadInit == /\ Init
              /\ wifi = "unasked" /\ upload = "none"
              /\ open = 0 /\ server = "nothing"

(* main asks for the network; a failure is logged, and that is all.        *)
ConnectToWifi == /\ wifi = "unasked"
                 /\ wifi' \in {"asked", "failed"}
                 /\ UNCHANGED <<vars, upload, open, server>>

-------------------------------------------------------------------------------
(* The shell command sample and the sensor threads.                        *)

SampleCall == /\ \/ Typing
                 \/ \E op \in {"start", "stop"}, did \in Flags : CmdCall(op, did)
                 \/ CmdCall("rate", "all")
              /\ UNCHANGED net
SampleStart == /\ \/ CmdStartCheck  \/ CmdStartMark \/ CmdStartTest
                  \/ CmdStartMarkOne \/ CmdStartCreate \/ CmdStartReport
               /\ UNCHANGED net
SampleStop == (CmdStopRefused \/ CmdStopAccepted \/ CmdStopClear) /\ UNCHANGED net
SampleRate == (CmdRateLock \/ CmdRateUnlock) /\ UNCHANGED net

SensorThread(s) == SensorStep(s) /\ UNCHANGED net

-------------------------------------------------------------------------------
(* The JSON threads.                                                       *)

SingleSensorJson == reporter.entry = "one" /\ ReporterStep /\ UNCHANGED net

(* The line of JSON is encoded into 256 bytes; if it does not fit, because *)
(* of what did points to by now, it is not sent.                           *)
AllSensorsReport == /\ reporter.entry = "all" /\ ReporterReports
                    /\ upload' \in {"none", "socket"}
                    /\ UNCHANGED <<wifi, open, server>>

AllSensorsEnds == reporter.entry = "all" /\ ReporterEnds /\ UNCHANGED net

(* The sleep begins when the line has been sent, or has failed to be.      *)
AllSensorsWakes == /\ reporter.entry = "all" /\ ReporterWakes
                   /\ upload = "none"
                   /\ UNCHANGED net

-------------------------------------------------------------------------------
(* send_json_to_influxdb.                                                  *)

Calls(call) == health = "sane" /\ upload = call

Socket == /\ Calls("socket")
          /\ \/ upload' = "connect" /\ open < MaxOpen /\ open' = open + 1
             \/ upload' = "none" /\ UNCHANGED open
          /\ UNCHANGED <<vars, wifi, server>>

Close == open' = open - 1 /\ server' = "nothing"

Connect == /\ Calls("connect")
           /\ \/ upload' = "send" /\ wifi = "asked" /\ UNCHANGED <<open, server>>
              \/ upload' = "none" /\ Close
           /\ UNCHANGED <<vars, wifi>>

(* Mutants: the error returns without closing; it does not return.         *)
SendLeaks == /\ Calls("send")
             /\ \/ upload' = "recv" /\ server' = "request"
                \/ upload' = "none" /\ UNCHANGED server
             /\ UNCHANGED <<vars, wifi, open>>

SendFallsThrough == /\ Calls("send")
                    /\ upload' = "recv"
                    /\ server' \in {"request", "nothing"}
                    /\ UNCHANGED <<vars, wifi, open>>

Send == /\ Calls("send")
        /\ \/ upload' = "recv" /\ server' = "request" /\ UNCHANGED open
           \/ upload' = "none" /\ Close
        /\ UNCHANGED <<vars, wifi>>

(* The server answers or hangs up; the socket has no timeout.              *)
Recv == /\ Calls("recv") /\ server = "request"
        /\ upload' = "none" /\ Close
        /\ UNCHANGED <<vars, wifi>>

SendJsonToInfluxdb == Socket \/ Connect \/ Send \/ Recv
AllSensorsJson == \/ AllSensorsReport \/ AllSensorsEnds \/ AllSensorsWakes
                  \/ SendJsonToInfluxdb

UploadNext == \/ ConnectToWifi
              \/ SampleCall \/ SampleStart \/ SampleStop \/ SampleRate
              \/ \E s \in Sensors : SensorThread(s)
              \/ SingleSensorJson \/ AllSensorsJson

UploadSpec == UploadInit /\ [][UploadNext]_uploadVars

-------------------------------------------------------------------------------

(* Whichever call fails, no socket is left open when the thread goes to    *)
(* sleep, and it never has two.                                            *)
SocketsClosed == open = IF upload \in {"none", "socket"} THEN 0 ELSE 1

(* Every post comes to its end, sent or failed, unless the server leaves a *)
(* request without an answer; and a thread whose flag goes off while it    *)
(* posts ends as well.  (After anything undefined threads are not followed.)*)
Unanswered == upload = "recv" /\ server = "request"
PostsEnd ==
    /\ upload # "none" ~> upload = "none" \/ Unanswered \/ health # "sane"
    /\ on = {} ~> \/ reporter = NoReporter \/ on # {}
                  \/ Unanswered \/ health # "sane"
===============================================================================
