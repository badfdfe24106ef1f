-------------------------------- MODULE WifiStart --------------------------------
(***************************************************************************)
(* The start of the Wi-Fi program (wifi.c).  main asks for a connection    *)
(* once and waits for two semaphores, one given when the connection comes  *)
(* about, one when an address is assigned.  Events are handled one by one  *)
(* by the network management thread, some time after they happened; the    *)
(* network is external and connects, fails and disconnects as it likes.    *)
(***************************************************************************)
EXTENDS Integers, Sequences

MaxEvents == 3            (* bound on the events that wait to be handled     *)

VARIABLES
    wifi_main,               (* where main is                               *)
    link, address,           (* the network: connected, address assigned    *)
    events,                  (* events that have happened, oldest first     *)
    wifi_connected,          (* the semaphores, at most 1                   *)
    ipv4_address_obtained,
    informed                 (* history: the connection as last reported    *)

network == <<link, address>>
sems    == <<wifi_connected, ipv4_address_obtained>>
wifiVars == <<wifi_main, network, events, sems, informed>>

WifiEvents == {"connected", "refused", "disconnected", "undisturbed", "address"}

WifiTypeOK ==
    /\ wifi_main \in {"connect", "waitLink", "status", "waitAddress", "ready"}
    /\ link \in {"unasked", "down", "up"} /\ address \in BOOLEAN
    /\ events \in Seq(WifiEvents) /\ Len(events) =< MaxEvents
    /\ wifi_connected \in 0 .. 1 /\ ipv4_address_obtained \in 0 .. 1
    /\ informed \in BOOLEAN

WifiInit == /\ wifi_main = "connect"
            /\ link = "unasked" /\ address = FALSE /\ events = << >>
            /\ wifi_connected = 0 /\ ipv4_address_obtained = 0
            /\ informed = FALSE

(* The request is made or fails; main waits for its success either way.    *)
WifiConnect == /\ wifi_main = "connect"
               /\ wifi_main' = "waitLink"
               /\ link' \in {"down", "unasked"}
               /\ UNCHANGED <<address, events, sems, informed>>

TakeConnected == /\ wifi_main = "waitLink" /\ wifi_connected = 1
                 /\ wifi_connected' = 0
                 /\ wifi_main' = "status"
                 /\ UNCHANGED <<network, events, ipv4_address_obtained, informed>>

WifiStatus == /\ wifi_main = "status"
              /\ wifi_main' = "waitAddress"
              /\ UNCHANGED <<network, events, sems, informed>>

TakeAddress == /\ wifi_main = "waitAddress" /\ ipv4_address_obtained = 1
               /\ ipv4_address_obtained' = 0
               /\ wifi_main' = "ready"
               /\ UNCHANGED <<network, events, wifi_connected, informed>>

-------------------------------------------------------------------------------
(* The network.                                                            *)

Happens(event) == Len(events) < MaxEvents /\ events' = Append(events, event)

LinkUp == /\ link = "down" /\ Happens("connected")
          /\ link' = "up"
          /\ UNCHANGED <<wifi_main, address, sems, informed>>

LinkRefused == /\ link = "down" /\ Happens("refused")
               /\ UNCHANGED <<wifi_main, network, sems, informed>>

LinkLost == /\ link = "up" /\ Happens("disconnected")
            /\ link' = "down" /\ address' = FALSE
            /\ UNCHANGED <<wifi_main, sems, informed>>

(* A request to disconnect was refused.                                    *)
LinkKept == /\ link = "up" /\ Happens("undisturbed")
            /\ UNCHANGED <<wifi_main, network, sems, informed>>

Assign == /\ link = "up" /\ ~ address /\ Happens("address")
          /\ address' = TRUE
          /\ UNCHANGED <<wifi_main, link, sems, informed>>

-------------------------------------------------------------------------------
(* wifi_mgmt_event_handler.                                                *)

Handle(event) == events # << >> /\ Head(events) = event /\ events' = Tail(events)

HandleConnectResult ==
    \/ /\ Handle("connected")
       /\ wifi_connected' = 1 /\ informed' = TRUE
       /\ UNCHANGED <<wifi_main, network, ipv4_address_obtained>>
    \/ /\ Handle("refused")
       /\ UNCHANGED <<wifi_main, network, sems, informed>>

(* Mutant: the semaphore is left alone.                                    *)
HandleDisconnectLeaves ==
    \/ /\ Handle("disconnected")
       /\ informed' = FALSE
       /\ UNCHANGED <<wifi_main, network, sems>>
    \/ /\ Handle("undisturbed")
       /\ UNCHANGED <<wifi_main, network, sems, informed>>

HandleDisconnectResult ==
    \/ /\ Handle("disconnected")
       /\ wifi_connected' = 0 /\ informed' = FALSE
       /\ UNCHANGED <<wifi_main, network, ipv4_address_obtained>>
    \/ /\ Handle("undisturbed")
       /\ UNCHANGED <<wifi_main, network, sems, informed>>

(* Mutant: an address counts only while main waits for it.                 *)
HandleIpv4Early == /\ Handle("address")
                   /\ ipv4_address_obtained' = IF wifi_main = "waitAddress" THEN 1 ELSE 0
                   /\ UNCHANGED <<wifi_main, network, wifi_connected, informed>>

(* The loop over the addresses prints; the semaphore is given after it     *)
(* whichever kind of address there is.                                     *)
HandleIpv4Result == /\ Handle("address")
                    /\ ipv4_address_obtained' = 1
                    /\ UNCHANGED <<wifi_main, network, wifi_connected, informed>>

MainSteps == WifiConnect \/ TakeConnected \/ WifiStatus \/ TakeAddress
Handler   == HandleConnectResult \/ HandleDisconnectResult \/ HandleIpv4Result
WifiNext  == MainSteps \/ Handler
                \/ LinkUp \/ LinkRefused \/ LinkLost \/ LinkKept \/ Assign
WifiSpec  == WifiInit /\ [][WifiNext]_wifiVars

-------------------------------------------------------------------------------

(* main goes on from its first wait only while the last thing it could     *)
(* know of the connection is that it is there: a connection that is lost   *)
(* before main looks is withdrawn from the semaphore.                      *)
ConnectsWhenInformed == [][TakeConnected => informed]_wifiVars

(* A connection that lasts and has an address brings main to its end, in   *)
(* whatever order and however late the events are handled.                 *)
Lasts == link = "up" /\ address
LastingLinkIsUsed == <>[]Lasts => <>(wifi_main = "ready")
===============================================================================
