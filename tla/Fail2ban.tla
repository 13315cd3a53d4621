------------------------------ MODULE Fail2ban ------------------------------
(***************************************************************************)
(* The fail2ban module (modules/suctl-mod-fail2ban): jails are switched,   *)
(* tuned, created and deleted through a drop-in of their own, jail.d/      *)
(* <jail>.local, and then in the server that runs.                         *)
(*                                                                         *)
(* A call writes the disk first and the server second.  Between the two    *)
(* the server may restart or stop answering, an operator may edit the      *)
(* other files, and the module's process may die.  Calls do not overlap:   *)
(* the module is in the footprint of each of its jobs (Broker).            *)
(*                                                                         *)
(* Of the tunables one is kept, retry; ignore is ignoreip.  The files that *)
(* are read before the drop-ins are one layer, below; those of jail.d that *)
(* sort after a jail's drop-in are the layer after.                        *)
(***************************************************************************)
EXTENDS Naturals, FiniteSets

CONSTANTS
    Jail, Catalog,    \* the jails; those suctl has a recipe and a filter for
    Addr, Value,      \* addresses to ignore; values of the tunable
    DefaultIgnore,    \* [DEFAULT] ignoreip
    Unset,            \* a parameter a section does not name
    Below, After,     \* what the operator's files may say of a jail
    MaxCalls, MaxEdits, MaxFaults   \* bounds


VARIABLES
    file,             \* file[layer][j]: the section, or NoSection
    filters,          \* filter.d: the filters that are there; a jail's bears its name
    server,           \* "up", "silent" (it runs and does not answer), "down"
    live,             \* live[j]: what is in force, or NotLoaded
    call,             \* the call at work, or Idle
    \* for the properties:
    asked,            \* asked[j]: what the last switch that was answered "done" asked for
    excused,          \* jails whose live apply failed, was impossible or was cut off
    calls, edits, faults            \* counters for the bounds

vars == <<file, filters, server, live, call, asked, excused, calls, edits, faults>>

Layers    == {"below", "ours", "after"}     \* in the order they are read
NoSection == [none |-> TRUE]
Section   == [enabled : {Unset, "true", "false"}, filter : {Unset} \cup Jail,
              retry : {Unset} \cup Value, ignore : {Unset} \cup SUBSET Addr]
Blank     == [enabled |-> Unset, filter |-> Unset, retry |-> Unset, ignore |-> Unset]
NotLoaded == [loaded |-> FALSE]
Idle      == [op |-> "none"]

ASSUME Fail2banAssumption ==
    /\ Catalog \subseteq Jail /\ DefaultIgnore \subseteq Addr
    /\ Unset \notin Jail \cup Value \cup {"true", "false"} /\ \A ips \in SUBSET Addr : Unset # ips
    /\ Below \cup After \subseteq Section \cup {NoSection}
    /\ MaxCalls \in Nat /\ MaxEdits \in Nat /\ MaxFaults \in Nat

------------------------------------------------------------------------------
\* _cascade_jails, _param_layers: whether layer l names param for j.
ParamLayer(l, j, param) == file[l][j] # NoSection /\ file[l][j][param] # Unset

\* _effective: the last layer that names it counts.
Effective(j, param) ==
    IF ParamLayer("after", j, param)      THEN file["after"][j][param]
    ELSE IF ParamLayer("ours", j, param)  THEN file["ours"][j][param]
    ELSE IF ParamLayer("below", j, param) THEN file["below"][j][param]
    ELSE Unset

\* _read_dropin: the settings of our drop-in; nothing if it is not there.
Dropin(j) == IF file["ours"][j] = NoSection THEN Blank ELSE file["ours"][j]

\* fail2ban's own reading of the same files.
Enabled(j)  == Effective(j, "enabled") = "true"
FilterOf(j) == IF Effective(j, "filter") = Unset THEN j ELSE Effective(j, "filter")
InForce(j)  ==
    [loaded |-> TRUE,
     retry  |-> Effective(j, "retry"),
     ignore |-> IF Effective(j, "ignore") = Unset THEN DefaultIgnore ELSE Effective(j, "ignore")]
Loads(j)    == Enabled(j) /\ FilterOf(j) \in filters

\* f2b, _server_has_jail: with a server that does not answer no jail is there.
HasJail(j) == server = "up" /\ live[j] # NotLoaded

\* _write_dropin: the file is replaced as a whole.
WriteDropin(j, settings, enabled) == file' = [file EXCEPT !["ours"][j] = [settings EXCEPT !.enabled = enabled]]

------------------------------------------------------------------------------
Call(op, j, arg) ==
    /\ call = Idle /\ calls < MaxCalls                             \* bound
    /\ call' = [op |-> op, jail |-> j, arg |-> arg, at |-> "disk", clean |-> j \notin excused]
    /\ calls' = calls + 1
    /\ UNCHANGED <<file, filters, server, live, asked, excused, edits, faults>>

At(op, at) == call # Idle /\ call.op = op /\ call.at = at
Goto(at)   == call' = [call EXCEPT !.at = at]
Bounds     == UNCHANGED <<calls, edits, faults>>

\* The call is answered: done, or with an error.
Done   == call' = Idle
Refuse == Done /\ UNCHANGED <<file, filters, server, live, asked, excused>> /\ Bounds

\* What it asked for no longer stands, or stands now.
Asks(what) == asked' = [asked EXCEPT ![call.jail] = what]
Excuse(j)  == excused' = excused \cup {j}
Settle(j)  == excused' = excused \ {j}

\* jail_create: the filter of the recipe, then a drop-in that does not enable.
CreateFilter ==
    /\ At("create", "disk")
    /\ IF call.jail \notin Catalog \/ file["ours"][call.jail] # NoSection THEN Refuse
       ELSE /\ filters' = filters \cup {call.jail}
            /\ Goto("dropin")
            /\ UNCHANGED <<file, server, live, asked, excused>> /\ Bounds

CreateDropin ==
    /\ At("create", "dropin")
    /\ WriteDropin(call.jail, [Blank EXCEPT !.filter = call.jail], "false")
    /\ Done /\ Asks("none") /\ Excuse(call.jail)
    /\ UNCHANGED <<filters, server, live>> /\ Bounds

\* mutant: the filter goes before the drop-in that names it
DeleteDropin_after ==
    /\ At("delete", "disk")
    /\ IF file["ours"][call.jail] = NoSection THEN Refuse
       ELSE /\ call' = [call EXCEPT !.arg = file["ours"][call.jail].filter, !.at = "filter"]
            /\ filters' = filters \ {file["ours"][call.jail].filter}
            /\ Asks("none") /\ Excuse(call.jail)
            /\ UNCHANGED <<file, server, live>> /\ Bounds

\* jail_delete: the drop-in, then the filter it named if the jail is one of the
\* catalog's, then a stop nobody waits for.
DeleteDropin ==
    /\ At("delete", "disk")
    /\ IF file["ours"][call.jail] = NoSection THEN Refuse
       ELSE /\ call' = [call EXCEPT !.arg = file["ours"][call.jail].filter, !.at = "filter"]
            /\ file' = [file EXCEPT !["ours"][call.jail] = NoSection]
            /\ Asks("none") /\ Excuse(call.jail)
            /\ UNCHANGED <<filters, server, live>> /\ Bounds

DeleteFilter ==
    /\ At("delete", "filter")
    /\ filters' = IF call.jail \in Catalog THEN filters \ {call.arg} ELSE filters
    /\ Goto("server")
    /\ UNCHANGED <<file, server, live, asked, excused>> /\ Bounds

DeleteStop ==
    /\ At("delete", "server")
    /\ \/ HasJail(call.jail) /\ live' = [live EXCEPT ![call.jail] = NotLoaded]
       \/ UNCHANGED live
    /\ Done
    /\ UNCHANGED <<file, filters, server, asked, excused>> /\ Bounds

\* jail_activate, jail_deactivate: the switch in our drop-in.
SwitchDisk(op, enabled) ==
    /\ At(op, "disk")
    /\ WriteDropin(call.jail, Dropin(call.jail), enabled)
    /\ Goto("server") /\ Asks("none") /\ Excuse(call.jail)
    /\ UNCHANGED <<filters, server, live>> /\ Bounds

\* mutant: a jail the server already has is not reloaded
ActivateReload_once ==
    /\ At("activate", "server")
    /\ \/ /\ server = "up" /\ (Enabled(call.jail) => Loads(call.jail))
          /\ live' = [live EXCEPT ![call.jail] = IF Loads(call.jail) /\ ~HasJail(call.jail) THEN InForce(call.jail) ELSE @]
          /\ Asks("on") /\ Settle(call.jail)
       \/ UNCHANGED <<live, asked, excused>>
    /\ Done
    /\ UNCHANGED <<file, filters, server>> /\ Bounds

\* _client_reload_jail: the client reads the files and streams the jail.  One that
\* is not enabled is stopped, one whose filter is missing is an error.
ActivateReload ==
    /\ At("activate", "server")
    /\ \/ /\ server = "up" /\ (Enabled(call.jail) => Loads(call.jail))
          /\ live' = [live EXCEPT ![call.jail] = IF Loads(call.jail) THEN InForce(call.jail) ELSE NotLoaded]
          /\ Asks("on") /\ Settle(call.jail)
       \/ UNCHANGED <<live, asked, excused>>                       \* CALLABLE_FAILED
    /\ Done
    /\ UNCHANGED <<file, filters, server>> /\ Bounds

DeactivateStop ==
    /\ At("deactivate", "server")
    /\ \/ /\ HasJail(call.jail)
          /\ live' = [live EXCEPT ![call.jail] = NotLoaded]
          /\ Asks("off") /\ Settle(call.jail)
       \/ HasJail(call.jail) /\ UNCHANGED <<live, asked, excused>> \* CALLABLE_FAILED
       \/ ~HasJail(call.jail) /\ Asks("off") /\ UNCHANGED <<live, excused>>
    /\ Done
    /\ UNCHANGED <<file, filters, server>> /\ Bounds

\* mutant: a rewritten drop-in does not say whether the jail is enabled
Stamp_none(j) == Unset

\* _effective_enabled: what a tuned drop-in says of the switch is what already holds.
Stamp(j) == Effective(j, "enabled")

\* ignoreip_change: the list of our drop-in alone, with the address or without.
Listed(j, ip, add) ==
    LET ips == IF Dropin(j).ignore = Unset THEN {} ELSE Dropin(j).ignore
    IN  IF add THEN ips \cup {ip} ELSE ips \ {ip}

\* jail_set, ignoreip_change: the drop-in with one setting changed.  An empty list
\* is not written.
TuneDisk ==
    /\ call # Idle /\ call.op \in {"set", "add", "remove"} /\ call.at = "disk"
    /\ LET j == call.jail
           ips == Listed(j, call.arg, call.op = "add")
           settings == IF call.op = "set" THEN [Dropin(j) EXCEPT !.retry = call.arg]
                       ELSE [Dropin(j) EXCEPT !.ignore = IF ips = {} THEN Unset ELSE ips]
       IN  WriteDropin(j, settings, Stamp(j)) /\ Excuse(j)
    /\ Goto("server")
    /\ UNCHANGED <<filters, server, live, asked>> /\ Bounds

\* The same change in the server, where the jail is loaded.  A jail that was in
\* step with its files before the call is so again.
TuneServer ==
    /\ call # Idle /\ call.op \in {"set", "add", "remove"} /\ call.at = "server"
    /\ \/ /\ HasJail(call.jail)
          /\ \/ call.op = "set"    /\ live' = [live EXCEPT ![call.jail].retry = call.arg]
             \/ call.op = "add"    /\ live' = [live EXCEPT ![call.jail].ignore = @ \cup {call.arg}]
             \/ call.op = "remove" /\ live' = [live EXCEPT ![call.jail].ignore = @ \ {call.arg}]
          /\ IF call.clean THEN Settle(call.jail) ELSE UNCHANGED excused
       \/ UNCHANGED <<live, excused>>                              \* not loaded, or CALLABLE_FAILED
    /\ Done
    /\ UNCHANGED <<file, filters, server, asked>> /\ Bounds

------------------------------------------------------------------------------
\* A call at work on one of the jails js no longer knows what the server has.
Muddles(js) == call' = IF call # Idle /\ call.jail \in js THEN [call EXCEPT !.clean = FALSE] ELSE call

\* The module's process dies with a call at work.
Killed ==
    /\ call # Idle /\ faults < MaxFaults                           \* bound
    /\ faults' = faults + 1 /\ Done
    /\ UNCHANGED <<file, filters, server, live, asked, excused, calls, edits>>

\* The server stops answering, or stops.
Fault(s) ==
    /\ server # s /\ faults < MaxFaults                            \* bound
    /\ faults' = faults + 1
    /\ server' = s
    /\ live' = IF s = "down" THEN [j \in Jail |-> NotLoaded] ELSE live
    /\ UNCHANGED <<file, filters, call, asked, excused, calls, edits>>

\* It answers again, or starts and is given all that the files enable.  A jail is
\* in step with its files then, unless a call is between the two.
Restart ==
    /\ server \in {"up", "down"}
    /\ server' = "up"
    /\ live' = [j \in Jail |-> IF Loads(j) THEN InForce(j) ELSE NotLoaded]
    /\ excused' = IF call = Idle THEN {} ELSE {call.jail}
    /\ Muddles(Jail)
    /\ UNCHANGED <<file, filters, asked>> /\ Bounds

Answers ==
    /\ server = "silent" /\ server' = "up"
    /\ UNCHANGED <<file, filters, live, call, asked, excused>> /\ Bounds

\* The operator edits a file that is not ours.
Edit ==
    /\ edits < MaxEdits                                            \* bound
    /\ edits' = edits + 1
    /\ \E j \in Jail :
           /\ \/ \E s \in Below \ {file["below"][j]} : file' = [file EXCEPT !["below"][j] = s]
              \/ \E s \in After \ {file["after"][j]} : file' = [file EXCEPT !["after"][j] = s]
           /\ Excuse(j) /\ Muddles({j})
    /\ UNCHANGED <<filters, server, live, asked, calls, faults>>

Init ==
    /\ file = [l \in Layers |-> [j \in Jail |-> NoSection]]
    /\ filters = Jail \ Catalog
    /\ server = "up"
    /\ live = [j \in Jail |-> NotLoaded]
    /\ call = Idle
    /\ asked = [j \in Jail |-> "none"] /\ excused = {}
    /\ calls = 0 /\ edits = 0 /\ faults = 0

Next ==
    \/ \E j \in Jail :
           \/ \E op \in {"create", "delete", "activate", "deactivate"} : Call(op, j, Unset)
           \/ \E v \in Value : Call("set", j, v)
           \/ \E ip \in Addr : Call("add", j, ip) \/ Call("remove", j, ip)
    \/ CreateFilter \/ CreateDropin
    \/ DeleteDropin \/ DeleteFilter \/ DeleteStop
    \/ SwitchDisk("activate", "true") \/ ActivateReload
    \/ SwitchDisk("deactivate", "false") \/ DeactivateStop
    \/ TuneDisk \/ TuneServer
    \/ Killed \/ Fault("silent") \/ Fault("down") \/ Restart \/ Answers \/ Edit

Spec == Init /\ [][Next]_vars

------------------------------------------------------------------------------
\* Every variable has its type.
TypeOK ==
    /\ file \in [Layers -> [Jail -> Section \cup {NoSection}]]
    /\ filters \subseteq Jail /\ server \in {"up", "silent", "down"}
    /\ \A j \in Jail : live[j] = NotLoaded \/ live[j].ignore \subseteq Addr
    /\ asked \in [Jail -> {"none", "on", "off"}] /\ excused \subseteq Jail

\* "suctl wins at runtime" (_enabled_override_note): what the last switch that was
\* answered asked for is what the files say, whatever was tuned or edited since,
\* and so what every restart of fail2ban brings about.
AskedHolds == \A j \in Jail :
    /\ asked[j] = "on" => Enabled(j)
    /\ asked[j] = "off" => ~Enabled(j)

\* Every variable has its type, and a drop-in suctl made names a filter that is
\* there, at every step of a creation and a deletion and wherever the module is cut
\* off.
DropinHasFilter == TypeOK /\ \A j \in Jail :
    file["ours"][j] # NoSection /\ file["ours"][j].filter # Unset => file["ours"][j].filter \in filters

\* A jail's switch is moved by whoever asks for it and by nothing else: no step
\* takes back what the last switch asked for, and tuning a jail, one that no
\* switch has settled included, "never flips run state" (jail_set).
SwitchStands ==
    [][ /\ AskedHolds'
        /\ TuneDisk => \A j \in Jail : Enabled(j)' = Enabled(j) ]_vars

\* What runs is what the files say, so that a restart changes nothing, except in a
\* jail where a call failed, met no server or was cut off, or a file was edited.
RestartChangesNothing == \A j \in Jail :
    live[j] # NotLoaded /\ j \notin excused => Loads(j) /\ live[j] = InForce(j)
==============================================================================
