--------------------------------- MODULE Boot ---------------------------------
(***************************************************************************)
(* What survives a reset: the wifi settings and the recovery flag in NVS   *)
(* (storage.c), and everybody who reads or writes them: app_main at boot,  *)
(* APPS on a configuration packet, the web form of recovery mode, and the  *)
(* task that watches the recovery button.                                  *)
(*                                                                         *)
(* A reset can come between any two steps: a loss of power, or esp_restart *)
(* called by another task.  NVS is outside the repository: a value that    *)
(* has been set is read back at once, but may or may not survive a reset   *)
(* until nvs_commit.  Its calls fail, and the power too, only in times of  *)
(* `trouble`.                                                              *)
(*                                                                         *)
(* A string is represented by its length; 0 is also a key that is missing. *)
(***************************************************************************)
EXTENDS Naturals

CONSTANT Typed  \* the settings users ask for: records of the two lengths

ASSUME TypedAssumption == Typed \subseteq [ssid : 0 .. 255, pwd : 0 .. 255]

VARIABLES
    flash,          \* what survives a reset, by key
    written,        \* what nvs_get returns, by key
    trouble,        \* the power and the flash are not to be relied on
    ready,          \* nvs_flash_init has succeeded since the reset
    main_pc,        \* app_main
    recovery,       \* its local
    in_use,         \* wifi_config.sta of init_at_wifi
    store_pc,       \* store_wifi_details, called by APPS or by root_handler
    details,        \* its arguments
    listen_pc,      \* recovery_listener_runloop
    last_recovery,  \* its local: the previous sample
    button,         \* the level of RECOVER_BUTTON: 0 is pressed
    last,           \* history: the last settings stored in full
    doubt,          \* history: a store since then was cut short or failed
    owed,           \* history: recovery mode has been asked for
    stuck           \* history: clear_recovery has failed in this boot

keys == <<flash, written>>
main == <<main_pc, recovery, in_use>>
store == <<store_pc, details>>
listener == <<listen_pc, last_recovery>>
wishes == <<last, doubt>>
flag == <<owed, stuck>>
vars == <<keys, trouble, ready, main, store, listener, button, wishes, flag>>

Nothing == [ssid |-> 0, pwd |-> 0]
Empty == [ssid |-> 0, pwd |-> 0, recovery |-> 0]

\* The settings among the keys, and the keys with one replaced.
Settings(k) == [ssid |-> k.ssid, pwd |-> k.pwd]

-----------------------------------------------------------------------------
(* NVS.                                                                    *)

MayFail == trouble \/ ~ready

nvs_set(key, value) ==
    ready /\ written' = [written EXCEPT ![key] = value] /\ UNCHANGED flash

nvs_get_u8 == (IF ready THEN {written.recovery} ELSE {}) \cup (IF MayFail THEN {0} ELSE {})

nvs_commit(namespace) ==
    /\ ready
    /\ flash' = [key \in DOMAIN flash |-> IF key \in namespace THEN written[key] ELSE flash[key]]
    /\ UNCHANGED written

Wifi == {"ssid", "pwd"}
Airtalk == {"recovery"}

TroubleChanges ==
    /\ trouble' = ~trouble
    /\ UNCHANGED <<keys, ready, main, store, listener, button, wishes, flag>>

\* nvs_flash_init, again after an erase if need be.
InitNvs ==
    \/ ready' = TRUE /\ UNCHANGED <<keys, wishes>>
    \/ trouble /\ ready' = FALSE /\ UNCHANGED <<keys, wishes>>
    \/ /\ trouble /\ ready' = TRUE
       /\ flash' = Empty /\ written' = Empty
       /\ last' = Nothing /\ doubt' = FALSE

\* A reset: each key that was set and not committed survives, or not.
Storing == store_pc \in {"pwd", "commit"}

Reset ==
    /\ \E kept \in SUBSET DOMAIN flash :
          flash' = [key \in DOMAIN flash |-> IF key \in kept THEN written[key] ELSE flash[key]]
    /\ written' = flash'
    /\ ready' = FALSE /\ stuck' = FALSE
    /\ main_pc' = "storage" /\ recovery' = 0 /\ in_use' = Nothing
    /\ store_pc' = "idle" /\ details' = Nothing
    /\ listen_pc' = "off" /\ last_recovery' = 1
    /\ doubt' = (doubt \/ Storing)
    /\ UNCHANGED <<trouble, button, last, owed>>

PowerLoss == trouble /\ Reset

-----------------------------------------------------------------------------
(* app_main.                                                               *)

storage_init ==
    /\ main_pc = "storage" /\ main_pc' = "get"
    /\ InitNvs
    /\ UNCHANGED <<trouble, recovery, in_use, store, listener, button, flag>>

\* A flag that cannot be read is not set.
get_recovery ==
    /\ main_pc = "get" /\ main_pc' = "clear"
    /\ recovery' \in nvs_get_u8
    /\ UNCHANGED <<keys, trouble, ready, in_use, store, listener, button, wishes, flag>>

clear_recovery_OnlyIfClear ==
    /\ main_pc = "clear"
    /\ IF recovery = 1 THEN main_pc' = "branch" /\ UNCHANGED <<keys, stuck>>
       ELSE main_pc' = "clear_commit" /\ nvs_set("recovery", 0) /\ UNCHANGED stuck
    /\ UNCHANGED <<trouble, ready, recovery, in_use, store, listener, button, wishes, owed>>

\* nvs_open, after which the function gives up, and nvs_set_u8, whose result is
\* ignored.
clear_recovery ==
    /\ main_pc = "clear"
    /\ \/ main_pc' = "clear_commit" /\ nvs_set("recovery", 0) /\ UNCHANGED stuck
       \/ MayFail /\ main_pc' \in {"clear_commit", "branch"} /\ stuck' = TRUE /\ UNCHANGED keys
    /\ UNCHANGED <<trouble, ready, recovery, in_use, store, listener, button, wishes, owed>>

clear_recovery_commit ==
    /\ main_pc = "clear_commit" /\ main_pc' = "branch"
    /\ \/ nvs_commit(Airtalk) /\ UNCHANGED stuck
       \/ MayFail /\ stuck' = TRUE /\ UNCHANGED keys
    /\ UNCHANGED <<trouble, ready, recovery, in_use, store, listener, button, wishes, owed>>

\* Recovery mode, which is left only by a reset.  Its second storage_init has no
\* effect: the flag has been read, so NVS is ready.
recovery_main ==
    /\ main_pc = "branch" /\ recovery = 1
    /\ main_pc' = "recovery"
    /\ owed' = (owed /\ stuck)
    /\ UNCHANGED <<keys, trouble, ready, recovery, in_use, store, listener, button, wishes, stuck>>

Bridge ==
    /\ main_pc = "branch" /\ recovery = 0
    /\ main_pc' = "wifi"
    /\ owed' = (owed /\ stuck)
    /\ UNCHANGED <<keys, trouble, ready, recovery, in_use, store, listener, button, wishes, stuck>>

nvs_get_str_NoTerminator(key, length) ==
    IF ready /\ written[key] < length - 1 THEN {written[key]} ELSE {0}

\* nvs_get_str fails on a string that does not fit with its terminator.  Its result
\* is ignored, and the buffer stays empty.
nvs_get_str(key, length) ==
    IF ready /\ written[key] + 1 <= length THEN {written[key]} ELSE {0}

\* For init_at_wifi 32 bytes have to do for the SSID and 64 for the password.
get_wifi_details ==
    /\ main_pc = "wifi" /\ main_pc' = "start"
    /\ \E nothing \in IF MayFail THEN {{}, {0}} ELSE {{}} :
          in_use' \in [ssid : nvs_get_str("ssid", 32) \cup nothing,
                      pwd : nvs_get_str("pwd", 64) \cup nothing]
    /\ UNCHANGED <<keys, trouble, ready, recovery, store, listener, button, wishes, flag>>

\* start_recovery_listener, and the tasks of the bridge.
StartTasks ==
    /\ main_pc = "start" /\ main_pc' = "bridge"
    /\ listen_pc' = "sample"
    /\ UNCHANGED <<keys, trouble, ready, recovery, in_use, store, last_recovery, button, wishes, flag>>

-----------------------------------------------------------------------------
(* store_wifi_details, and the two that call it.                           *)

Cut(length, max) == IF length > max THEN max ELSE length

\* urlndecode stops when its buffer of len bytes has room for the terminator only.
urlndecode(length, len) == Cut(length, len - 1)

handle_configuration_packet_64(t) ==
    /\ main_pc = "bridge" /\ store_pc = "idle"
    /\ details' = [ssid |-> Cut(t.ssid, 64), pwd |-> Cut(t.pwd, 64)]
    /\ store_pc' = "ssid"
    /\ UNCHANGED <<keys, trouble, ready, main, listener, button, wishes, flag>>

\* APPS: a configuration packet, as two pascal strings.
handle_configuration_packet(t) ==
    /\ main_pc = "bridge" /\ store_pc = "idle"
    /\ details' = [ssid |-> Cut(t.ssid, 63), pwd |-> Cut(t.pwd, 63)]
    /\ store_pc' = "ssid"
    /\ UNCHANGED <<keys, trouble, ready, main, listener, button, wishes, flag>>

\* Recovery mode: the form, filled in with both.  What does not fit the buffers for
\* the encoded strings is refused.
root_handler(t) ==
    /\ main_pc = "recovery" /\ store_pc = "idle"
    /\ t.ssid <= 96 /\ t.pwd <= 192
    /\ details' = [ssid |-> urlndecode(t.ssid, 33), pwd |-> urlndecode(t.pwd, 65)]
    /\ store_pc' = "ssid"
    /\ UNCHANGED <<keys, trouble, ready, main, listener, button, wishes, flag>>

\* nvs_open, after which the function gives up, and the first nvs_set_str, whose
\* result is ignored like those after it.
StoreSsid ==
    /\ store_pc = "ssid"
    /\ \/ store_pc' = "pwd" /\ nvs_set("ssid", details.ssid) /\ UNCHANGED doubt
       \/ MayFail /\ store_pc' = "pwd" /\ doubt' = TRUE /\ UNCHANGED keys
       \/ MayFail /\ store_pc' = "restart" /\ UNCHANGED <<keys, doubt>>
    /\ UNCHANGED <<trouble, ready, main, details, listener, button, last, flag>>

StorePwd_IfAny ==
    /\ store_pc = "pwd" /\ store_pc' = "commit"
    /\ IF details.pwd = 0 THEN UNCHANGED keys ELSE nvs_set("pwd", details.pwd)
    /\ UNCHANGED <<trouble, ready, main, details, listener, button, wishes, flag>>

StorePwd ==
    /\ store_pc = "pwd" /\ store_pc' = "commit"
    /\ \/ nvs_set("pwd", details.pwd) /\ UNCHANGED doubt
       \/ MayFail /\ doubt' = TRUE /\ UNCHANGED keys
    /\ UNCHANGED <<trouble, ready, main, details, listener, button, last, flag>>

\* nvs_commit; esp_restart follows.
StoreCommit ==
    /\ store_pc = "commit" /\ store_pc' = "restart"
    /\ \/ /\ nvs_commit(Wifi)
          /\ IF Settings(written) = details
             THEN last' = details /\ doubt' = FALSE
             ELSE UNCHANGED wishes
       \/ MayFail /\ doubt' = TRUE /\ UNCHANGED <<keys, last>>
    /\ UNCHANGED <<trouble, ready, main, details, listener, button, flag>>

StoreRestart == store_pc = "restart" /\ Reset

-----------------------------------------------------------------------------
(* The button, and the task that samples it every 800 ms.                  *)

PressOrRelease ==
    /\ button' = 1 - button
    /\ UNCHANGED <<keys, trouble, ready, main, store, listener, wishes, flag>>

Sample_Toggles ==
    /\ listen_pc = "sample"
    /\ listen_pc' = IF button = 0 /\ last_recovery = 0 THEN "set" ELSE "sample"
    /\ last_recovery' = 1 - button
    /\ UNCHANGED <<keys, trouble, ready, main, store, button, wishes, flag>>

Sample ==
    /\ listen_pc = "sample"
    /\ listen_pc' = IF button = 0 /\ last_recovery = 0 THEN "set" ELSE "sample"
    /\ last_recovery' = button
    /\ UNCHANGED <<keys, trouble, ready, main, store, button, wishes, flag>>

\* store_recovery_for_next_boot gives up when nvs_open or nvs_set_u8 fails.
StoreRecovery ==
    /\ listen_pc = "set"
    /\ \/ listen_pc' = "commit" /\ nvs_set("recovery", 1) /\ owed' = TRUE
       \/ MayFail /\ listen_pc' = "restart" /\ UNCHANGED <<keys, owed>>
    /\ UNCHANGED <<trouble, ready, main, store, last_recovery, button, wishes, stuck>>

StoreRecoveryCommit ==
    /\ listen_pc = "commit" /\ listen_pc' = "restart"
    /\ \/ nvs_commit(Airtalk)
       \/ MayFail /\ UNCHANGED keys
    /\ UNCHANGED <<trouble, ready, main, store, last_recovery, button, wishes, flag>>

ListenerRestart == listen_pc = "restart" /\ Reset

-----------------------------------------------------------------------------
\* A new device.
Init ==
    /\ flash = Empty /\ written = Empty
    /\ trouble \in BOOLEAN /\ ready = FALSE
    /\ main_pc = "storage" /\ recovery = 0 /\ in_use = Nothing
    /\ store_pc = "idle" /\ details = Nothing
    /\ listen_pc = "off" /\ last_recovery = 1 /\ button \in {0, 1}
    /\ last = Nothing /\ doubt = FALSE
    /\ owed = FALSE /\ stuck = FALSE

app_main ==
    \/ storage_init \/ get_recovery \/ clear_recovery \/ clear_recovery_commit
    \/ recovery_main \/ Bridge \/ get_wifi_details \/ StartTasks

store_wifi_details == StoreSsid \/ StorePwd \/ StoreCommit \/ StoreRestart

recovery_listener == Sample \/ StoreRecovery \/ StoreRecoveryCommit \/ ListenerRestart

Configure == \E t \in Typed : handle_configuration_packet(t) \/ root_handler(t)

Next ==
    \/ app_main \/ Configure \/ store_wifi_details \/ recovery_listener
    \/ PressOrRelease \/ TroubleChanges \/ PowerLoss

Spec == Init /\ [][Next]_vars

\* Every task that can run does; users and trouble do as they like.
Fairness == WF_vars(app_main) /\ WF_vars(store_wifi_details) /\ WF_vars(recovery_listener)

FairSpec == Spec /\ Fairness

-----------------------------------------------------------------------------
(* Properties.                                                             *)

Strings == [ssid : 0 .. 63, pwd : 0 .. 64]

\* Types: what is stored always fits NVS and, but for the terminator, a buffer.
TypeOK ==
    /\ {flash, written} \subseteq [ssid : 0 .. 63, pwd : 0 .. 64, recovery : {0, 1}]
    /\ trouble \in BOOLEAN /\ ready \in BOOLEAN
    /\ main_pc \in {"storage", "get", "clear", "clear_commit", "branch", "wifi", "start",
                    "bridge", "recovery"}
    /\ recovery \in {0, 1} /\ in_use \in [ssid : 0 .. 31, pwd : 0 .. 63]
    /\ store_pc \in {"idle", "ssid", "pwd", "commit", "restart"} /\ details \in Strings
    /\ listen_pc \in {"off", "sample", "set", "commit", "restart"}
    /\ last_recovery \in {0, 1} /\ button \in {0, 1}
    /\ last \in Strings /\ doubt \in BOOLEAN
    /\ owed \in BOOLEAN /\ stuck \in BOOLEAN

\* The bridge never mixes the SSID of one setting with the password of another,
\* unless a reset has cut a store short or a write of it has failed: a reset at any
\* other moment, by the button or by the power, loses nothing (storage.c:37-40).
NeverMixed ==
    ~doubt /\ store_pc = "idle" =>
        in_use.ssid \in {0, last.ssid} /\ in_use.pwd \in {0, last.pwd}

\* Recovery mode lasts one boot: it is entered once for each time the button was
\* held, however often the power fails, unless the flag could not be cleared
\* (main.c:46-51; the flag is cleared before it is acted on).
RecoveryIsOwed == [][main_pc' = "recovery" /\ main_pc # "recovery" => owed]_vars

\* Without trouble, a boot ends in recovery mode or with the settings last stored,
\* if those fit the buffers of init_at_wifi.
Fits == last.ssid < 32 /\ last.pwd < 64

BootUsesSaved ==
    [](main_pc = "storage" /\ []~trouble =>
         <>(main_pc = "recovery" \/ (main_pc = "start" /\ (~doubt /\ Fits => in_use = last))))

\* Whoever holds the button gets recovery mode in the end, though the request has to
\* survive its own restart, those of others, and any trouble that passes.
PressIsAnswered ==
    <>[]~trouble /\ <>[][~Configure]_vars =>
        (button = 0 /\ main_pc = "bridge" ~> button = 1 \/ main_pc = "recovery")
=============================================================================
