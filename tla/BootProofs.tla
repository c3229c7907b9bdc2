------------------------------ MODULE BootProofs ------------------------------
(***************************************************************************)
(* Proofs about Boot, for whatever settings users ask for.                 *)
(***************************************************************************)
EXTENDS Boot, TLAPS

Keys == [ssid : 0 .. 63, pwd : 0 .. 64, recovery : {0, 1}]

\* TypeOK, taken apart: the Boolean variables, and the rest.
Flags ==
    /\ trouble \in BOOLEAN /\ ready \in BOOLEAN
    /\ doubt \in BOOLEAN /\ owed \in BOOLEAN /\ stuck \in BOOLEAN

Steps ==
    /\ main_pc \in {"storage", "get", "clear", "clear_commit", "branch", "wifi", "start",
                    "bridge", "recovery"}
    /\ store_pc \in {"idle", "ssid", "pwd", "commit", "restart"}
    /\ listen_pc \in {"off", "sample", "set", "commit", "restart"}

Data ==
    /\ flash \in Keys /\ written \in Keys
    /\ recovery \in {0, 1} /\ in_use \in [ssid : 0 .. 31, pwd : 0 .. 63]
    /\ details \in Strings /\ last \in Strings
    /\ last_recovery \in {0, 1} /\ button \in {0, 1}

LEMMA TypeParts == TypeOK <=> Flags /\ Steps /\ Data
BY Zenon DEF TypeOK, Flags, Steps, Data, Keys

-----------------------------------------------------------------------------
(* What NVS does to the keys.                                              *)

LEMMA SetKey ==
    ASSUME flash \in Keys, written \in Keys,
           NEW key, NEW value, nvs_set(key, value),
           \/ key = "ssid" /\ value \in 0 .. 63
           \/ key = "pwd" /\ value \in 0 .. 64
           \/ key = "recovery" /\ value \in {0, 1}
    PROVE  flash' \in Keys /\ written' \in Keys
BY DEF nvs_set, Keys

LEMMA CommitKeys ==
    ASSUME flash \in Keys, written \in Keys, NEW namespace, nvs_commit(namespace)
    PROVE  flash' \in Keys /\ written' \in Keys
<1>1. DOMAIN flash = {"ssid", "pwd", "recovery"}
  BY DEF Keys
<1>. QED
  BY <1>1 DEF nvs_commit, Keys

LEMMA ResetKeys ==
    ASSUME flash \in Keys, written \in Keys, Reset
    PROVE  flash' \in Keys /\ written' \in Keys
<1>1. DOMAIN flash = {"ssid", "pwd", "recovery"}
  BY DEF Keys
<1>. QED
  BY <1>1 DEF Reset, Keys

LEMMA EmptyKeys == Empty \in Keys
BY DEF Empty, Keys

-----------------------------------------------------------------------------
(* Types.                                                                  *)

\* The two calls of store_wifi_details fit what the keys may hold.
LEMMA CutBounds ==
    ASSUME NEW n \in Nat, NEW max \in Nat
    PROVE  Cut(n, max) \in 0 .. max
BY DEF Cut

LEMMA TypedNat ==
    ASSUME NEW t \in Typed
    PROVE  t.ssid \in Nat /\ t.pwd \in Nat
BY TypedAssumption

\* Whatever NVS answers, what init_at_wifi gets fits its buffers.
LEMMA GotStrings ==
    ASSUME written \in Keys
    PROVE  nvs_get_str("ssid", 32) \subseteq 0 .. 31 /\ nvs_get_str("pwd", 64) \subseteq 0 .. 63
<1>1. written.ssid \in Nat /\ written.pwd \in Nat
  BY DEF Keys
<1>. QED
  BY <1>1 DEF nvs_get_str

LEMMA NextKeys ==
    ASSUME TypeOK, Next
    PROVE  flash' \in Keys /\ written' \in Keys
<1>1. /\ flash \in Keys /\ written \in Keys
      /\ details.ssid \in 0 .. 63 /\ details.pwd \in 0 .. 64
  BY TypeParts DEF Data, Strings
<1>2. CASE UNCHANGED keys
  BY <1>1, <1>2 DEF keys
<1>3. CASE storage_init
  BY <1>1, <1>3, EmptyKeys DEF storage_init, InitNvs, keys
<1>4. CASE clear_recovery \/ clear_recovery_commit
  BY <1>1, <1>4, SetKey, CommitKeys DEF clear_recovery, clear_recovery_commit, keys
<1>5. CASE store_wifi_details
  BY <1>1, <1>5, SetKey, CommitKeys, ResetKeys
     DEF store_wifi_details, StoreSsid, StorePwd, StoreCommit, StoreRestart, keys
<1>6. CASE recovery_listener
  BY <1>1, <1>6, SetKey, CommitKeys, ResetKeys
     DEF recovery_listener, Sample, StoreRecovery, StoreRecoveryCommit, ListenerRestart, keys
<1>7. CASE PowerLoss
  BY <1>1, <1>7, ResetKeys DEF PowerLoss
<1>8. CASE \/ get_recovery \/ recovery_main \/ Bridge \/ get_wifi_details \/ StartTasks
           \/ Configure \/ PressOrRelease \/ TroubleChanges
  BY <1>2, <1>8
     DEF get_recovery, recovery_main, Bridge, get_wifi_details, StartTasks, Configure,
         handle_configuration_packet, root_handler, PressOrRelease, TroubleChanges
<1>. QED
  BY <1>3, <1>4, <1>5, <1>6, <1>7, <1>8 DEF Next, app_main

LEMMA NextFlags == TypeOK /\ Next => Flags'
<1>. SUFFICES ASSUME Flags, Next PROVE Flags'
  BY TypeParts
<1>1. CASE storage_init
  BY <1>1, Zenon DEF storage_init, InitNvs, Flags, flag, wishes, store
<1>2. CASE get_recovery \/ clear_recovery \/ clear_recovery_commit
  BY <1>2, Zenon DEF get_recovery, clear_recovery, clear_recovery_commit, Flags, flag, wishes
<1>3. CASE recovery_main \/ Bridge \/ get_wifi_details \/ StartTasks
  BY <1>3, Zenon DEF recovery_main, Bridge, get_wifi_details, StartTasks, Flags, flag, wishes
<1>4. CASE Configure \/ PressOrRelease \/ TroubleChanges
  <2>1. CASE Configure
    BY <2>1, Zenon DEF Configure, handle_configuration_packet, root_handler, Flags, flag, wishes
  <2>2. CASE PressOrRelease
    BY <2>2, Zenon DEF PressOrRelease, Flags, flag, wishes
  <2>3. CASE TroubleChanges
    BY <2>3, Zenon DEF TroubleChanges, Flags, flag, wishes
  <2>. QED
    BY <1>4, <2>1, <2>2, <2>3
<1>5. CASE Reset
  BY <1>5, Zenon DEF Reset, Flags
<1>6. CASE StoreSsid \/ StorePwd \/ StoreCommit
  BY <1>6, Zenon DEF StoreSsid, StorePwd, StoreCommit, Flags, flag, wishes
<1>7. CASE Sample \/ StoreRecovery \/ StoreRecoveryCommit
  BY <1>7, Zenon DEF Sample, StoreRecovery, StoreRecoveryCommit, Flags, flag, wishes
<1>. QED
  BY <1>1, <1>2, <1>3, <1>4, <1>5, <1>6, <1>7, Zenon
     DEF Next, app_main, store_wifi_details, recovery_listener, StoreRestart, ListenerRestart,
         PowerLoss

LEMMA NextSteps == TypeOK /\ Next => Steps'
<1>. SUFFICES ASSUME Steps, Next PROVE Steps'
  BY TypeParts
<1>1. CASE app_main
  BY <1>1 DEF app_main, storage_init, get_recovery, clear_recovery, clear_recovery_commit,
              recovery_main, Bridge, get_wifi_details, StartTasks, Steps, main, store, listener
<1>2. CASE Configure \/ PressOrRelease \/ TroubleChanges
  BY <1>2 DEF Configure, handle_configuration_packet, root_handler, PressOrRelease,
              TroubleChanges, Steps, main, store, listener
<1>3. CASE Reset
  BY <1>3 DEF Reset, Steps
<1>4. CASE StoreSsid \/ StorePwd \/ StoreCommit
  BY <1>4 DEF StoreSsid, StorePwd, StoreCommit, Steps, main, listener
<1>5. CASE Sample \/ StoreRecovery \/ StoreRecoveryCommit
  BY <1>5 DEF Sample, StoreRecovery, StoreRecoveryCommit, Steps, main, store
<1>. QED
  BY <1>1, <1>2, <1>3, <1>4, <1>5
     DEF Next, store_wifi_details, recovery_listener, StoreRestart, ListenerRestart, PowerLoss

LEMMA NextData == TypeOK /\ Next => Data'
<1>. SUFFICES ASSUME TypeOK, Next PROVE Data'
  OBVIOUS
<1>1. flash' \in Keys /\ written' \in Keys
  BY NextKeys
<1>2. Data
  BY TypeParts
<1>3. CASE storage_init
  BY <1>1, <1>2, <1>3 DEF storage_init, InitNvs, Data, store, listener, wishes, Nothing, Strings
<1>4. CASE get_recovery
  <2>1. recovery' \in {0, 1}
    BY <1>2, <1>4 DEF get_recovery, nvs_get_u8, Data, Keys
  <2>. QED
    BY <1>1, <1>2, <1>4, <2>1 DEF get_recovery, Data, store, listener, wishes
<1>5. CASE clear_recovery \/ clear_recovery_commit \/ recovery_main \/ Bridge \/ StartTasks
  BY <1>1, <1>2, <1>5 DEF clear_recovery, clear_recovery_commit, recovery_main, Bridge, StartTasks,
                          Data, store, listener, wishes
<1>6. CASE get_wifi_details
  <2>1. in_use' \in [ssid : 0 .. 31, pwd : 0 .. 63]
    <3>1. PICK nothing \in {{}, {0}} :
             in_use' \in [ssid : nvs_get_str("ssid", 32) \cup nothing,
                         pwd : nvs_get_str("pwd", 64) \cup nothing]
      BY <1>6 DEF get_wifi_details
    <3>. DEFINE S == nvs_get_str("ssid", 32) \cup nothing
                P == nvs_get_str("pwd", 64) \cup nothing
    <3>2. S \subseteq 0 .. 31 /\ P \subseteq 0 .. 63
      BY <1>2, GotStrings DEF Data
    <3>3. in_use' \in [ssid : S, pwd : P]
      BY <3>1
    <3>. HIDE DEF S, P
    <3>. QED
      BY <3>2, <3>3
  <2>. QED
    BY <1>1, <1>2, <1>6, <2>1 DEF get_wifi_details, Data, store, listener, wishes
<1>7. CASE Configure
  <2>1. details' \in Strings
    <3>1. PICK t \in Typed : handle_configuration_packet(t) \/ root_handler(t)
      BY <1>7 DEF Configure
    <3>2. CASE handle_configuration_packet(t)
      <4>1. Cut(t.ssid, 63) \in 0 .. 63 /\ Cut(t.pwd, 63) \in 0 .. 63
        BY CutBounds, TypedNat
      <4>. QED
        BY <3>2, <4>1 DEF handle_configuration_packet, Strings
    <3>3. CASE root_handler(t)
      <4>1. urlndecode(t.ssid, 33) \in 0 .. 32 /\ urlndecode(t.pwd, 65) \in 0 .. 64
        <5>1. 33 - 1 = 32 /\ 65 - 1 = 64
          OBVIOUS
        <5>2. Cut(t.ssid, 32) \in 0 .. 32 /\ Cut(t.pwd, 64) \in 0 .. 64
          BY CutBounds, TypedNat
        <5>. QED
          BY <5>1, <5>2 DEF urlndecode
      <4>. QED
        BY <3>3, <4>1 DEF root_handler, Strings
    <3>. QED
      BY <3>1, <3>2, <3>3
  <2>. QED
    BY <1>1, <1>2, <1>7, <2>1
       DEF Configure, handle_configuration_packet, root_handler, Data, main, listener, wishes
<1>8. CASE PressOrRelease \/ TroubleChanges
  BY <1>1, <1>2, <1>8 DEF PressOrRelease, TroubleChanges, Data, main, store, listener, wishes
<1>9. CASE Reset
  BY <1>1, <1>2, <1>9 DEF Reset, Data, Nothing, Strings
<1>10. CASE StoreSsid \/ StorePwd \/ StoreCommit
  BY <1>1, <1>2, <1>10 DEF StoreSsid, StorePwd, StoreCommit, Data, main, listener, wishes
<1>11. CASE Sample \/ StoreRecovery \/ StoreRecoveryCommit
  BY <1>1, <1>2, <1>11 DEF Sample, StoreRecovery, StoreRecoveryCommit, Data, main, store, wishes
<1>. QED
  BY <1>3, <1>4, <1>5, <1>6, <1>7, <1>8, <1>9, <1>10, <1>11
     DEF Next, app_main, store_wifi_details, recovery_listener, StoreRestart, ListenerRestart,
         PowerLoss

LEMMA InitType == Init => TypeOK
<1>1. Init => Flags
  BY Zenon DEF Init, Flags
<1>2. Init => Steps
  BY DEF Init, Steps
<1>3. Init => Data
  BY DEF Init, Data, Empty, Keys, Nothing, Strings
<1>. QED
  BY <1>1, <1>2, <1>3, TypeParts

LEMMA NextType == TypeOK /\ [Next]_vars => TypeOK'
<1>1. ASSUME TypeOK, Next PROVE TypeOK'
  BY <1>1, NextFlags, NextSteps, NextData, Zenon
     DEF TypeOK, Flags, Steps, Data, Keys
<1>2. ASSUME TypeOK, UNCHANGED vars PROVE TypeOK'
  <2>1. Flags'
    BY <1>2, TypeParts, Zenon DEF Flags, vars, wishes, flag
  <2>2. Steps' /\ Data'
    BY <1>2, TypeParts DEF Steps, Data, vars, keys, main, store, listener, wishes
  <2>. QED
    BY <2>1, <2>2, Zenon DEF TypeOK, Flags, Steps, Data, Keys
<1>. QED
  BY <1>1, <1>2

\* Types, for whatever users type.
THEOREM BootTypeOK == Spec => []TypeOK
<1>. QED
  BY InitType, NextType, PTL DEF Spec

-----------------------------------------------------------------------------
(* Settings are not mixed.                                                 *)

\* Nobody stores before the tasks run, and nothing is in use before it is read.
Order ==
    /\ main_pc \notin {"bridge", "recovery"} => store_pc = "idle"
    /\ main_pc = "storage" => in_use = Nothing

\* What the keys hold when no store has gone wrong since the last that did not: the
\* last settings, but for what the store under way has written.
Stored ==
    ~doubt =>
        /\ store_pc \notin {"pwd", "commit"} => Settings(flash) = last /\ Settings(written) = last
        /\ store_pc = "pwd" => written.ssid = details.ssid
        /\ store_pc = "commit" => Settings(written) = details

MixInv == TypeOK /\ Order /\ Stored /\ NeverMixed

LEMMA InitMix == Init => MixInv
<1>. SUFFICES ASSUME Init PROVE MixInv
  OBVIOUS
<1>1. Order /\ Stored /\ NeverMixed
  BY DEF Init, Order, Stored, NeverMixed, Empty, Nothing, Settings
<1>. QED
  BY <1>1, InitType DEF MixInv

LEMMA NextOrder == MixInv /\ Next => Order'
<1>. SUFFICES ASSUME Order, Next PROVE Order'
  BY DEF MixInv
<1>1. CASE app_main
  BY <1>1 DEF app_main, storage_init, get_recovery, clear_recovery, clear_recovery_commit,
              recovery_main, Bridge, get_wifi_details, StartTasks, Order, store
<1>2. CASE Configure \/ PressOrRelease \/ TroubleChanges
  BY <1>2 DEF Configure, handle_configuration_packet, root_handler, PressOrRelease,
              TroubleChanges, Order, main, store
<1>3. CASE Reset
  BY <1>3 DEF Reset, Order
<1>4. CASE StoreSsid \/ StorePwd \/ StoreCommit
  BY <1>4 DEF StoreSsid, StorePwd, StoreCommit, Order, main
<1>5. CASE Sample \/ StoreRecovery \/ StoreRecoveryCommit
  BY <1>5 DEF Sample, StoreRecovery, StoreRecoveryCommit, Order, main, store
<1>. QED
  BY <1>1, <1>2, <1>3, <1>4, <1>5
     DEF Next, store_wifi_details, recovery_listener, StoreRestart, ListenerRestart, PowerLoss

\* The recovery flag is stored beside the settings.
LEMMA FlagApart ==
    ASSUME flash \in Keys, written \in Keys,
           (\E v \in {0, 1} : nvs_set("recovery", v)) \/ nvs_commit(Airtalk)
    PROVE  Settings(flash') = Settings(flash) /\ Settings(written') = Settings(written)
<1>1. DOMAIN flash = {"ssid", "pwd", "recovery"}
  BY DEF Keys
<1>. QED
  BY <1>1 DEF nvs_set, nvs_commit, Airtalk, Settings, Keys

\* A reset between two stores leaves the settings alone.
LEMMA ResetSettings ==
    ASSUME flash \in Keys, written \in Keys, Reset, Settings(flash) = Settings(written)
    PROVE  Settings(flash') = Settings(flash) /\ Settings(written') = Settings(flash)
<1>1. DOMAIN flash = {"ssid", "pwd", "recovery"}
  BY DEF Keys
<1>2. flash.ssid = written.ssid /\ flash.pwd = written.pwd
  BY DEF Settings
<1>. QED
  BY <1>1, <1>2 DEF Reset, Settings, Keys

LEMMA NextStored == MixInv /\ Next => Stored'
<1>. SUFFICES ASSUME MixInv, Next PROVE Stored'
  OBVIOUS
<1>1. /\ flash \in Keys /\ written \in Keys /\ details \in Strings /\ last \in Strings
      /\ Order /\ Stored /\ Steps
  BY TypeParts DEF MixInv, Data
<1>2. CASE UNCHANGED <<keys, store, wishes>>
  BY <1>1, <1>2 DEF Stored, keys, store, wishes, Settings
<1>3. CASE storage_init
  <2>1. CASE UNCHANGED <<keys, wishes>>
    BY <1>2, <1>3, <2>1 DEF storage_init
  <2>2. CASE flash' = Empty /\ written' = Empty /\ last' = Nothing
    <3>1. store_pc' = "idle"
      BY <1>1, <1>3 DEF storage_init, Order, store
    <3>. QED
      BY <2>2, <3>1 DEF Stored, Empty, Nothing, Settings
  <2>. QED
    BY <1>3, <2>1, <2>2 DEF storage_init, InitNvs
<1>4. CASE clear_recovery \/ clear_recovery_commit \/ StoreRecovery \/ StoreRecoveryCommit
  <2>1. Settings(flash') = Settings(flash) /\ Settings(written') = Settings(written)
    BY <1>1, <1>4, FlagApart
       DEF clear_recovery, clear_recovery_commit, StoreRecovery, StoreRecoveryCommit, keys
  <2>2. UNCHANGED <<store, wishes>>
    BY <1>4 DEF clear_recovery, clear_recovery_commit, StoreRecovery, StoreRecoveryCommit
  <2>3. flash' \in Keys /\ written' \in Keys
    BY NextKeys DEF MixInv
  <2>. QED
    BY <1>1, <2>1, <2>2, <2>3 DEF Stored, store, wishes, Settings
<1>5. CASE get_recovery \/ recovery_main \/ Bridge \/ get_wifi_details \/ StartTasks
           \/ PressOrRelease \/ TroubleChanges \/ Sample
  BY <1>2, <1>5 DEF get_recovery, recovery_main, Bridge, get_wifi_details, StartTasks,
                    PressOrRelease, TroubleChanges, Sample
<1>6. CASE Configure
  BY <1>1, <1>6 DEF Configure, handle_configuration_packet, root_handler, Stored, keys, wishes,
                    Settings
<1>7. CASE Reset
  <2>1. CASE Storing
    BY <1>7, <2>1 DEF Reset, Stored
  <2>2. CASE ~Storing /\ ~doubt
    <3>1. Settings(flash) = last /\ Settings(written) = last
      BY <1>1, <2>2 DEF Stored, Storing
    <3>. QED
      BY <1>1, <1>7, <3>1, ResetSettings DEF Reset, Stored
  <2>3. CASE doubt
    BY <1>7, <2>3 DEF Reset, Stored
  <2>. QED
    BY <2>1, <2>2, <2>3
<1>8. CASE StoreSsid
  BY <1>1, <1>8 DEF StoreSsid, nvs_set, Stored, Settings, Keys, keys
<1>9. CASE StorePwd
  BY <1>1, <1>9 DEF StorePwd, nvs_set, Stored, Settings, Keys, Strings, keys
<1>10. CASE StoreCommit
  <2>1. DOMAIN flash = {"ssid", "pwd", "recovery"}
    BY <1>1 DEF Keys
  <2>2. CASE nvs_commit(Wifi) /\ Settings(written) = details /\ last' = details
    <3>1. Settings(flash') = details /\ Settings(written') = details
      BY <1>1, <2>1, <2>2 DEF nvs_commit, Wifi, Settings, Keys
    <3>. QED
      BY <1>10, <2>2, <3>1 DEF StoreCommit, Stored
  <2>3. CASE Settings(written) # details /\ UNCHANGED wishes
    BY <1>1, <1>10, <2>3 DEF StoreCommit, Stored, wishes
  <2>4. CASE doubt'
    BY <2>4 DEF Stored
  <2>. QED
    BY <1>10, <2>2, <2>3, <2>4 DEF StoreCommit
<1>. QED
  BY <1>3, <1>4, <1>5, <1>6, <1>7, <1>8, <1>9, <1>10
     DEF Next, app_main, store_wifi_details, recovery_listener, StoreRestart, ListenerRestart,
         PowerLoss

LEMMA NextNotMixed == MixInv /\ Next => NeverMixed'
<1>. SUFFICES ASSUME MixInv, Next PROVE NeverMixed'
  OBVIOUS
<1>1. /\ written \in Keys /\ last \in Strings
      /\ Order /\ Stored /\ Steps /\ NeverMixed
  BY TypeParts DEF MixInv, Data
<1>2. CASE UNCHANGED <<in_use, store_pc, wishes>>
  BY <1>1, <1>2 DEF NeverMixed, wishes
<1>3. CASE storage_init
  BY <1>1, <1>3 DEF storage_init, Order, NeverMixed, Nothing
<1>4. CASE get_wifi_details
  <2>1. CASE ~doubt
    <3>1. store_pc = "idle" /\ Settings(written) = last
      BY <1>1, <1>4, <2>1 DEF get_wifi_details, Order, Stored
    <3>2. /\ nvs_get_str("ssid", 32) \subseteq {0, last.ssid}
          /\ nvs_get_str("pwd", 64) \subseteq {0, last.pwd}
      BY <3>1 DEF nvs_get_str, Settings
    <3>3. PICK nothing \in {{}, {0}} :
             in_use' \in [ssid : nvs_get_str("ssid", 32) \cup nothing,
                         pwd : nvs_get_str("pwd", 64) \cup nothing]
      BY <1>4 DEF get_wifi_details
    <3>4. /\ in_use'.ssid \in nvs_get_str("ssid", 32) \cup nothing
          /\ in_use'.pwd \in nvs_get_str("pwd", 64) \cup nothing
      BY <3>3
    <3>5. in_use'.ssid \in {0, last.ssid} /\ in_use'.pwd \in {0, last.pwd}
      BY <3>2, <3>4
    <3>. QED
      BY <1>4, <3>5 DEF get_wifi_details, NeverMixed, wishes
  <2>2. CASE doubt
    BY <1>4, <2>2 DEF get_wifi_details, NeverMixed, wishes
  <2>. QED
    BY <2>1, <2>2
<1>5. CASE Reset
  BY <1>5 DEF Reset, NeverMixed, Nothing
<1>6. CASE Configure \/ StoreSsid \/ StorePwd \/ StoreCommit
  <2>1. store_pc' # "idle"
    BY <1>6 DEF Configure, handle_configuration_packet, root_handler, StoreSsid, StorePwd,
                StoreCommit
  <2>. QED
    BY <2>1 DEF NeverMixed
<1>7. CASE \/ get_recovery \/ clear_recovery \/ clear_recovery_commit \/ recovery_main
           \/ Bridge \/ StartTasks \/ PressOrRelease \/ TroubleChanges
           \/ Sample \/ StoreRecovery \/ StoreRecoveryCommit
  BY <1>2, <1>7
     DEF get_recovery, clear_recovery, clear_recovery_commit, recovery_main, Bridge, StartTasks,
         PressOrRelease, TroubleChanges, Sample, StoreRecovery, StoreRecoveryCommit, main, store
<1>. QED
  BY <1>3, <1>4, <1>5, <1>6, <1>7
     DEF Next, app_main, store_wifi_details, recovery_listener, StoreRestart, ListenerRestart,
         PowerLoss

LEMMA NextMix == MixInv /\ [Next]_vars => MixInv'
<1>1. ASSUME MixInv, Next PROVE MixInv'
  BY <1>1, NextType, NextOrder, NextStored, NextNotMixed DEF MixInv
<1>2. ASSUME MixInv, UNCHANGED vars PROVE MixInv'
  <2>1. TypeOK'
    BY <1>2, NextType DEF MixInv
  <2>2. Order' /\ Stored' /\ NeverMixed'
    BY <1>2 DEF MixInv, Order, Stored, NeverMixed, Settings, vars, keys, main, store, wishes
  <2>. QED
    BY <2>1, <2>2 DEF MixInv
<1>. QED
  BY <1>1, <1>2

\* The SSID of one setting is never used with the password of another, unless a
\* store was cut short or failed, wherever else a reset comes.
THEOREM BootNeverMixed == Spec => []NeverMixed
<1>1. MixInv => NeverMixed
  BY DEF MixInv
<1>. QED
  BY InitMix, NextMix, <1>1, PTL DEF Spec

-----------------------------------------------------------------------------
(* Recovery mode lasts one boot.                                           *)

\* Only the button sets the flag, in the flash or in app_main's hands; and once it
\* has been cleared it is clear, until the listener runs.
OwedInv ==
    /\ flash.recovery = 1 \/ written.recovery = 1 => owed
    /\ recovery = 1 /\ main_pc \in {"clear", "clear_commit", "branch"} => owed
    /\ main_pc = "clear_commit" /\ ~stuck => written.recovery = 0
    /\ main_pc = "branch" /\ ~stuck => flash.recovery = 0 /\ written.recovery = 0
    /\ listen_pc # "off" => main_pc = "bridge"

IInv == MixInv /\ OwedInv

LEMMA InitIInv == Init => IInv
<1>1. Init => OwedInv
  BY DEF Init, OwedInv, Empty
<1>. QED
  BY <1>1, InitMix DEF IInv

\* The settings are stored beside the recovery flag.
LEMMA SettingsApart ==
    ASSUME flash \in Keys, written \in Keys,
           (\E key \in Wifi, v \in Nat : nvs_set(key, v)) \/ nvs_commit(Wifi)
    PROVE  flash'.recovery = flash.recovery /\ written'.recovery = written.recovery
<1>1. DOMAIN flash = {"ssid", "pwd", "recovery"}
  BY DEF Keys
<1>. QED
  BY <1>1 DEF nvs_set, nvs_commit, Wifi, Keys

\* A reset invents no flag.
LEMMA ResetFlag ==
    ASSUME flash \in Keys, written \in Keys, Reset
    PROVE  /\ flash'.recovery \in {flash.recovery, written.recovery}
           /\ written'.recovery = flash'.recovery
<1>1. DOMAIN flash = {"ssid", "pwd", "recovery"}
  BY DEF Keys
<1>. QED
  BY <1>1 DEF Reset, Keys

LEMMA NextOwed == IInv /\ Next => OwedInv'
<1>. SUFFICES ASSUME IInv, Next PROVE OwedInv'
  OBVIOUS
<1>1. /\ flash \in Keys /\ written \in Keys /\ details \in Strings
      /\ Order /\ Steps /\ OwedInv
  BY TypeParts DEF IInv, MixInv, Data
<1>2. CASE storage_init
  BY <1>1, <1>2 DEF storage_init, InitNvs, OwedInv, Empty, keys, listener, flag
<1>3. CASE get_recovery
  <2>1. recovery' = 1 => owed
    BY <1>1, <1>3 DEF get_recovery, nvs_get_u8, OwedInv
  <2>. QED
    BY <1>1, <1>3, <2>1 DEF get_recovery, OwedInv, keys, listener, flag
<1>4. CASE clear_recovery
  BY <1>1, <1>4 DEF clear_recovery, nvs_set, OwedInv, Keys, keys, listener
<1>5. CASE clear_recovery_commit
  <2>1. CASE nvs_commit(Airtalk) /\ UNCHANGED stuck
    <3>1. DOMAIN flash = {"ssid", "pwd", "recovery"}
      BY <1>1 DEF Keys
    <3>2. flash'.recovery = written.recovery /\ written' = written
      BY <1>1, <2>1, <3>1 DEF nvs_commit, Airtalk, Keys
    <3>. QED
      BY <1>1, <1>5, <2>1, <3>2 DEF clear_recovery_commit, OwedInv, listener
  <2>2. CASE stuck' /\ UNCHANGED keys
    BY <1>1, <1>5, <2>2 DEF clear_recovery_commit, OwedInv, listener, keys
  <2>. QED
    BY <1>5, <2>1, <2>2 DEF clear_recovery_commit
<1>6. CASE recovery_main \/ Bridge
  <2>1. listen_pc' = "off"
    BY <1>1, <1>6 DEF recovery_main, Bridge, OwedInv, listener
  <2>2. CASE ~stuck
    BY <1>1, <1>6, <2>1, <2>2 DEF recovery_main, Bridge, OwedInv, keys, listener, Keys
  <2>3. CASE stuck
    BY <1>1, <1>6, <2>1, <2>3 DEF recovery_main, Bridge, OwedInv, keys, listener
  <2>. QED
    BY <2>2, <2>3
<1>7. CASE get_wifi_details \/ StartTasks \/ Configure \/ PressOrRelease \/ TroubleChanges
  BY <1>1, <1>7 DEF get_wifi_details, StartTasks, Configure, handle_configuration_packet,
                    root_handler, PressOrRelease, TroubleChanges, OwedInv,
                    keys, main, listener, flag
<1>8. CASE StoreSsid \/ StorePwd \/ StoreCommit
  <2>1. flash'.recovery = flash.recovery /\ written'.recovery = written.recovery
    <3>1. details.ssid \in Nat /\ details.pwd \in Nat
      BY <1>1 DEF Strings
    <3>. QED
      BY <1>1, <1>8, <3>1, SettingsApart DEF StoreSsid, StorePwd, StoreCommit, Wifi, keys
  <2>. QED
    BY <1>1, <1>8, <2>1 DEF StoreSsid, StorePwd, StoreCommit, OwedInv, main, listener, flag
<1>9. CASE Reset
  BY <1>1, <1>9, ResetFlag DEF Reset, OwedInv
<1>10. CASE Sample \/ StoreRecovery \/ StoreRecoveryCommit
  <2>1. main_pc' = "bridge" /\ UNCHANGED <<recovery, stuck>>
    BY <1>1, <1>10 DEF Sample, StoreRecovery, StoreRecoveryCommit, OwedInv, main, flag
  <2>2. CASE Sample
    BY <1>1, <2>1, <2>2 DEF Sample, OwedInv, keys, flag
  <2>3. CASE StoreRecovery
    BY <1>1, <2>1, <2>3 DEF StoreRecovery, OwedInv, keys
  <2>4. CASE StoreRecoveryCommit
    <3>1. DOMAIN flash = {"ssid", "pwd", "recovery"}
      BY <1>1 DEF Keys
    <3>2. /\ flash'.recovery \in {flash.recovery, written.recovery}
          /\ written'.recovery = written.recovery
      BY <1>1, <2>4, <3>1 DEF StoreRecoveryCommit, nvs_commit, Keys, keys
    <3>. QED
      BY <1>1, <2>1, <2>4, <3>2 DEF StoreRecoveryCommit, OwedInv, flag
  <2>. QED
    BY <1>10, <2>2, <2>3, <2>4
<1>. QED
  BY <1>2, <1>3, <1>4, <1>5, <1>6, <1>7, <1>8, <1>9, <1>10
     DEF Next, app_main, store_wifi_details, recovery_listener, StoreRestart, ListenerRestart,
         PowerLoss

LEMMA NextIInv == IInv /\ [Next]_vars => IInv'
<1>1. ASSUME IInv, Next PROVE OwedInv'
  BY <1>1, NextOwed
<1>2. ASSUME IInv, UNCHANGED vars PROVE OwedInv'
  BY <1>2 DEF IInv, OwedInv, vars, keys, main, listener, flag
<1>. QED
  BY <1>1, <1>2, NextMix DEF IInv

\* Only a boot that has read the flag goes into recovery mode.
LEMMA OnlyOwedRecovers ==
    ASSUME IInv, [Next]_vars, main_pc' = "recovery", main_pc # "recovery"
    PROVE  owed
<1>1. CASE UNCHANGED vars
  BY <1>1 DEF vars, main
<1>2. CASE recovery_main
  BY <1>2 DEF recovery_main, IInv, OwedInv
<1>3. CASE \/ storage_init \/ get_recovery \/ clear_recovery \/ clear_recovery_commit
           \/ Bridge \/ get_wifi_details \/ StartTasks
  BY <1>3 DEF storage_init, get_recovery, clear_recovery, clear_recovery_commit, Bridge,
              get_wifi_details, StartTasks
<1>4. CASE Reset
  BY <1>4 DEF Reset
<1>5. CASE \/ Configure \/ PressOrRelease \/ TroubleChanges \/ StoreSsid \/ StorePwd
           \/ StoreCommit \/ Sample \/ StoreRecovery \/ StoreRecoveryCommit
  BY <1>5 DEF Configure, handle_configuration_packet, root_handler, PressOrRelease,
              TroubleChanges, StoreSsid, StorePwd, StoreCommit, Sample, StoreRecovery,
              StoreRecoveryCommit, main
<1>. QED
  BY <1>1, <1>2, <1>3, <1>4, <1>5
     DEF Next, app_main, store_wifi_details, recovery_listener, StoreRestart, ListenerRestart,
         PowerLoss

\* Recovery mode is entered once for each time the button was held, whatever fails
\* and wherever the power is lost, unless the flag could not be cleared.
THEOREM BootRecoveryIsOwed == Spec => RecoveryIsOwed
<1>1. IInv /\ [Next]_vars => [main_pc' = "recovery" /\ main_pc # "recovery" => owed]_vars
  BY OnlyOwedRecovers
<1>. QED
  BY InitIInv, NextIInv, <1>1, PTL DEF Spec, RecoveryIsOwed
=============================================================================
