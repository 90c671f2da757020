--------------------------- MODULE SettingsProofs ---------------------------
(***************************************************************************)
(* Proofs about Settings: the first sender is paired for good, and a panel *)
(* that is closed leaves the runtime with what is in the file, for any     *)
(* senders, keys and sessions, as long as accesses to the file do not      *)
(* overlap and what fails to be saved is saved again before it is loaded.  *)
(*                                                                         *)
(* The inductive invariant says where the paired user is kept meanwhile:   *)
(* in memory, in what a load has read, in what is being written and, when  *)
(* nothing is being written and the last save succeeded, in the file.      *)
(***************************************************************************)
EXTENDS Settings, TLAPS

File == [state : {"missing", "broken", "written"}, config : Config]
Fields == {"command", "timeout"}

TypeOK ==
  /\ userConfig \in Config /\ panel \in Config
  /\ shared \subseteq Fields
  /\ pc \in {"closed", "read", "open", "reread"}
  /\ starting \in {"no", "read", "done"}
  /\ got \in File /\ file \in File
  /\ writes \subseteq [config : Config, truncated : BOOLEAN]
  /\ served \subseteq Users
  /\ saved \in BOOLEAN /\ missed \in BOOLEAN /\ stale \in BOOLEAN /\ raced \in BOOLEAN

\* The configuration lets those through that were let through so far, and
\* whoever comes first when there are none.
Pairs(c) == served = {c.allowedUserId} \ {Nobody}

PanelNeedsSession == pc # "closed" => starting = "done"

\* No write meets a load, and none is cut off; a load that was good has read
\* what was saved, and a session starts with one.
FileIsWhole ==
  /\ Loading => writes = {} /\ (got.state # "broken" => got = file /\ saved)
  /\ starting = "read" => got.state # "broken"
  /\ writes = {} /\ saved => file.state # "broken"

\* One sender at most was let through, and is paired wherever a configuration is
\* kept.
PairingKept ==
  /\ \A u, v \in served : u = v
  /\ starting = "done" => Pairs(userConfig)
  /\ \A w \in writes : Pairs(w.config)
  /\ writes = {} /\ saved => Pairs(file.config)

\* Until the panel shows, the runtime's configuration is the one in the file, or
\* the one on its way there.
RuntimeKept == pc \in {"closed", "read"} /\ starting = "done" /\ ~stale =>
  /\ \A w \in writes : w.config = userConfig
  /\ writes = {} /\ saved => file.config = userConfig

InTime == ~raced /\ ~missed

Kept == InTime => FileIsWhole /\ PairingKept /\ RuntimeKept

IInv == TypeOK /\ PanelNeedsSession /\ Kept

-----------------------------------------------------------------------------
\* There is no file yet, and nobody is paired.
LEMMA InitIInv == Init => IInv
<1> SUFFICES ASSUME Init PROVE IInv
  OBVIOUS
<1>1. DefaultConfig \in Config
  BY DEF DefaultConfig, Config
<1>2. TypeOK
  BY <1>1 DEF Init, TypeOK, File, Missing
<1>3. PanelNeedsSession /\ Kept
  BY DEF Init, PanelNeedsSession, Kept, InTime, FileIsWhole, PairingKept, RuntimeKept,
         Pairs, Loading, Missing, DefaultConfig, Nobody
<1> QED BY <1>2, <1>3 DEF IInv

\* Configurations stay configurations, and no switch changes the paired user.
LEMMA ConfigTypes ==
  ASSUME TypeOK
  PROVE  /\ DefaultConfig \in Config /\ Missing \in File /\ Broken \in File
         /\ got.config \in Config
         /\ \A c \in Config : Written(c) \in File
         /\ \A c \in Config : \A u \in Users : [c EXCEPT !.allowedUserId = u] \in Config
         /\ \A c \in Config : \A f \in Fields :
              /\ [c EXCEPT ![f] = ~@] \in Config
              /\ [c EXCEPT ![f] = ~@].allowedUserId = c.allowedUserId
         /\ \A c \in Config : \A b \in BOOLEAN : \A f \in Fields :
              /\ [c EXCEPT ![f] = b] \in Config
              /\ [c EXCEPT ![f] = b].allowedUserId = c.allowedUserId
<1>1. DefaultConfig \in Config
  BY DEF DefaultConfig, Config
<1>2. Missing \in File /\ Broken \in File /\ got.config \in Config
  BY <1>1 DEF Missing, Broken, File, TypeOK
<1>3. \A c \in Config : Written(c) \in File
  BY DEF Written, File
<1>4. \A c \in Config : \A u \in Users : [c EXCEPT !.allowedUserId = u] \in Config
  BY DEF Config
<1>5. ASSUME NEW c \in Config, NEW b \in BOOLEAN, NEW f \in Fields
      PROVE  [c EXCEPT ![f] = b] \in Config /\ [c EXCEPT ![f] = b].allowedUserId = c.allowedUserId
  BY <1>5 DEF Config, Fields
<1>6. ASSUME NEW c \in Config, NEW f \in Fields
      PROVE  /\ [c EXCEPT ![f] = ~@] \in Config
             /\ [c EXCEPT ![f] = ~@].allowedUserId = c.allowedUserId
  <2>1. c[f] \in BOOLEAN
    BY <1>6 DEF Config, Fields
  <2>2. CASE c[f] = TRUE
    BY <1>5, <1>6, <2>2
  <2>3. CASE c[f] = FALSE
    BY <1>5, <1>6, <2>3
  <2> QED BY <2>1, <2>2, <2>3
<1> QED BY <1>1, <1>2, <1>3, <1>4, <1>5, <1>6

-----------------------------------------------------------------------------
\* A write opens the file: no load is under way, or it would be a race.
LEMMA TruncateKeeps == ASSUME IInv, Truncate PROVE IInv'
<1>1. PICK w \in writes :
        /\ file' = Broken
        /\ writes' = (writes \ {w}) \cup {[w EXCEPT !.truncated = TRUE]}
        /\ UNCHANGED <<userConfig, panel, shared, pc, starting, got, served, saved, missed, stale, raced>>
  BY DEF Truncate, pastVars
<1> DEFINE v == [w EXCEPT !.truncated = TRUE]
<1>2. v \in [config : Config, truncated : BOOLEAN] /\ v.config = w.config
  BY DEF IInv, TypeOK
<1> HIDE DEF v
<1>3. writes # {} /\ writes' # {} /\ writes' \subseteq writes \cup {v}
  BY <1>1 DEF v
<1>4. TypeOK'
  BY <1>1, <1>2, <1>3, ConfigTypes DEF IInv, TypeOK
<1>5. PanelNeedsSession'
  BY <1>1 DEF IInv, PanelNeedsSession
<1>6. Kept'
  <2> SUFFICES ASSUME InTime PROVE FileIsWhole' /\ PairingKept' /\ RuntimeKept'
    BY <1>1 DEF Kept, InTime
  <2>1. FileIsWhole /\ PairingKept /\ RuntimeKept
    BY DEF IInv, Kept
  <2>2. FileIsWhole'
    BY <1>1, <1>3, <2>1 DEF FileIsWhole, Loading
  <2>3. PairingKept'
    BY <1>1, <1>2, <1>3, <2>1 DEF PairingKept, Pairs
  <2>4. RuntimeKept'
    BY <1>1, <1>2, <1>3, <2>1 DEF RuntimeKept
  <2> QED BY <2>2, <2>3, <2>4
<1> QED BY <1>4, <1>5, <1>6 DEF IInv

\* A write ends: what it wrote pairs as the runtime does.
LEMMA WriteDoneKeeps == ASSUME IInv, WriteDone PROVE IInv'
<1>1. PICK w \in writes :
        /\ writes' = writes \ {w}
        /\ file' \in {Written(w.config)} \cup (IF raced THEN {Broken} ELSE {})
        /\ saved' = TRUE
        /\ UNCHANGED <<userConfig, panel, shared, pc, starting, got, served, missed, stale, raced>>
  BY DEF WriteDone
<1>2. w.config \in Config /\ writes # {} /\ writes' \subseteq writes
  BY <1>1 DEF IInv, TypeOK
<1>3. TypeOK'
  BY <1>1, <1>2, ConfigTypes DEF IInv, TypeOK
<1>4. PanelNeedsSession'
  BY <1>1 DEF IInv, PanelNeedsSession
<1>5. Kept'
  <2> SUFFICES ASSUME InTime PROVE FileIsWhole' /\ PairingKept' /\ RuntimeKept'
    BY <1>1 DEF Kept, InTime
  <2>1. FileIsWhole /\ PairingKept /\ RuntimeKept
    BY DEF IInv, Kept
  <2>2. file' = Written(w.config) /\ file'.config = w.config /\ file'.state = "written"
    BY <1>1 DEF Written, InTime
  <2>3. FileIsWhole'
    BY <1>1, <1>2, <2>1, <2>2 DEF FileIsWhole, Loading
  <2>4. PairingKept'
    BY <1>1, <1>2, <2>1, <2>2 DEF PairingKept, Pairs
  <2>5. RuntimeKept'
    BY <1>1, <1>2, <2>1, <2>2 DEF RuntimeKept
  <2> QED BY <2>3, <2>4, <2>5
<1> QED BY <1>3, <1>4, <1>5 DEF IInv

\* A write fails: what the file holds counts for nothing until the next one.
LEMMA WriteFailsKeeps == ASSUME IInv, WriteFails PROVE IInv'
<1>1. /\ writes # {} /\ writes' \subseteq writes /\ saved' = FALSE
      /\ UNCHANGED <<userConfig, panel, shared, pc, starting, got, file, served, missed, stale, raced>>
  BY DEF WriteFails
<1>2. TypeOK' /\ PanelNeedsSession'
  BY <1>1 DEF IInv, TypeOK, PanelNeedsSession
<1>3. Kept'
  <2> SUFFICES ASSUME InTime PROVE FileIsWhole' /\ PairingKept' /\ RuntimeKept'
    BY <1>1 DEF Kept, InTime
  <2>1. FileIsWhole /\ PairingKept /\ RuntimeKept
    BY DEF IInv, Kept
  <2>2. FileIsWhole' /\ RuntimeKept'
    BY <1>1, <2>1 DEF FileIsWhole, RuntimeKept, Loading
  <2>3. PairingKept'
    BY <1>1, <2>1 DEF PairingKept, Pairs
  <2> QED BY <2>2, <2>3
<1> QED BY <1>2, <1>3 DEF IInv

\* A message: the first sender is paired, and nobody else is let through.
LEMMA MessageKeeps ==
  ASSUME Nobody \notin Users, IInv, NEW u \in Users, Message(u) PROVE IInv'
<1>1. CASE userConfig.allowedUserId = Nobody
  <2>1. /\ starting = "done" /\ served' = served \cup {u}
        /\ userConfig' = [userConfig EXCEPT !.allowedUserId = u]
        /\ writes' = writes \cup {[config |-> userConfig', truncated |-> FALSE]}
        /\ shared' = shared \ {"timeout"}
        /\ raced' = (raced \/ writes # {} \/ Loading)
        /\ UNCHANGED <<panel, pc, starting, got, file, saved, missed, stale>>
    BY <1>1 DEF Message, Save
  <2>2. userConfig' \in Config /\ userConfig'.allowedUserId = u
    BY <2>1, ConfigTypes DEF IInv, TypeOK, Config
  <2>3. TypeOK'
    <3>1. [config |-> userConfig', truncated |-> FALSE] \in [config : Config, truncated : BOOLEAN]
      BY <2>2
    <3>2. writes' \subseteq [config : Config, truncated : BOOLEAN]
      BY <2>1, <3>1 DEF IInv, TypeOK
    <3>3. raced' \in BOOLEAN
      BY <2>1 DEF IInv, TypeOK
    <3> QED BY <2>1, <2>2, <3>2, <3>3 DEF IInv, TypeOK
  <2>4. PanelNeedsSession'
    BY <2>1 DEF IInv, PanelNeedsSession
  <2>5. Kept'
    <3> SUFFICES ASSUME InTime' PROVE FileIsWhole' /\ PairingKept' /\ RuntimeKept'
      BY DEF Kept
    <3>1. InTime /\ writes = {} /\ ~Loading
      BY <2>1 DEF InTime
    <3>2. PairingKept
      BY <3>1 DEF IInv, Kept
    <3>3. served' = {u}
      BY <1>1, <2>1, <3>2 DEF PairingKept, Pairs
    <3>4. writes' # {} /\ \A w \in writes' : w.config = userConfig'
      BY <2>1, <3>1
    <3>5. FileIsWhole' /\ RuntimeKept'
      <4>1. ~Loading'
        BY <2>1, <3>1 DEF Loading
      <4> QED BY <2>1, <3>4, <4>1 DEF FileIsWhole, RuntimeKept
    <3>6. PairingKept'
      BY <2>2, <3>3, <3>4 DEF PairingKept, Pairs, Nobody
    <3> QED BY <3>5, <3>6
  <2> QED BY <2>3, <2>4, <2>5 DEF IInv
<1>2. CASE userConfig.allowedUserId # Nobody
  <2>1. /\ starting = "done" /\ userConfig.allowedUserId = u /\ served' = served \cup {u}
        /\ UNCHANGED <<userConfig, writes, shared, raced, panel, pc, starting, got, file, saved,
                       missed, stale>>
    BY <1>2 DEF Message, Authorized
  <2>2. TypeOK' /\ PanelNeedsSession'
    BY <2>1 DEF IInv, TypeOK, PanelNeedsSession
  <2>3. Kept'
    <3> SUFFICES ASSUME InTime PROVE FileIsWhole' /\ PairingKept' /\ RuntimeKept'
      BY <2>1 DEF Kept, InTime
    <3>1. FileIsWhole /\ PairingKept /\ RuntimeKept
      BY DEF IInv, Kept
    <3>2. served' = served
      BY <1>2, <2>1, <3>1 DEF PairingKept, Pairs
    <3>3. FileIsWhole' /\ RuntimeKept'
      BY <2>1, <3>1 DEF FileIsWhole, RuntimeKept, Loading
    <3>4. PairingKept'
      BY <2>1, <3>1, <3>2 DEF PairingKept, Pairs
    <3> QED BY <3>3, <3>4
  <2> QED BY <2>2, <2>3 DEF IInv
<1> QED BY <1>1, <1>2

-----------------------------------------------------------------------------
\* What a load has read is the file as it was last saved, unless the file could
\* not be read.
LEMMA GotIsFile ==
  ASSUME IInv, Loading, InTime
  PROVE  /\ writes = {} /\ (starting = "read" => got.state # "broken")
         /\ got.state # "broken" => saved /\ got = file /\ Pairs(got.config)
  BY DEF IInv, Kept, FileIsWhole, PairingKept

\* A load begins, in a session or with one.
LEMMA ReadingKeeps ==
  ASSUME IInv,
         \/ \E ok \in BOOLEAN : OpenSettings(ok) \/ Close(ok)
         \/ \E goOn, ok \in BOOLEAN : SessionStart(goOn, ok)
  PROVE  IInv'
<1> DEFINE Begins ==
      /\ got' \in {file, Broken} /\ raced' = (raced \/ writes # {})
      /\ missed' \in BOOLEAN /\ (missed => missed')
      /\ got'.state # "broken" => got' = file /\ (~missed' => saved)
      /\ UNCHANGED <<file, served, saved, stale>>
      /\ writes' \subseteq writes
      /\ userConfig' \in {userConfig, DefaultConfig} /\ panel' \in {panel, DefaultConfig}
      /\ shared' \subseteq shared
      /\ starting' \in {starting, "read"}
      /\ \/ pc = "closed" /\ pc' = "read" /\ starting' = "done" /\ userConfig' = userConfig
         \/ pc' = "reread" /\ starting' = "done" /\ userConfig' = userConfig
         \/ pc' = "closed" /\ starting' = "read" /\ (~missed' => got'.state # "broken")
<1>1. Begins
  <2>1. ASSUME NEW ok \in BOOLEAN, Read(ok)
        PROVE  /\ got' \in {file, Broken} /\ (got'.state # "broken" => got' = file)
               /\ raced' = (raced \/ writes # {})
    BY <2>1 DEF Read, Broken
  <2>2. ASSUME NEW ok \in BOOLEAN, OpenSettings(ok) PROVE Begins
    BY <2>1, <2>2 DEF OpenSettings, Fails, IInv, TypeOK
  <2>3. ASSUME NEW ok \in BOOLEAN, Close(ok) PROVE Begins
    BY <2>1, <2>3 DEF Close, Fails, IInv, TypeOK, PanelNeedsSession
  <2>4. ASSUME NEW ok \in BOOLEAN, NEW goOn \in BOOLEAN, SessionStart(goOn, ok) PROVE Begins
    BY <2>1, <2>4 DEF SessionStart, Fails, IInv, TypeOK
  <2> QED BY <2>2, <2>3, <2>4
<1>2. TypeOK'
  <2>1. got' \in File /\ raced' \in BOOLEAN
    BY <1>1, ConfigTypes DEF IInv, TypeOK
  <2>2. userConfig' \in Config /\ panel' \in Config
    BY <1>1, ConfigTypes DEF IInv, TypeOK
  <2> QED BY <1>1, <2>1, <2>2 DEF IInv, TypeOK
<1>3. PanelNeedsSession'
  BY <1>1 DEF PanelNeedsSession
<1>4. Kept'
  <2> SUFFICES ASSUME InTime' PROVE FileIsWhole' /\ PairingKept' /\ RuntimeKept'
    BY DEF Kept
  <2>1. InTime /\ ~missed' /\ writes = {} /\ writes' = {}
    BY <1>1 DEF InTime
  <2>2. FileIsWhole /\ PairingKept /\ RuntimeKept
    BY <2>1 DEF IInv, Kept
  <2>3. FileIsWhole'
    BY <1>1, <2>1, <2>2 DEF FileIsWhole
  <2>4. RuntimeKept'
    BY <1>1, <2>1, <2>2 DEF RuntimeKept
  <2>5. starting' = "done" => Pairs(userConfig)'
    <3>1. ASSUME starting' = "done" PROVE starting = "done" /\ userConfig' = userConfig
      BY <1>1, <3>1
    <3> QED BY <1>1, <2>2, <3>1 DEF PairingKept, Pairs
  <2>6. PairingKept'
    BY <1>1, <2>1, <2>2, <2>5 DEF PairingKept, Pairs
  <2> QED BY <2>3, <2>4, <2>6
<1> QED BY <1>2, <1>3, <1>4 DEF IInv

\* A load ends: what it has read is used, or the runtime keeps what it has.
LEMMA LoadedKeeps == ASSUME IInv, Opened \/ Closed \/ Started PROVE IInv'
<1>1. /\ Loading
      /\ \/ got.state # "broken" /\ userConfig' = got.config /\ stale' = FALSE
         \/ /\ got.state = "broken" /\ userConfig' = userConfig
            /\ \/ starting = "read"
               \/ pc = "read" /\ stale' = stale
               \/ stale' = TRUE
      /\ panel' \in {panel, userConfig', DefaultConfig} /\ shared' \subseteq shared \cup Fields
      /\ got' = Missing
      /\ pc' \in {"closed", "open"} /\ starting' = "done"
      /\ UNCHANGED <<file, writes, served, saved, missed, raced>> /\ stale' \in BOOLEAN
  <2>1. CASE Opened
    BY <2>1 DEF Opened, Use, Normalized, Loading, IInv, TypeOK, PanelNeedsSession, Fields
  <2>2. CASE Closed
    BY <2>2 DEF Closed, Use, Normalized, Loading, IInv, TypeOK, PanelNeedsSession
  <2>3. CASE Started
    BY <2>3 DEF Started, Use, Normalized, Loading, IInv, TypeOK, PanelNeedsSession
  <2> QED BY <2>1, <2>2, <2>3
<1>2. ~Loading'
  BY <1>1 DEF Loading
<1>3. TypeOK'
  <2>1. userConfig' \in Config /\ panel' \in Config /\ got' \in File
    BY <1>1, ConfigTypes DEF IInv, TypeOK
  <2>2. shared' \subseteq Fields
    BY <1>1 DEF IInv, TypeOK
  <2> QED BY <1>1, <2>1, <2>2 DEF IInv, TypeOK
<1>4. PanelNeedsSession'
  BY <1>1 DEF PanelNeedsSession
<1>5. Kept'
  <2> SUFFICES ASSUME InTime PROVE FileIsWhole' /\ PairingKept' /\ RuntimeKept'
    BY <1>1 DEF Kept, InTime
  <2>1. FileIsWhole /\ PairingKept /\ RuntimeKept /\ writes = {}
    BY <1>1, GotIsFile DEF IInv, Kept
  <2>2. FileIsWhole'
    BY <1>1, <1>2, <2>1 DEF FileIsWhole
  <2>3. CASE got.state # "broken"
    <3>1. saved /\ userConfig' = file.config /\ Pairs(got.config) /\ got = file
      BY <1>1, <2>3, GotIsFile
    <3>2. RuntimeKept'
      BY <1>1, <2>1, <3>1 DEF RuntimeKept
    <3>3. PairingKept'
      BY <1>1, <2>1, <3>1 DEF PairingKept, Pairs
    <3> QED BY <2>2, <3>2, <3>3
  <2>4. CASE got.state = "broken"
    <3>1. starting = "done" /\ userConfig' = userConfig
      BY <1>1, <2>4, GotIsFile DEF IInv, TypeOK, Loading, PanelNeedsSession
    <3>2. RuntimeKept'
      BY <1>1, <2>1, <2>4, <3>1 DEF RuntimeKept
    <3>3. PairingKept'
      BY <1>1, <2>1, <3>1 DEF PairingKept, Pairs
    <3> QED BY <2>2, <3>2, <3>3
  <2> QED BY <2>3, <2>4
<1> QED BY <1>3, <1>4, <1>5 DEF IInv

\* A key of the panel: the runtime's paired user is saved with the panel's
\* switches.
LEMMA ToggleKeeps == ASSUME IInv, NEW f \in Fields, Toggle(f) PROVE IInv'
<1>1. /\ pc = "open" /\ starting = "done"
      /\ panel' = [panel EXCEPT ![f] = ~@]
      /\ userConfig' = IF f \in shared THEN [userConfig EXCEPT ![f] = panel'[f]] ELSE userConfig
      /\ writes' = writes \cup {[config |-> Merged(panel'), truncated |-> FALSE]}
      /\ raced' = (raced \/ writes # {} \/ Loading)
      /\ UNCHANGED <<shared, pc, starting, got, file, served, saved, missed, stale>>
  BY DEF Toggle, Save, IInv, PanelNeedsSession
<1>2. panel' \in Config
  BY <1>1, ConfigTypes DEF IInv, TypeOK
<1>3. panel'[f] \in BOOLEAN
  BY <1>2 DEF Config, Fields
<1>4. userConfig' \in Config /\ userConfig'.allowedUserId = userConfig.allowedUserId
  BY <1>1, <1>3, ConfigTypes DEF IInv, TypeOK
<1> DEFINE write == [config |-> Merged(panel'), truncated |-> FALSE]
<1>5. /\ write \in [config : Config, truncated : BOOLEAN]
      /\ write.config.allowedUserId = userConfig'.allowedUserId
  <2>1. /\ [panel' EXCEPT !.allowedUserId = userConfig'.allowedUserId] \in Config
        /\ [panel' EXCEPT !.allowedUserId = userConfig'.allowedUserId].allowedUserId
             = userConfig'.allowedUserId
    BY <1>2, <1>4 DEF Config
  <2> QED BY <1>4, <2>1 DEF Merged
<1>6. writes' = writes \cup {write}
  BY <1>1
<1> HIDE DEF write
<1>7. TypeOK'
  <2>1. writes' \subseteq [config : Config, truncated : BOOLEAN] /\ raced' \in BOOLEAN
    BY <1>1, <1>5, <1>6 DEF IInv, TypeOK
  <2> QED BY <1>1, <1>2, <1>4, <2>1 DEF IInv, TypeOK
<1>8. PanelNeedsSession'
  BY <1>1 DEF PanelNeedsSession
<1>9. Kept'
  <2> SUFFICES ASSUME InTime' PROVE FileIsWhole' /\ PairingKept' /\ RuntimeKept'
    BY DEF Kept
  <2>1. InTime /\ writes = {} /\ ~Loading
    BY <1>1 DEF InTime
  <2>2. FileIsWhole' /\ RuntimeKept'
    BY <1>1, <1>6, <2>1 DEF FileIsWhole, RuntimeKept, Loading
  <2>3. Pairs(userConfig)
    BY <1>1, <2>1 DEF IInv, Kept, PairingKept
  <2>4. writes' # {} /\ \A w \in writes' : w = write
    BY <1>6, <2>1
  <2>5. PairingKept'
    BY <1>1, <1>5, <1>4, <2>3, <2>4 DEF PairingKept, Pairs
  <2> QED BY <2>2, <2>5
<1> QED BY <1>7, <1>8, <1>9 DEF IInv

-----------------------------------------------------------------------------
\* Every step keeps the invariant.
LEMMA StepKeeps == ASSUME Nobody \notin Users, IInv, [Next]_settingsVars PROVE IInv'
<1>1. CASE Truncate BY <1>1, TruncateKeeps
<1>2. CASE WriteDone BY <1>2, WriteDoneKeeps
<1>3. CASE \E u \in Users : Message(u) BY <1>3, MessageKeeps
<1>4. CASE \/ \E ok \in BOOLEAN : OpenSettings(ok) \/ Close(ok)
           \/ \E goOn, ok \in BOOLEAN : SessionStart(goOn, ok)
  BY <1>4, ReadingKeeps
<1>5. CASE Opened \/ Closed \/ Started BY <1>5, LoadedKeeps
<1>6. CASE \E f \in {"command", "timeout"} : Toggle(f)
  BY <1>6, ToggleKeeps DEF Fields
<1>7. CASE UNCHANGED settingsVars
  BY <1>7 DEF settingsVars, pastVars, IInv, TypeOK, PanelNeedsSession, Kept, InTime, FileIsWhole,
              PairingKept, RuntimeKept, Loading, Pairs
<1>8. CASE WriteFails BY <1>8, WriteFailsKeeps
<1> QED BY <1>1, <1>2, <1>3, <1>4, <1>5, <1>6, <1>7, <1>8 DEF Next

\* The invariant holds whatever is sent, toggled, reloaded or restarted.
LEMMA Invariant == ASSUME Nobody \notin Users PROVE Spec => []IInv
<1>1. IInv /\ [Next]_settingsVars => IInv'
  BY StepKeeps
<1> QED BY <1>1, InitIInv, PTL DEF Spec

\* The first sender is paired for good: nobody else is ever let through, unless
\* accesses to the file overlapped, a load was used that lacks what a save failed
\* to write, or a session started with files it cannot read (the sender check of
\* index.ts with authorize.ts, saveUser and loadUser of config-store.ts).
THEOREM FirstIsPaired == ASSUME Nobody \notin Users PROVE Spec => []PairedOnce
<1>1. IInv => PairedOnce
  BY DEF IInv, Kept, InTime, PairingKept, PairedOnce
<1> QED BY <1>1, Invariant, PTL

\* When the panel is closed, the runtime goes by what it left in the file,
\* again unless accesses overlapped, a load missed a failed save, or the last
\* save or the load at closing failed (openSettings and session_start of
\* index.ts, which reload the configuration).
THEOREM RuntimeFollowsFile == ASSUME Nobody \notin Users PROVE Spec => []RuntimeIsFile
<1>1. IInv => RuntimeIsFile
  BY DEF IInv, Kept, InTime, FileIsWhole, RuntimeKept, RuntimeIsFile
<1> QED BY <1>1, Invariant, PTL
=============================================================================
