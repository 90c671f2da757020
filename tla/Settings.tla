------------------------------ MODULE Settings ------------------------------
(***************************************************************************)
(* The user configuration of the pi extension: in memory, in the panel and *)
(* in wechatbot.json (settings.ts, config-store.ts, authorize.ts and the   *)
(* handlers of index.ts that load and save it).                            *)
(*                                                                         *)
(* Saves are not awaited: a write is under way from the call to the moment *)
(* it is in the file, and the file is truncated in between.  A save that   *)
(* fails is only logged.  A load reads the file at one moment and is used  *)
(* at a later one, and fails when this file or the project's is unreadable. *)
(*                                                                         *)
(* One command and one timeout stand for all of them.  The project         *)
(* configuration is a file of its own, written by the panel only; here it  *)
(* can be read or it cannot.                                               *)
(***************************************************************************)
EXTENDS Naturals

CONSTANTS
  Users,    \* senders
  Toggles,  \* bound: keys that change something
  Openings, \* bound: the panel is opened
  Starts    \* bound: sessions started, the first included

Nobody == 0
Config == [allowedUserId : {Nobody} \cup Users, command : BOOLEAN, timeout : BOOLEAN]
DefaultConfig == [allowedUserId |-> Nobody, command |-> FALSE, timeout |-> FALSE]

\* The file: missing, cut off, or a configuration.
Missing == [state |-> "missing", config |-> DefaultConfig]
Broken == [state |-> "broken", config |-> DefaultConfig]
Written(c) == [state |-> "written", config |-> c]

\* normalizeUserConfig: no file means the defaults; what saveUser has written
\* comes back as it was.
Normalized(f) == f.config

VARIABLES
  userConfig, \* the runtime's
  panel,      \* the panel's copy
  shared,     \* fields the panel's object shares with the runtime's
  pc,         \* where openSettings is
  starting,   \* where session_start is
  got,        \* what the load under way has read
  file,
  writes,     \* writes under way: configuration, truncated the file or not
  served,     \* senders that were let through
  saved,      \* the last save that ended did not fail
  missed,     \* a load was used that lacked what a save had failed to write, or
              \* a session started without a load
  stale,      \* the panel was closed without a load
  raced,      \* an access to the file, or a pairing, met another access
  used        \* bounds used up

pastVars == <<saved, missed, stale, raced>>
settingsVars == <<userConfig, panel, shared, pc, starting, got, file, writes, served,
                  pastVars, used>>

Init ==
  /\ userConfig = DefaultConfig
  /\ panel = DefaultConfig
  /\ shared = {}
  /\ pc = "closed"
  /\ starting = "no"
  /\ got = Missing
  /\ file = Missing
  /\ writes = {}
  /\ served = {}
  /\ saved = TRUE /\ missed = FALSE /\ stale = FALSE /\ raced = FALSE
  /\ used = [toggles |-> 0, openings |-> 0, starts |-> 0]

Spend(b, bound) == used[b] < bound /\ used' = [used EXCEPT ![b] = @ + 1]
Loading == "read" \in {pc, starting} \/ pc = "reread"

-----------------------------------------------------------------------------
\* saveUser, not awaited.
Save(c) == writes' = writes \cup {[config |-> c, truncated |-> FALSE]}

Truncate == \E w \in writes :
  /\ ~w.truncated
  /\ file' = Broken
  /\ writes' = (writes \ {w}) \cup {[w EXCEPT !.truncated = TRUE]}
  /\ UNCHANGED <<userConfig, panel, shared, pc, starting, got, served, pastVars, used>>

\* When two writes have the file open, their texts may be mixed.
WriteDone == \E w \in writes :
  /\ w.truncated
  /\ writes' = writes \ {w}
  /\ file' \in {Written(w.config)} \cup (IF raced THEN {Broken} ELSE {})
  /\ saved' = TRUE
  /\ UNCHANGED <<userConfig, panel, shared, pc, starting, got, served, missed, stale,
                 raced, used>>

\* A save that fails leaves the file as it is: as it was, or cut off.
WriteFails == \E w \in writes :
  /\ writes' = writes \ {w}
  /\ saved' = FALSE
  /\ UNCHANGED <<userConfig, panel, shared, pc, starting, got, file, served, missed, stale,
                 raced, used>>

\* authorizationState: the allowed user, or anybody when there is none.
Authorized(u) == userConfig.allowedUserId \in {Nobody, u}

\* A message of a sender.  Without an allowed user it pairs: the new object
\* replaces the runtime's, and shares the commands with it.
Message(u) ==
  /\ starting = "done"
  /\ Authorized(u)
  /\ served' = served \cup {u}
  /\ IF userConfig.allowedUserId = Nobody
       THEN /\ userConfig' = [userConfig EXCEPT !.allowedUserId = u]
            /\ Save(userConfig')
            /\ shared' = shared \ {"timeout"}
            /\ raced' = (raced \/ writes # {} \/ Loading)
       ELSE UNCHANGED <<userConfig, writes, shared, raced>>
  /\ UNCHANGED <<panel, pc, starting, got, file, saved, missed, stale, used>>

-----------------------------------------------------------------------------
\* reloadConfig loads the user's and the project's file together: one that is
\* cut off, or cannot be read, makes it fail.
Read(ok) ==
  /\ got' = IF ok THEN file ELSE Broken
  /\ raced' = (raced \/ writes # {})

Fails == got'.state = "broken"

\* Mutant of Use: what is in memory already is kept.
UseOnce ==
  /\ userConfig' = [Normalized(got) EXCEPT !.timeout = userConfig.timeout]
  /\ stale' = FALSE

Use ==
  /\ userConfig' = Normalized(got)
  /\ stale' = FALSE

\* /wechat-setting: loads, shows the panel, and loads again when it is closed.
\* The panel is given the runtime's own object.
OpenSettings(ok) ==
  /\ pc = "closed" /\ starting = "done"
  /\ Spend("openings", Openings)
  /\ pc' = "read"
  /\ Read(ok)
  /\ missed' = (missed \/ (~Fails /\ ~saved))
  /\ UNCHANGED <<userConfig, panel, shared, starting, file, writes, served, saved, stale>>

Opened ==
  /\ pc = "read"
  /\ IF got.state = "broken"
       THEN pc' = "closed" /\ UNCHANGED <<userConfig, panel, shared, stale>>
       ELSE /\ pc' = "open"
            /\ Use
            /\ panel' = userConfig'
            /\ shared' = {"command", "timeout"}
  /\ got' = Missing
  /\ UNCHANGED <<starting, file, writes, served, saved, missed, raced, used>>

\* Mutant of Merged: the panel's copy of the allowed user is saved.
MergedStale(c) == c

\* A pairing may have come while the panel was open.
Merged(c) == [c EXCEPT !.allowedUserId = userConfig.allowedUserId]

Toggle(field) ==
  /\ pc = "open"
  /\ Spend("toggles", Toggles)
  /\ panel' = [panel EXCEPT ![field] = ~@]
  /\ userConfig' = IF field \in shared THEN [userConfig EXCEPT ![field] = panel'[field]]
                                       ELSE userConfig
  /\ Save(Merged(panel'))
  /\ raced' = (raced \/ writes # {} \/ Loading)
  /\ UNCHANGED <<shared, pc, starting, got, file, served, saved, missed, stale>>

Close(ok) ==
  /\ pc = "open"
  /\ pc' = "reread"
  /\ Read(ok)
  /\ missed' = (missed \/ (~Fails /\ ~saved))
  /\ UNCHANGED <<userConfig, panel, shared, starting, file, writes, served, saved, stale, used>>

Closed ==
  /\ pc = "reread"
  /\ pc' = "closed"
  /\ IF got.state = "broken" THEN UNCHANGED userConfig /\ stale' = TRUE ELSE Use
  /\ shared' = {}
  /\ panel' = DefaultConfig
  /\ got' = Missing
  /\ UNCHANGED <<starting, file, writes, served, saved, missed, raced, used>>

\* session_start, in a new instance of the extension: /new, or pi started
\* again.  Writes go on, or not.
SessionStart(goOn, ok) ==
  /\ starting # "read"
  /\ Spend("starts", Starts)
  /\ starting' = "read"
  /\ pc' = "closed"
  /\ shared' = {}
  /\ userConfig' = DefaultConfig
  /\ writes' = IF goOn THEN writes ELSE {}
  /\ Read(ok)
  /\ missed' = (missed \/ Fails \/ ~saved)
  /\ panel' = DefaultConfig
  /\ UNCHANGED <<file, served, saved, stale>>

Started ==
  /\ starting = "read"
  /\ starting' = "done"
  /\ IF got.state = "broken" THEN UNCHANGED <<userConfig, stale>> ELSE Use
  /\ got' = Missing
  /\ UNCHANGED <<panel, shared, pc, file, writes, served, saved, missed, raced, used>>

Next ==
  \/ Truncate \/ WriteDone \/ WriteFails
  \/ \E u \in Users : Message(u)
  \/ \E ok \in BOOLEAN : OpenSettings(ok) \/ Close(ok)
  \/ Opened \/ Closed
  \/ \E f \in {"command", "timeout"} : Toggle(f)
  \/ \E goOn, ok \in BOOLEAN : SessionStart(goOn, ok)
  \/ Started

Spec == Init /\ [][Next]_settingsVars

-----------------------------------------------------------------------------
\* The first sender is paired for good: whatever is toggled, reloaded or
\* restarted, nobody else is let through, as long as no two accesses to the
\* file overlap, no load is used before a failed save was made up for by the
\* next one, and no session starts with files it cannot read.
PairedOnce == ~raced /\ ~missed => \A u, v \in served : u = v

\* When the panel is closed, the runtime goes by what it left in the file,
\* again unless accesses overlapped, a load missed a failed save, or the last
\* save or the load at closing failed.
RuntimeIsFile ==
  ~raced /\ ~missed /\ saved /\ ~stale /\ writes = {} /\ pc = "closed" /\ starting = "done"
    => userConfig = file.config /\ file.state # "broken"
=============================================================================
