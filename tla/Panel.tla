------------------------------- MODULE Panel --------------------------------
(***************************************************************************)
(* The /wechat-setting panel of the pi extension (panel.ts): two tabs of   *)
(* scope, three sections, a list with a selection, a scroll window and a   *)
(* filter, and the switches the selected item is toggled through.  What    *)
(* becomes of the saved configuration is module Settings.                  *)
(*                                                                         *)
(* Names and filters are sequences of letters.  A key is handled at once;  *)
(* the TUI renders when it likes, so several keys may come before it does. *)
(***************************************************************************)
EXTENDS Integers, Sequences, FiniteSets, SequencesExt

CONSTANTS
  Items,           \* sequence of items: id, name, section, exempt
  Letters,         \* letters a filter is typed with
  FilterLength,    \* bound: letters of a filter
  MAX_VISIBLE,
  TIMEOUT_PRESETS, \* sequence of seconds
  CustomTimeout    \* a timeout in the file that is no preset

TIMEOUT_ITEM_ID == "__timeout"
SECTION_ORDER == <<"native", "plugin", "setting">>
Sections == ToSet(SECTION_ORDER)
Commands == {i.id : i \in {i \in ToSet(Items) : i.section # "setting"}}
Unset == 0
PresetIndex(t) == IF t \in ToSet(TIMEOUT_PRESETS)
                    THEN CHOOSE i \in DOMAIN TIMEOUT_PRESETS : TIMEOUT_PRESETS[i] = t
                    ELSE 0

\* There is a timeout to choose, and a row to show it in.
PanelAssumption ==
  /\ Items \in Seq(ToSet(Items))
  /\ TIMEOUT_PRESETS \in Seq(Nat \ {Unset}) /\ TIMEOUT_PRESETS # <<>>
  /\ MAX_VISIBLE \in Nat \ {0}

VARIABLES
  open,          \* the panel is shown
  tab, section,
  selectedIndex, \* from 0
  scrollOffset,
  filterActive, filter,
  user, project, \* the configurations it was opened with, and changes
  fresh          \* it was rendered after the last key

listVars == <<section, selectedIndex, scrollOffset, filterActive, filter>>
configVars == <<user, project>>
panelVars == <<open, tab, listVars, configVars, fresh>>

Includes(s, part) == part = <<>> \/ \E i \in DOMAIN s : IsPrefix(part, SubSeq(s, i, Len(s)))

\* Where the list has the items of a section, and of those the filter passes.
InSection(s) == {i \in DOMAIN Items : Items[i].section = s}

VisibleItems ==
  IF filterActive THEN {i \in InSection(section) : Includes(Items[i].name, filter)}
                  ELSE InSection(section)
Count == Cardinality(VisibleItems)

\* The item in row n, from 0, when those at the positions I are listed.
InRow(n, I) == Items[CHOOSE i \in I : Cardinality({j \in I : j < i}) = n]

-----------------------------------------------------------------------------
Init ==
  /\ open = FALSE /\ tab = "user" /\ section = "native"
  /\ selectedIndex = 0 /\ scrollOffset = 0
  /\ filterActive = FALSE /\ filter = <<>>
  /\ user = [timeout |-> TIMEOUT_PRESETS[1], commands |-> [c \in Commands |-> "off"]]
  /\ project = [timeout |-> Unset, commands |-> [c \in Commands |-> "inherit"]]
  /\ fresh = FALSE

ResetSelection == selectedIndex' = 0 /\ scrollOffset' = 0
ClearFilter == filterActive' = FALSE /\ filter' = <<>>
NoConfig == UNCHANGED configVars
Key == open /\ fresh' = FALSE

\* /wechat-setting makes a new panel, from what is in the files.
Open(t, p) ==
  /\ ~open
  /\ open' = TRUE /\ tab' = "user" /\ section' = "native"
  /\ ClearFilter /\ ResetSelection
  /\ user' = [user EXCEPT !.timeout = t]
  /\ project' = [project EXCEPT !.timeout = p]
  /\ fresh' = FALSE

Escape ==
  /\ Key
  /\ \/ filterActive /\ ClearFilter /\ ResetSelection /\ UNCHANGED <<open, tab, section>>
     \/ ~filterActive /\ open' = FALSE /\ UNCHANGED <<tab, listVars>>
  /\ NoConfig

Backspace ==
  /\ Key /\ filterActive
  /\ filter' = IF filter = <<>> THEN <<>> ELSE Front(filter)
  /\ ResetSelection
  /\ UNCHANGED <<open, tab, section, filterActive>> /\ NoConfig

Slash ==
  /\ Key /\ ~filterActive
  /\ filterActive' = TRUE /\ filter' = <<>>
  /\ ResetSelection
  /\ UNCHANGED <<open, tab, section>> /\ NoConfig

Tab ==
  /\ Key
  /\ tab' = IF tab = "user" THEN "project" ELSE "user"
  /\ ClearFilter /\ ResetSelection
  /\ UNCHANGED <<open, section>> /\ NoConfig

\* To the left or to the right, around the ends.
CycleSection(delta) ==
  /\ Key
  /\ LET idx == CHOOSE i \in DOMAIN SECTION_ORDER : SECTION_ORDER[i] = section
     IN section' = SECTION_ORDER[((idx - 1 + delta + Len(SECTION_ORDER)) % Len(SECTION_ORDER)) + 1]
  /\ ClearFilter /\ ResetSelection
  /\ UNCHANGED <<open, tab>> /\ NoConfig

Move(delta) ==
  /\ Key
  /\ selectedIndex' = IF Count > 0 THEN (selectedIndex + delta + Count) % Count
                                   ELSE selectedIndex
  /\ UNCHANGED <<open, tab, section, scrollOffset, filterActive, filter>> /\ NoConfig

Type(letter) ==
  /\ Key /\ filterActive
  /\ Len(filter) < FilterLength
  /\ filter' = Append(filter, letter)
  /\ ResetSelection
  /\ UNCHANGED <<open, tab, section, filterActive>> /\ NoConfig

\* Mutant of Selected: the item is looked up in the list without the filter.
SelectedUnfiltered == InRow(selectedIndex, InSection(section))

Selected == InRow(selectedIndex, VisibleItems)

\* The user's timeout goes round the presets; the project's also through unset,
\* which inherits the user's.
NextPreset(i) == TIMEOUT_PRESETS[i + 1]
ToggleTimeout ==
  IF tab = "user"
    THEN /\ user' = [user EXCEPT !.timeout =
                       NextPreset(PresetIndex(@) % Len(TIMEOUT_PRESETS))]
         /\ UNCHANGED project
    ELSE /\ project' = [project EXCEPT !.timeout =
                          IF @ # Unset /\ PresetIndex(@) = Len(TIMEOUT_PRESETS)
                            THEN Unset ELSE NextPreset(PresetIndex(@))]
         /\ UNCHANGED user

ToggleCommand(c) ==
  IF tab = "user"
    THEN /\ user' = [user EXCEPT !.commands[c] = IF @ = "on" THEN "off" ELSE "on"]
         /\ UNCHANGED project
    ELSE /\ project' = [project EXCEPT !.commands[c] =
              CASE @ = "inherit" -> "on" [] @ = "on" -> "off" [] OTHER -> "inherit"]
         /\ UNCHANGED user

\* Enter, or a space, with the filter on or off.
Toggle ==
  /\ Key
  /\ \/ Count = 0 /\ NoConfig
     \/ Count > 0 /\ Selected.id = TIMEOUT_ITEM_ID /\ ToggleTimeout
     \/ Count > 0 /\ Selected.id # TIMEOUT_ITEM_ID /\ Selected.exempt /\ NoConfig
     \/ /\ Count > 0 /\ Selected.id # TIMEOUT_ITEM_ID /\ ~Selected.exempt
        /\ ToggleCommand(Selected.id)
  /\ UNCHANGED <<open, tab, listVars>>

\* Mutant of Scrolled: only the upper edge is looked at.
ScrolledUp(selected) == IF selected < scrollOffset THEN selected ELSE scrollOffset

\* The window is moved until the selected row is in it, and no further down
\* than the list goes.
Scrolled(selected) ==
  LET top == CASE selected < scrollOffset -> selected
               [] selected >= scrollOffset + MAX_VISIBLE -> selected - MAX_VISIBLE + 1
               [] OTHER -> scrollOffset
      lowest == IF Count > MAX_VISIBLE THEN Count - MAX_VISIBLE ELSE 0
  IN IF top > lowest THEN lowest ELSE top

Render ==
  /\ open /\ ~fresh
  /\ selectedIndex' = IF selectedIndex < Count THEN selectedIndex
                      ELSE IF Count > 0 THEN Count - 1 ELSE 0
  /\ scrollOffset' = Scrolled(selectedIndex')
  /\ fresh' = TRUE
  /\ UNCHANGED <<open, tab, section, filterActive, filter, configVars>>

FileTimeouts == ToSet(TIMEOUT_PRESETS) \cup {CustomTimeout}

Next ==
  \/ \E t \in FileTimeouts, p \in FileTimeouts \cup {Unset} : Open(t, p)
  \/ Escape \/ Backspace \/ Slash \/ Tab \/ Toggle \/ Render
  \/ \E delta \in {-1, 1} : CycleSection(delta) \/ Move(delta)
  \/ \E l \in Letters : Type(l)

Spec == Init /\ [][Next]_panelVars

-----------------------------------------------------------------------------
\* When the list has rows the cursor is on one of them, that row is one of the
\* rows shown, and no row is left empty that could show an item.
SelectionShown ==
  fresh => /\ Count > 0 => /\ selectedIndex < Count
                           /\ selectedIndex \in scrollOffset..(scrollOffset + MAX_VISIBLE - 1)
           /\ scrollOffset > 0 => scrollOffset + MAX_VISIBLE <= Count

\* An item is listed when it is in the section and passes the filter; the cursor
\* is on it when as many listed items come before it as there are rows above.
Listed(p) == Items[p].section = section /\ (filterActive => Includes(Items[p].name, filter))
OnCursor(p) == Listed(p) /\ Cardinality({q \in DOMAIN Items : Listed(q) /\ q < p}) = selectedIndex

\* A key changes at most one switch, of the scope of the tab, and of the item
\* under the cursor; it never changes a command that is always on.
OnlySelected ==
  open /\ configVars' # configVars =>
    \E p \in DOMAIN Items :
      /\ OnCursor(p)
      /\ Items[p].id = TIMEOUT_ITEM_ID \/ ~Items[p].exempt
      /\ IF tab = "user" THEN UNCHANGED project ELSE UNCHANGED user
      /\ IF Items[p].id = TIMEOUT_ITEM_ID
           THEN user'.commands = user.commands /\ project'.commands = project.commands
           ELSE /\ \A c \in Commands \ {Items[p].id} :
                     /\ user'.commands[c] = user.commands[c]
                     /\ project'.commands[c] = project.commands[c]
                /\ user'.timeout = user.timeout /\ project'.timeout = project.timeout

ChangesSelected == [][OnlySelected]_panelVars
=============================================================================
