--------------------------- MODULE NotifySettings ---------------------------
(***************************************************************************)
(* The notification settings of one user: the tables user_notif_prefs and  *)
(* user_notif_targets (store/notify.go) and the screen on them             *)
(* (tui/screen_notify_settings.go), open in several windows of the user.   *)
(*                                                                         *)
(* A window works on its copies: the toggles are flipped in the copy and   *)
(* saved as a whole, the targets are acted on by their place in a list     *)
(* that is read when the screen opens and after an add or an edit.  Nobody *)
(* tells the other windows.  Each statement is a step.                     *)
(*                                                                         *)
(* A toggle is a number below PrefCount, label and URL of a target are one *)
(* text.  A URL that ValidateNotifyURL refuses leaves the form open.  The  *)
(* test of a target (key T) writes nothing and is left out.                *)
(***************************************************************************)
EXTENDS Integers, Sequences, FiniteSets

CONSTANTS
    Windows,
    PrefCount,      \* notifPrefCount, 5 in the code
    Texts,
    MaxTargets      \* bound: targets ever added

ASSUME SettingsAssumption ==
    /\ PrefCount \in Nat \ {0}
    /\ MaxTargets \in Nat

VARIABLES
    prefs,      \* the row of user_notif_prefs, or its defaults
    targets,    \* the rows of user_notif_targets: id |-> text, enabled
    lastId,     \* AUTOINCREMENT
    mode,       \* of each window; "away": it shows another screen
    copy,       \* m.prefs
    dirty,      \* m.prefsDirty
    list,       \* m.targets
    cursor,
    editingID,  \* 0 for a new target
    reading,    \* ListTargets is still to come in the running Update
    oldPrefs,   \* history: windows whose copy of prefs was read before another saved
    oldList,    \* history: windows whose list was read before another wrote targets
    shrunk      \* history: windows whose list lost rows when it was read again

tableVars  == <<prefs, targets, lastId>>
windowVars == <<mode, copy, dirty, list, cursor, editingID, reading>>
history    == <<oldPrefs, oldList, shrunk>>
vars == <<tableVars, windowVars, history>>

PrefIndex == 0..(PrefCount - 1)
Target    == [text : Texts, enabled : BOOLEAN]
Listed    == [id : 1..MaxTargets, text : Texts, enabled : BOOLEAN]

\* DefaultNotifyPrefs: the events on, the last toggle, OnlyWhenOffline, off.
DefaultNotifyPrefs == [i \in PrefIndex |-> i # PrefCount - 1]

Init ==
    /\ prefs = DefaultNotifyPrefs
    /\ targets = [i \in {} |-> 0] /\ lastId = 0
    /\ mode = [w \in Windows |-> "away"]
    /\ copy = [w \in Windows |-> DefaultNotifyPrefs]
    /\ dirty = [w \in Windows |-> FALSE]
    /\ list = [w \in Windows |-> <<>>]
    /\ cursor = [w \in Windows |-> 0]
    /\ editingID = [w \in Windows |-> 0]
    /\ reading = [w \in Windows |-> FALSE]
    /\ oldPrefs = {} /\ oldList = {} /\ shrunk = {}

-----------------------------------------------------------------------------
(* NotifyRepo.  One user's rows only: the lists that the ids are taken     *)
(* from hold no others.                                                    *)

Exists(id) == id \in DOMAIN targets

\* ORDER BY id: the row with n - 1 smaller ids is the n-th.
ListTargets ==
    [n \in 1..Cardinality(DOMAIN targets) |->
        LET id == CHOOSE i \in DOMAIN targets : Cardinality({j \in DOMAIN targets : j < i}) = n - 1
        IN  [id |-> id, text |-> targets[id].text, enabled |-> targets[id].enabled]]

\* The windows whose copies are older than what w writes now.
Others(w) == {v \in Windows \ {w} : mode[v] # "away"}

WriteTargets(w, table) ==
    /\ targets' = table
    /\ oldList' = oldList \cup Others(w)

AddTarget(w, text) ==
    /\ lastId < MaxTargets
    /\ lastId' = lastId + 1
    /\ WriteTargets(w, [i \in DOMAIN targets \cup {lastId + 1} |->
                           IF i \in DOMAIN targets THEN targets[i] ELSE [text |-> text, enabled |-> TRUE]])

\* No row: ErrNotifyTargetNotFound.
UpdateTarget(w, id, text, enabled) ==
    /\ Exists(id)
    /\ WriteTargets(w, [targets EXCEPT ![id] = [text |-> text, enabled |-> enabled]])
    /\ UNCHANGED lastId

SetTargetEnabled(w, id, enabled) ==
    /\ Exists(id)
    /\ WriteTargets(w, [targets EXCEPT ![id].enabled = enabled])
    /\ UNCHANGED lastId

DeleteTarget(w, id) ==
    /\ Exists(id)
    /\ WriteTargets(w, [i \in DOMAIN targets \ {id} |-> targets[i]])
    /\ UNCHANGED lastId

-----------------------------------------------------------------------------
(* The screen.                                                             *)

Browsing(w) == mode[w] = "list" /\ ~reading[w]
Editing(w)  == mode[w] = "edit" /\ ~reading[w]

addRowIndex(w) == PrefCount + Len(list[w])
rowCount(w)    == addRowIndex(w) + 1

\* The cursor is on a target: its place in the list.
OnTarget(w) == PrefCount <= cursor[w] /\ cursor[w] < addRowIndex(w)
Place(w)    == cursor[w] - PrefCount + 1
AtCursor(w) == list[w][Place(w)]

\* newNotifySettingsModel: GetPrefs, then ListTargets.
OpenSettings(w) ==
    /\ mode[w] = "away"
    /\ mode' = [mode EXCEPT ![w] = "list"]
    /\ copy' = [copy EXCEPT ![w] = prefs]
    /\ reading' = [reading EXCEPT ![w] = TRUE]
    /\ UNCHANGED <<tableVars, dirty, list, cursor, editingID, history>>

\* The end of the constructor, of an add and of an edit.  The cursor stays.
Relist(w) ==
    /\ reading[w]
    /\ list' = [list EXCEPT ![w] = ListTargets]
    /\ reading' = [reading EXCEPT ![w] = FALSE]
    /\ mode' = [mode EXCEPT ![w] = "list"]
    /\ editingID' = [editingID EXCEPT ![w] = 0]
    /\ oldList' = oldList \ {w}
    /\ shrunk' = IF Len(list'[w]) < Len(list[w]) THEN shrunk \cup {w} ELSE shrunk
    /\ UNCHANGED <<tableVars, copy, dirty, cursor, oldPrefs>>

\* Esc or Q of the list, Ctrl+U anywhere: what was flipped and not saved is gone.
LeaveSettings(w) ==
    /\ Browsing(w) \/ Editing(w)
    /\ mode' = [mode EXCEPT ![w] = "away"]
    /\ copy' = [copy EXCEPT ![w] = DefaultNotifyPrefs]
    /\ dirty' = [dirty EXCEPT ![w] = FALSE]
    /\ list' = [list EXCEPT ![w] = <<>>]
    /\ cursor' = [cursor EXCEPT ![w] = 0]
    /\ editingID' = [editingID EXCEPT ![w] = 0]
    /\ oldPrefs' = oldPrefs \ {w} /\ oldList' = oldList \ {w} /\ shrunk' = shrunk \ {w}
    /\ UNCHANGED <<tableVars, reading>>

\* Mutant: one row too far.
MoveCursorPastEnd(w) ==
    /\ Browsing(w)
    /\ \/ cursor[w] > 0 /\ cursor' = [cursor EXCEPT ![w] = @ - 1]
       \/ cursor[w] < rowCount(w) /\ cursor' = [cursor EXCEPT ![w] = @ + 1]
    /\ UNCHANGED <<tableVars, mode, copy, dirty, list, editingID, reading, history>>

MoveCursor(w) ==
    /\ Browsing(w)
    /\ \/ cursor[w] > 0 /\ cursor' = [cursor EXCEPT ![w] = @ - 1]
       \/ cursor[w] < rowCount(w) - 1 /\ cursor' = [cursor EXCEPT ![w] = @ + 1]
    /\ UNCHANGED <<tableVars, mode, copy, dirty, list, editingID, reading, history>>

\* Mutant: Ctrl+S would find no changes.
flipPrefClean(w) ==
    /\ Browsing(w) /\ cursor[w] < PrefCount
    /\ copy' = [copy EXCEPT ![w][cursor[w]] = ~@]
    /\ UNCHANGED <<tableVars, mode, dirty, list, cursor, editingID, reading, history>>

flipPref(w) ==
    /\ Browsing(w) /\ cursor[w] < PrefCount
    /\ copy' = [copy EXCEPT ![w][cursor[w]] = ~@]
    /\ dirty' = [dirty EXCEPT ![w] = TRUE]
    /\ UNCHANGED <<tableVars, mode, list, cursor, editingID, reading, history>>

\* The whole copy is written, also the toggles this window did not flip.
savePrefs(w) ==
    /\ Browsing(w) /\ dirty[w]
    /\ prefs' = copy[w]
    /\ dirty' = [dirty EXCEPT ![w] = FALSE]
    /\ oldPrefs' = oldPrefs \cup Others(w)
    /\ UNCHANGED <<targets, lastId, mode, copy, list, cursor, editingID, reading, oldList, shrunk>>

startAdd(w) ==
    /\ Browsing(w)
    /\ mode' = [mode EXCEPT ![w] = "edit"]
    /\ editingID' = [editingID EXCEPT ![w] = 0]
    /\ UNCHANGED <<tableVars, copy, dirty, list, cursor, reading, history>>

startEdit(w) ==
    /\ Browsing(w) /\ OnTarget(w)
    /\ mode' = [mode EXCEPT ![w] = "edit"]
    /\ editingID' = [editingID EXCEPT ![w] = AtCursor(w).id]
    /\ UNCHANGED <<tableVars, copy, dirty, list, cursor, reading, history>>

\* The id is not used again.
CancelEdit(w) ==
    /\ Editing(w)
    /\ mode' = [mode EXCEPT ![w] = "list"]
    /\ editingID' = [editingID EXCEPT ![w] = 0]
    /\ UNCHANGED <<tableVars, copy, dirty, list, cursor, reading, history>>

\* submitEdit of a new target; ListTargets follows (Relist).
SubmitNew(w, text) ==
    /\ Editing(w) /\ editingID[w] = 0
    /\ AddTarget(w, text)
    /\ reading' = [reading EXCEPT ![w] = TRUE]
    /\ UNCHANGED <<prefs, mode, copy, dirty, list, cursor, editingID, oldPrefs, shrunk>>

\* Mutant: an edited target is enabled again.
EnabledTrue(w) == TRUE

\* "preserve enabled state": the one of the list.
EnabledInList(w) == \A n \in DOMAIN list[w] : list[w][n].id = editingID[w] => list[w][n].enabled

\* submitEdit of a listed target; when it is gone the form stays open.
SubmitChange(w, text) ==
    /\ Editing(w) /\ editingID[w] # 0
    /\ UpdateTarget(w, editingID[w], text, EnabledInList(w))
    /\ reading' = [reading EXCEPT ![w] = TRUE]
    /\ UNCHANGED <<prefs, mode, copy, dirty, list, cursor, editingID, oldPrefs, shrunk>>

\* Mutant: the list keeps the old value.
toggleTargetNoCopy(w) ==
    /\ Browsing(w) /\ OnTarget(w)
    /\ SetTargetEnabled(w, AtCursor(w).id, ~AtCursor(w).enabled)
    /\ UNCHANGED <<prefs, windowVars, oldPrefs, shrunk>>

\* What the list shows is turned over, in the table and in the list.
toggleTarget(w) ==
    /\ Browsing(w) /\ OnTarget(w)
    /\ SetTargetEnabled(w, AtCursor(w).id, ~AtCursor(w).enabled)
    /\ list' = [list EXCEPT ![w][Place(w)].enabled = ~@]
    /\ UNCHANGED <<prefs, mode, copy, dirty, cursor, editingID, reading, oldPrefs, shrunk>>

WithoutRow(seq, n) == SubSeq(seq, 1, n - 1) \o SubSeq(seq, n + 1, Len(seq))

\* The cursor is kept inside the rows there are now.
NewCursor(w, rows) == IF cursor[w] >= rows THEN rows - 1 ELSE cursor[w]

\* A target that is gone already stays in the list.
deleteTarget(w) ==
    /\ Browsing(w) /\ OnTarget(w)
    /\ DeleteTarget(w, AtCursor(w).id)
    /\ list' = [list EXCEPT ![w] = WithoutRow(@, Place(w))]
    /\ cursor' = [cursor EXCEPT ![w] = NewCursor(w, rowCount(w) - 1)]
    /\ UNCHANGED <<prefs, mode, copy, dirty, editingID, reading, oldPrefs, shrunk>>

-----------------------------------------------------------------------------

Next ==
    \E w \in Windows :
        \/ OpenSettings(w) \/ Relist(w) \/ LeaveSettings(w) \/ MoveCursor(w)
        \/ flipPref(w) \/ savePrefs(w)
        \/ startAdd(w) \/ startEdit(w) \/ CancelEdit(w)
        \/ \E text \in Texts : SubmitNew(w, text) \/ SubmitChange(w, text)
        \/ toggleTarget(w) \/ deleteTarget(w)

Spec == Init /\ [][Next]_vars

-----------------------------------------------------------------------------
(* Properties.                                                             *)

\* Every variable holds a value of its type; ids are never reused.
TypeOK ==
    /\ prefs \in [PrefIndex -> BOOLEAN]
    /\ lastId \in 0..MaxTargets /\ DOMAIN targets \subseteq 1..lastId
    /\ targets \in [DOMAIN targets -> Target]
    /\ mode \in [Windows -> {"away", "list", "edit"}]
    /\ copy \in [Windows -> [PrefIndex -> BOOLEAN]]
    /\ dirty \in [Windows -> BOOLEAN]
    /\ list \in [Windows -> Seq(Listed)]
    /\ cursor \in [Windows -> Nat]
    /\ editingID \in [Windows -> 0..MaxTargets]
    /\ reading \in [Windows -> BOOLEAN]
    /\ oldPrefs \in SUBSET Windows /\ oldList \in SUBSET Windows /\ shrunk \in SUBSET Windows

\* A window shows the table, whatever it did to the targets itself, until another
\* window writes them: the list that toggles and deletions patch and that adds and
\* edits read again never drifts from the rows.
ListFollowsOwnWrites ==
    \A w \in Windows :
        Browsing(w) /\ w \notin oldList => list[w] = ListTargets

\* Without unsaved flips a window shows the saved toggles, until another saves;
\* and "dirty" is up whenever it does not.
PrefsFollowOwnWrites ==
    \A w \in Windows : mode[w] # "away" /\ ~dirty[w] /\ w \notin oldPrefs => copy[w] = prefs

\* The comment of cursor, as far as it goes: it is on a row, unless targets were
\* deleted in another window and the list read again.
CursorOnRow == \A w \in Windows : cursor[w] < rowCount(w) \/ w \in shrunk

\* Saving the form of a listed target leaves it enabled or disabled as it was, unless
\* another window has written targets since this one read its list.
EditKeepsEnabled ==
    [][\A w \in Windows :
          editingID[w] # 0 /\ reading'[w] /\ ~reading[w] /\ w \notin oldList
              => targets'[editingID[w]].enabled = targets[editingID[w]].enabled]_vars

=============================================================================
