------------------------------ MODULE Settings ------------------------------
(***************************************************************************)
(* One item of the settings (internal/op/setting.go): its row in the       *)
(* database, its entry in settingCache, and the flight of settingG that    *)
(* fills the entry.  A look-up and a save touch row and cache in separate  *)
(* steps and no lock covers them.  The value of the item is the number of  *)
(* saves that made it; the database does not fail.  A save is followed by  *)
(* a use of the item (SetFRP), or not (SaveSettings).                      *)
(***************************************************************************)
EXTENDS Naturals

CONSTANTS
    Proc,      \* the goroutines that serve requests
    MaxSaves,  \* bound on the saves
    None       \* no entry, no service

VARIABLES
    row,       \* the row
    cached,    \* the entry of settingCache
    look,      \* how far the look-up of each process is
    value,     \* what the look-up of each process has read
    due,       \* history: the last save whose item is to be used
    overtaken  \* history: a look-up read the row before that save and was still
               \* under way when a save of that kind cleared the cache

settingVars == <<row, cached, look, value, due, overtaken>>

Value == 0 .. MaxSaves

\* The process whose function the flight runs, if there is a flight
Leads(p) == look[p] \in {"read", "store", "close"}
Flight == \E p \in Proc : Leads(p)

SettingsInit ==
    /\ row = 0
    /\ cached \in {None, 0}
    /\ look = [p \in Proc |-> "none"]
    /\ value = [p \in Proc |-> None]
    /\ due = 0
    /\ overtaken = FALSE

-----------------------------------------------------------------------------
(* GetSettingItemByKey                                                      *)

Ask(p) == look' = [look EXCEPT ![p] = "ask"]

Hit(p) ==
    /\ look[p] = "ask" /\ cached # None
    /\ look' = [look EXCEPT ![p] = "got"]
    /\ value' = [value EXCEPT ![p] = cached]
    /\ UNCHANGED <<row, cached, due, overtaken>>

Miss(p) ==
    /\ look[p] = "ask" /\ cached = None
    /\ look' = [look EXCEPT ![p] = "miss"]
    /\ UNCHANGED <<row, cached, value, due, overtaken>>

\* settingG.Do: one flight for the item, and who finds it open waits for it.
Fly(p) ==
    /\ look[p] = "miss"
    /\ look' = [look EXCEPT ![p] = IF Flight THEN "wait" ELSE "read"]
    /\ UNCHANGED <<row, cached, value, due, overtaken>>

ReadRow(p) ==
    /\ look[p] = "read"
    /\ look' = [look EXCEPT ![p] = "store"]
    /\ value' = [value EXCEPT ![p] = row]
    /\ UNCHANGED <<row, cached, due, overtaken>>

StoreItem(p) ==
    /\ look[p] = "store"
    /\ look' = [look EXCEPT ![p] = "close"]
    /\ cached' = value[p]
    /\ UNCHANGED <<row, value, due, overtaken>>

Answered(p) == {q \in Proc : q = p \/ look[q] = "wait"}

Land(p) ==
    /\ look[p] = "close"
    /\ look' = [q \in Proc |-> IF q \in Answered(p) THEN "got" ELSE look[q]]
    /\ value' = [q \in Proc |-> IF q \in Answered(p) THEN value[p] ELSE value[q]]
    /\ UNCHANGED <<row, cached, due, overtaken>>

GetSettingItem(p) ==
    Hit(p) \/ Miss(p) \/ Fly(p) \/ ReadRow(p) \/ StoreItem(p) \/ Land(p)

\* The caller takes the item it asked for.
Taken(p) ==
    /\ look[p] = "got"
    /\ look' = [look EXCEPT ![p] = "none"]
    /\ value' = [value EXCEPT ![p] = None]

-----------------------------------------------------------------------------
(* SaveSettingItems: first the row, then SettingCacheUpdate; and the hour   *)
(* after which an entry expires                                             *)

WriteRow(used) ==
    /\ row < MaxSaves
    /\ row' = row + 1
    /\ due' = IF used THEN row + 1 ELSE due
    /\ UNCHANGED <<cached, look, value, overtaken>>

SettingCacheUpdate(used) ==
    /\ cached' = None
    /\ overtaken' = IF used
                    THEN \E p \in Proc : look[p] \in {"store", "close"} /\ value[p] < due
                    ELSE overtaken
    /\ UNCHANGED <<row, look, value, due>>

ItemExpires ==
    /\ cached # None
    /\ cached' = None
    /\ UNCHANGED <<row, look, value, due, overtaken>>

============================================================================
