------------------------------- MODULE HotReload -------------------------------
(***************************************************************************)
(* The hub's hot-reloading configuration loader (hub/cmd/hub/hotreload.go):*)
(* one file, edited by others at any moment, and the goroutine that polls  *)
(* its modification time.  os.Stat and os.ReadFile are separate steps, so  *)
(* an edit can land between any two of them.                               *)
(*                                                                         *)
(* A file content is an opaque value; parse accepts the ones in Valid.  An *)
(* edit stamps the file with a later modification time than the one before *)
(* it (a projected ConfigMap volume is always written anew).               *)
(***************************************************************************)
EXTENDS Naturals

CONSTANTS
    Contents, Valid,    \* what can be written to the file; what parse accepts
    NoConfig,           \* no configuration is loaded yet
    ReadFaults,         \* a stat or a read of a present file may fail
    MaxTime             \* the bound on modification times

ASSUME HotReloadAssumption ==
    /\ Valid \subseteq Contents /\ NoConfig \notin Contents
    /\ ReadFaults \in BOOLEAN /\ MaxTime \in Nat \ {0}

VARIABLES
    file,       \* content of the file
    mtime,      \* its modification time
    present,    \* the path resolves
    current,    \* the published configuration (atomic.Pointer)
    last,       \* the watcher's `last`
    phase,      \* idle, stat, read: in the ticker's select, before
                \* readHotReload's stat, before its ReadFile; exited
    newest,     \* info.ModTime() of the watcher's own stat
    modTime     \* info.ModTime() of readHotReload's stat

disk == <<file, mtime, present>>
reloadVars == <<file, mtime, present, current, last, phase, newest, modTime>>

Times == 0..MaxTime

\* The hub starts: loadHotReload goes straight to readHotReload.
ReloadInit ==
    /\ file \in Contents /\ mtime = 1 /\ present \in BOOLEAN
    /\ current = NoConfig
    /\ last = 0 /\ newest = 0 /\ modTime = 0
    /\ phase = "stat"

-----------------------------------------------------------------------------
\* readHotReload returned an error: fatal at startup; later, the current
\* configuration is kept and the content just seen is not read again.
Rejected ==
    IF current = NoConfig
    THEN phase' = "exited" /\ UNCHANGED last
    ELSE phase' = "idle" /\ last' = newest

\* Mutant of TickSeesChange: times are compared too coarsely.
TickSeesChangeCoarse ==
    /\ phase = "idle" /\ present /\ mtime > last + 1
    /\ newest' = mtime
    /\ phase' = "stat"
    /\ UNCHANGED <<disk, current, last, modTime>>

\* A tick on which the file is newer than what was last looked at.  (Any
\* other tick, and one whose stat fails, changes nothing.)
TickSeesChange ==
    /\ phase = "idle" /\ present /\ mtime > last
    /\ newest' = mtime
    /\ phase' = "stat"
    /\ UNCHANGED <<disk, current, last, modTime>>

\* readHotReload's own os.Stat.
Stat ==
    /\ phase = "stat" /\ present
    /\ modTime' = mtime
    /\ phase' = "read"
    /\ UNCHANGED <<disk, current, last, newest>>

\* Mutant of ReadGood: the hub's clock, which may be ahead of the one that
\* stamps the file, is used for `last`.
ReadGoodStampedNow ==
    /\ phase = "read" /\ present /\ file \in Valid
    /\ current' = file
    /\ last' \in {t \in Times : t >= mtime}
    /\ phase' = "idle"
    /\ UNCHANGED <<disk, newest, modTime>>

\* os.ReadFile, parse, and publication of what was read.
ReadGood ==
    /\ phase = "read" /\ present /\ file \in Valid
    /\ current' = file
    /\ last' = modTime
    /\ phase' = "idle"
    /\ UNCHANGED <<disk, newest, modTime>>

\* parse refuses what was read.
ReadBad ==
    /\ phase = "read" /\ present /\ file \notin Valid
    /\ Rejected
    /\ UNCHANGED <<disk, current, newest, modTime>>

\* The path is gone, or the stat or the read of a present file fails.
ReadError ==
    /\ phase \in {"stat", "read"}
    /\ ~present \/ ReadFaults
    /\ Rejected
    /\ UNCHANGED <<disk, current, newest, modTime>>

-----------------------------------------------------------------------------
(* The file's editors.                                                     *)

Edit(c) ==
    /\ mtime < MaxTime
    /\ file' = c /\ mtime' = mtime + 1 /\ present' = TRUE
    /\ UNCHANGED <<current, last, phase, newest, modTime>>

Remove ==
    /\ present /\ mtime < MaxTime
    /\ present' = FALSE
    /\ UNCHANGED <<file, mtime, current, last, phase, newest, modTime>>

ReloadNext ==
    \/ TickSeesChange
    \/ Stat
    \/ ReadGood
    \/ ReadBad
    \/ ReadError
    \/ \E c \in Contents : Edit(c)
    \/ Remove

ReloadSpec == ReloadInit /\ [][ReloadNext]_reloadVars

\* The ticker keeps ticking and a call to the file system returns.
ReloadFairSpec == ReloadSpec /\ WF_reloadVars(TickSeesChange) /\ WF_reloadVars(Stat \/ ReadError)
                 /\ WF_reloadVars(ReadGood \/ ReadBad \/ ReadError)

-----------------------------------------------------------------------------
(* Properties.                                                             *)

ReloadTypeOK ==
    /\ file \in Contents /\ mtime \in Times /\ present \in BOOLEAN
    /\ current \in Valid \cup {NoConfig}
    /\ last \in Times /\ newest \in Times /\ modTime \in Times
    /\ phase \in {"idle", "stat", "read", "exited"}

\* The watcher never believes itself up to date when it is not: a file that
\* parses and is not newer than `last` is the configuration in use, however
\* edits interleave with the stats and the read (hotreload.go:48-63, 82-92).
NoMissedEdit ==
    phase = "idle" /\ present /\ mtime <= last /\ file \in Valid => current = file

\* A running hub always has the last configuration that parsed: it changes
\* only to what the file held when it was read, never back to none and never
\* to a rejected one (hotreload.go:22-23 "the last good config stays live").
LastGoodStays == [][ current' # current => current' = file /\ current' \in Valid ]_current

\* An edit that stays and parses takes effect without a restart
\* (hotreload.go:21-22, 65-66 "swaps in a re-parsed config on change").
EditTakesEffect ==
    \A c \in Valid : <>[](file = c /\ present) => <>[](phase = "exited" \/ current = c)
===============================================================================
