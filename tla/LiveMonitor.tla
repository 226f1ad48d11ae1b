----------------------------- MODULE LiveMonitor -----------------------------
(***************************************************************************)
(* The live view of the dashboard (app.py): browser sessions, each served  *)
(* by a thread of one process, call cached functions for the station       *)
(* catalog, a snapshot of a station and its OFS guidance, and show what    *)
(* they return.  scripts/sync_noaa_stations.py rewrites the bundled        *)
(* catalog meanwhile.                                                      *)
(*                                                                         *)
(* Abstractions.                                                           *)
(*  - A value is the request it answers and the time that was made: what   *)
(*    the adapter returns is ProviderFetch's subject.                      *)
(*  - Streamlit's st.cache_data is external: a hit is younger than the     *)
(*    function's ttl; a miss takes the lock of its key, looks again and    *)
(*    calls the function; an exception is not stored.  clear() drops the   *)
(*    values and the locks: a later miss takes a new lock, while a call    *)
(*    under way still stores its value when it returns.                    *)
(*  - A session does one thing at a time: an interaction reruns the script *)
(*    once the function it is in has returned.                             *)
(*  - MaxFetch bounds the time a request takes with all its retries.       *)
(***************************************************************************)
EXTENDS Naturals, FiniteSets

CONSTANTS
  Sessions,
  Stations,    \* what can be selected: a station with its datum
  Tidal,       \* those with tide predictions
  Ttl,         \* the ttl of each cached function
  MaxFetch,
  MaxTime,     \* bound: ticks
  MaxRefresh,  \* bound: presses of the Refresh button
  MaxSyncs     \* bound: runs of the sync script

NoArg == "none"     \* the argument of a function without any

ASSUME LiveAssumption ==
  /\ IsFiniteSet(Sessions) /\ NoArg \notin Stations /\ Tidal \subseteq Stations
  /\ {MaxFetch, MaxTime, MaxRefresh, MaxSyncs} \subseteq Nat
  /\ Ttl \in [{"catalog", "snapshot", "guidance"} -> Nat \ {0}]

VARIABLES
  now,
  entries,    \* the values stored by each cached function
  clears,     \* how often its cache has been cleared
  refreshes,
  bundle,     \* the bundled catalog: "good", "torn" or "missing"
  sync,       \* where the sync script stands
  syncs,
  at,         \* where each session's script stands
  call,       \* the cached function it is in
  selected,   \* its station, and whether OFS guidance is selected
  lock,       \* the lock it waits for or holds: how often the cache had been cleared
  begun,      \* when the fetch it makes began
  snapshot,   \* the snapshot its script got
  shown,      \* the page the last step ended with, if it did, and whose it is
  pressed,    \* history: the time of the press that started the script, if one did
  rival       \* history: was a fetch of the station under way at that press?

clock == <<now, refreshes>>
catalog == <<bundle, sync, syncs>>
script == <<at, call, selected, lock, begun, snapshot>>
presses == <<pressed, rival>>
liveVars == <<clock, entries, clears, catalog, script, shown, presses>>

Functions == {"catalog", "snapshot", "guidance"}
Times == 0..MaxTime
NoTime == MaxTime + 1
Value == [of : Stations \cup {NoArg}, asked : Times, bundled : BOOLEAN]
NoValue == [of |-> NoArg, asked |-> NoTime, bundled |-> FALSE]
Nothing ==
  [to |-> {}, as |-> "nothing", snapshot |-> NoValue, guidance |-> NoValue, compared |-> "none",
   pressed |-> NoTime, rival |-> FALSE]

\* The variables have the types of the objects they stand for.
LiveTypeOK ==
  /\ now \in Times /\ refreshes \in 0..MaxRefresh /\ syncs \in 0..MaxSyncs
  /\ bundle \in {"good", "torn", "missing"} /\ sync \in {"idle", "write"}
  /\ entries \in [Functions -> SUBSET [value : Value, stored : Times]]
  /\ clears \in [Functions -> 0..MaxRefresh]
  /\ \A c \in Functions :
       /\ \A e \in entries[c] : e.value.asked <= e.stored /\ e.stored <= now
       /\ \A d, e \in entries[c] : d.value.of = e.value.of => d = e
  /\ at \in [Sessions -> {"idle", "clear", "look", "wait", "fetch", "done"}]
  /\ call \in [Sessions -> Functions]
  /\ selected \in [Sessions -> [station : Stations, ofs : BOOLEAN]]
  /\ lock \in [Sessions -> 0..MaxRefresh] /\ begun \in [Sessions -> Times \cup {NoTime}]
  /\ snapshot \in [Sessions -> Value \cup {NoValue}]
  /\ pressed \in [Sessions -> Times \cup {NoTime}] /\ rival \in [Sessions -> BOOLEAN]

LiveInit ==
  /\ now = 0 /\ refreshes = 0 /\ syncs = 0 /\ sync = "idle"
  /\ bundle \in {"good", "missing"}
  /\ entries = [c \in Functions |-> {}] /\ clears = [c \in Functions |-> 0]
  /\ at = [s \in Sessions |-> "idle"] /\ call = [s \in Sessions |-> "catalog"]
  /\ \E x \in Stations : selected = [s \in Sessions |-> [station |-> x, ofs |-> FALSE]]
  /\ lock = [s \in Sessions |-> 0] /\ begun = [s \in Sessions |-> NoTime]
  /\ snapshot = [s \in Sessions |-> NoValue] /\ shown = Nothing
  /\ pressed = [s \in Sessions |-> NoTime] /\ rival = [s \in Sessions |-> FALSE]

Quiet == shown' = Nothing
-----------------------------------------------------------------------------
(* st.cache_data *)
Arg(s) == IF call[s] = "catalog" THEN NoArg ELSE selected[s].station
Young(c, stored, time) == time - stored < Ttl[c]
\* A bug: the key leaves the station out.
AnyEntry(s) == {e \in entries[call[s]] : Young(call[s], e.stored, now)}
\* The entry that answers the call, if there is one.
Hit(s) == {e \in entries[call[s]] : e.value.of = Arg(s) /\ Young(call[s], e.stored, now)}
Free(s) ==
  \A t \in Sessions \ {s} :
    ~(at[t] = "fetch" /\ call[t] = call[s] /\ Arg(t) = Arg(s) /\ lock[t] = lock[s])
\* A bug: the value is stored beside an older one.
StoredBeside(c, value) ==
  entries' = [entries EXCEPT ![c] = @ \cup {[value |-> value, stored |-> now]}]
Stored(c, value) ==
  entries' = [entries EXCEPT ![c] =
    {e \in @ : e.value.of # value.of} \cup {[value |-> value, stored |-> now]}]

\* Time passes while sessions fetch, wait for one that does, or have nothing to do;
\* entries whose time is over are dropped.
Tick ==
  /\ now < MaxTime /\ now' = now + 1
  /\ \A s \in Sessions :
       /\ at[s] \in {"idle", "done", "fetch"} \/ (at[s] = "wait" /\ ~Free(s))
       /\ at[s] = "fetch" => now - begun[s] < MaxFetch
  /\ entries' = [c \in Functions |-> {e \in entries[c] : Young(c, e.stored, now + 1)}]
  /\ Quiet /\ UNCHANGED <<refreshes, clears, catalog, script, presses>>
-----------------------------------------------------------------------------
(* The script. *)
Begin(s, selection, refresh) ==
  /\ at[s] \in {"idle", "done"}
  /\ at' = [at EXCEPT ![s] = "look"] /\ call' = [call EXCEPT ![s] = "catalog"]
  /\ selected' = [selected EXCEPT ![s] = selection]
  /\ snapshot' = [snapshot EXCEPT ![s] = NoValue] /\ Quiet
  /\ pressed' = [pressed EXCEPT ![s] = IF refresh THEN now ELSE NoTime]
  /\ rival' = [rival EXCEPT ![s] = FALSE]
  /\ UNCHANGED <<now, entries, clears, catalog, lock, begun>>
\* The page is opened, or a widget of the sidebar is changed.
Select(s) ==
  /\ \E x \in Stations, ofs \in BOOLEAN : Begin(s, [station |-> x, ofs |-> ofs], FALSE)
  /\ UNCHANGED refreshes
\* The button is there once the page was shown.
Refresh(s) ==
  /\ at[s] = "done" /\ refreshes < MaxRefresh /\ refreshes' = refreshes + 1
  /\ Begin(s, selected[s], TRUE)

\* The catalog came: clear the caches when the script was started by the button,
\* snapshots first; then load the snapshot.
Underway(s) ==
  \E t \in Sessions \ {s} :
    at[t] = "fetch" /\ call[t] # "catalog" /\ selected[t].station = selected[s].station
Listed(s) ==
  IF pressed[s] # NoTime
  THEN /\ at' = [at EXCEPT ![s] = "clear"] /\ call' = [call EXCEPT ![s] = "snapshot"]
       /\ rival' = [rival EXCEPT ![s] = Underway(s)]
  ELSE /\ at' = [at EXCEPT ![s] = "look"] /\ call' = [call EXCEPT ![s] = "snapshot"]
       /\ UNCHANGED rival
Clear(s) ==
  /\ at[s] = "clear"
  /\ entries' = [entries EXCEPT ![call[s]] = {}]
  /\ clears' = [clears EXCEPT ![call[s]] = @ + 1]
  /\ at' = [at EXCEPT ![s] = IF call[s] = "guidance" THEN "look" ELSE "clear"]
  /\ call' = [call EXCEPT ![s] = IF call[s] = "guidance" THEN "snapshot" ELSE "guidance"]
  /\ rival' = [rival EXCEPT ![s] = @ \/ Underway(s)]
  /\ Quiet /\ UNCHANGED <<clock, catalog, selected, lock, begun, snapshot, pressed>>

\* What the view compares the observations with: OFS guidance that has a timestamp in
\* common with them, or the tide, or nothing.
Tide(s) == IF selected[s].station \in Tidal THEN "tide" ELSE "none"
Show(s, snap, guide, compared) ==
  /\ at' = [at EXCEPT ![s] = "done"]
  /\ shown' = [to |-> {s}, as |-> "values", snapshot |-> snap, guidance |-> guide,
               compared |-> compared, pressed |-> pressed[s], rival |-> rival[s]]
  /\ snapshot' = [snapshot EXCEPT ![s] = NoValue]
  /\ rival' = [rival EXCEPT ![s] = FALSE] /\ UNCHANGED call
Compared(s, guide) == IF guide = NoValue THEN {Tide(s)} ELSE {Tide(s), "OFS"}

\* The function returned.
Return(s, value) ==
  CASE call[s] = "catalog" -> Listed(s) /\ UNCHANGED snapshot /\ Quiet
    [] call[s] = "snapshot" /\ selected[s].ofs ->
         /\ call' = [call EXCEPT ![s] = "guidance"] /\ at' = [at EXCEPT ![s] = "look"]
         /\ snapshot' = [snapshot EXCEPT ![s] = value] /\ UNCHANGED rival /\ Quiet
    [] call[s] = "snapshot" /\ ~selected[s].ofs -> Show(s, value, NoValue, Tide(s))
    [] call[s] = "guidance" ->
         \E compared \in Compared(s, value) : Show(s, snapshot[s], value, compared)
\* The function raised: an error is shown and nothing else, but the view goes on
\* without its guidance.
Raise(s) ==
  IF call[s] = "guidance" THEN Show(s, snapshot[s], NoValue, Tide(s))
  ELSE /\ at' = [at EXCEPT ![s] = "done"]
       /\ shown' = [Nothing EXCEPT !.to = {s}, !.as = "error"]
       /\ rival' = [rival EXCEPT ![s] = FALSE] /\ UNCHANGED <<call, snapshot>>

\* The press is forgotten with the script it started.
Over(s) == pressed' = [pressed EXCEPT ![s] = IF at'[s] = "done" THEN NoTime ELSE @]
Look(s) ==
  /\ at[s] = "look"
  /\ \/ \E e \in Hit(s) : Return(s, e.value) /\ UNCHANGED lock
     \/ /\ Hit(s) = {} /\ lock' = [lock EXCEPT ![s] = clears[call[s]]]
        /\ at' = [at EXCEPT ![s] = "wait"] /\ UNCHANGED <<call, snapshot, rival>> /\ Quiet
  /\ UNCHANGED <<clock, entries, clears, catalog, selected, begun>> /\ Over(s)
Release(s) == begun' = [begun EXCEPT ![s] = NoTime] /\ lock' = [lock EXCEPT ![s] = 0]
\* The lock is free: look again.
Enter(s) ==
  /\ at[s] = "wait" /\ Free(s)
  /\ \/ \E e \in Hit(s) : Return(s, e.value) /\ Release(s)
     \/ /\ Hit(s) = {} /\ begun' = [begun EXCEPT ![s] = now]
        /\ at' = [at EXCEPT ![s] = "fetch"] /\ UNCHANGED <<lock, call, snapshot, rival>> /\ Quiet
  /\ UNCHANGED <<clock, entries, clears, catalog, selected>> /\ Over(s)

Answer(s, value) ==
  /\ Stored(call[s], value) /\ Return(s, value) /\ Release(s)
  /\ UNCHANGED <<clock, clears, catalog, selected>> /\ Over(s)
Failed(s) ==
  /\ Raise(s) /\ Release(s)
  /\ UNCHANGED <<clock, entries, clears, catalog, selected>> /\ Over(s)
\* NOAA answers with what was asked for.
Catalog(s) ==
  /\ at[s] = "fetch" /\ call[s] = "catalog"
  /\ Answer(s, [of |-> NoArg, asked |-> begun[s], bundled |-> FALSE])
Snapshot(s) ==
  /\ at[s] = "fetch" /\ call[s] = "snapshot"
  /\ Answer(s, [of |-> Arg(s), asked |-> begun[s], bundled |-> FALSE])
Guidance(s) ==
  /\ at[s] = "fetch" /\ call[s] = "guidance"
  /\ Answer(s, [of |-> Arg(s), asked |-> begun[s], bundled |-> FALSE])
\* Station discovery fails: the bundled catalog answers, and is stored like a live one.
Bundled(s) ==
  /\ at[s] = "fetch" /\ call[s] = "catalog" /\ bundle = "good"
  /\ Answer(s, [of |-> NoArg, asked |-> begun[s], bundled |-> TRUE])
NoCatalog(s) == at[s] = "fetch" /\ call[s] = "catalog" /\ bundle # "good" /\ Failed(s)
\* The adapter raises, or the window has no rows, no common timestamp, another datum.
FetchFails(s) == at[s] = "fetch" /\ call[s] # "catalog" /\ Failed(s)
-----------------------------------------------------------------------------
(* scripts/sync_noaa_stations.py: fetch, then rewrite the file in place. *)
SyncOpen ==
  /\ sync = "idle" /\ syncs < MaxSyncs /\ syncs' = syncs + 1
  /\ sync' = "write" /\ bundle' = "torn"
  /\ Quiet /\ UNCHANGED <<clock, entries, clears, script, presses>>
SyncWrite ==
  /\ sync = "write" /\ sync' = "idle" /\ bundle' = "good"
  /\ Quiet /\ UNCHANGED <<syncs, clock, entries, clears, script, presses>>
SyncKilled ==
  /\ sync = "write" /\ sync' = "idle"
  /\ Quiet /\ UNCHANGED <<bundle, syncs, clock, entries, clears, script, presses>>

Sync == SyncOpen \/ SyncWrite \/ SyncKilled
LiveStep(s) ==
  \/ Refresh(s) \/ Clear(s) \/ Look(s) \/ Enter(s)
  \/ Catalog(s) \/ Snapshot(s) \/ Guidance(s) \/ Bundled(s) \/ NoCatalog(s) \/ FetchFails(s)
-----------------------------------------------------------------------------
(***************************************************************************)
(* Properties.                                                             *)
(***************************************************************************)
\* A value is no older than its cache's ttl and the fetch that brought it.
Recent(c, value) == now - value.asked < Ttl[c] + MaxFetch

\* What is shown was requested for the station and datum that are selected, at most the
\* ttl of its cache and the time of a fetch ago; after Refresh it was requested after the
\* press.  When another session was fetching the station its answer may be stored after the
\* caches were cleared, and what is shown may be older by that one fetch, and no more,
\* whatever the ttl.  The comparison named OFS is made with OFS guidance.
\* With OFS the snapshot is that young when the script turns to the guidance; it then waits
\* for a lock as long as other sessions take it first, for which the code has no bound.
Overtaken(rivalled) == IF rivalled THEN MaxFetch ELSE 0
ValuesAsRequested ==
  shown.as = "values" => \A s \in shown.to :
    /\ \A v \in {shown.snapshot, shown.guidance} \ {NoValue} :
         /\ v.of = selected[s].station
         /\ shown.pressed # NoTime => v.asked + Overtaken(shown.rival) >= shown.pressed
    /\ shown.snapshot # NoValue
    /\ ~selected[s].ofs => Recent("snapshot", shown.snapshot)
    /\ shown.guidance # NoValue => Recent("guidance", shown.guidance)
    /\ shown.compared = "OFS" => shown.guidance # NoValue
ShownAsRequested ==
  /\ \A s \in Sessions :
       at[s] = "look" /\ call[s] = "guidance" => Recent("snapshot", snapshot[s])
  /\ ValuesAsRequested
=============================================================================
