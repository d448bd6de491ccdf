----------------------------- MODULE SettingsSync -----------------------------
(***************************************************************************)
(* The domain-wide timing settings and their four copies: in memory, in    *)
(* the storage file, in the running runtime and in the options of every    *)
(* config entry.  Number entities and options flows edit them at the same  *)
(* time, each edit waiting for its save before it is applied, while        *)
(* entries are set up and unloaded (settings.py, number.py, the timing     *)
(* step of config_flow.py, and what __init__.py reads of the settings).    *)
(* The store of Home Assistant is external: it serves saves in the order   *)
(* they were asked for, and one load serves everybody who waits for it.    *)
(***************************************************************************)
EXTENDS Naturals, Sequences, SequencesExt

CONSTANTS Entries,
          PollIntervals, StaleTimeouts,  \* values users enter
          Default,                       \* UAAlertsSettings()
          MaxSaves,                      \* bound: edits under way at a time
          None

ASSUME SettingsAssumption ==
  /\ PollIntervals \subseteq Nat
  /\ StaleTimeouts \subseteq Nat
  /\ MaxSaves \in Nat
  /\ Default \in [poll : PollIntervals, stale : StaleTimeouts]
  /\ Default.stale >= 2 * Default.poll
  /\ None \notin [poll : PollIntervals, stale : StaleTimeouts]

VARIABLES
  memory,    \* _SettingsState.settings; None while not loaded
  file,      \* what the storage has; None if nothing that can be read
  runtime,   \* poll_interval and stale_after of the domain's runtime
  options,   \* entry -> its options
  entryPc,   \* entry -> "idle", "preparing" or "loaded"
  saves,     \* edits that wait for their save, in order
  saveFailed \* did the last save fail?  No action reads it.

vars == <<memory, file, runtime, options, entryPc, saves, saveFailed>>

Settings == [poll : PollIntervals, stale : StaleTimeouts]
Keys == {"poll", "stale"}

(* timing.validate_settings.                                               *)
Accepted(s) == s.stale >= 2 * s.poll
ValidSettings == {s \in Settings : Accepted(s)}

(* An edit and the key that a number entity meant to change; None if it is *)
(* from an options flow.                                                   *)
Edits == [settings : ValidSettings, key : Keys \cup {None}]

TypeOK ==
  /\ memory \in ValidSettings \cup {None}
  /\ file \in ValidSettings \cup {None}
  /\ runtime \in ValidSettings \cup {None}
  /\ options \in [Entries -> ValidSettings]
  /\ entryPc \in [Entries -> {"idle", "preparing", "loaded"}]
  /\ saves \in BoundedSeq(Edits, MaxSaves)
  /\ saveFailed \in BOOLEAN

(* Home Assistant has started: files and options may be anything it wrote. *)
Init ==
  /\ memory = None
  /\ file \in ValidSettings \cup {None}
  /\ runtime = None
  /\ options \in [Entries -> ValidSettings]
  /\ entryPc = [e \in Entries |-> "idle"]
  /\ saves = <<>>
  /\ saveFailed = FALSE

ReadFile == IF file = None THEN Default ELSE file

(* async_get_settings: what it returns.                                    *)
GetSettings == IF memory = None THEN ReadFile ELSE memory

-----------------------------------------------------------------------------
(* async_setup_entry up to its first await: options follow the settings.   *)
BeginSetup(e) ==
  /\ entryPc[e] = "idle"
  /\ memory' = GetSettings
  /\ options' = [options EXCEPT ![e] = GetSettings]
  /\ entryPc' = [entryPc EXCEPT ![e] = "preparing"]
  /\ UNCHANGED <<file, runtime, saves, saveFailed>>

(* _async_prepare_coordinator reads the settings again.                    *)
PrepareCoordinator(e) ==
  /\ entryPc[e] = "preparing"
  /\ runtime' = IF runtime = None THEN GetSettings ELSE runtime
  /\ entryPc' = [entryPc EXCEPT ![e] = "loaded"]
  /\ UNCHANGED <<memory, file, options, saves, saveFailed>>

(* The last entry takes the runtime with it.                               *)
Unload(e) ==
  /\ entryPc[e] = "loaded"
  /\ entryPc' = [entryPc EXCEPT ![e] = "idle"]
  /\ runtime' = IF \E other \in Entries : entryPc'[other] = "loaded"
                THEN runtime ELSE None
  /\ UNCHANGED <<memory, file, options, saves, saveFailed>>

-----------------------------------------------------------------------------
(* Mistake: what a number entity puts together is not validated.           *)
SetSettingsUnchecked(s, key) ==
  /\ Len(saves) < MaxSaves
  /\ memory' = s
  /\ saves' = Append(saves, [settings |-> s, key |-> key])
  /\ UNCHANGED <<file, runtime, options, entryPc, saveFailed>>

(* async_set_settings: memory changes at once, the edit goes on when the   *)
(* store has answered.  Settings that are not accepted raise before that.  *)
SetSettings(s, key) ==
  /\ Accepted(s)
  /\ Len(saves) < MaxSaves
  /\ memory' = s
  /\ saves' = Append(saves, [settings |-> s, key |-> key])
  /\ UNCHANGED <<file, runtime, options, entryPc, saveFailed>>

(* A number entity takes the other value from its runtime.                 *)
SetNativeValue(key, value) ==
  /\ \E e \in Entries : entryPc[e] = "loaded"
  /\ SetSettings([runtime EXCEPT ![key] = value], key)

(* The timing step of an options flow sends both values.                   *)
StepTiming(s) == memory # None /\ SetSettings(s, None)

(* Mistake: entries that are not set up, or not yet, are passed over.      *)
ApplySettingsToLoaded(settings) ==
  /\ options' = [e \in Entries |-> IF entryPc[e] = "loaded" THEN settings
                                   ELSE options[e]]
  /\ runtime' = IF runtime = None THEN None ELSE settings

(* async_apply_settings after its save.  It skips the entry of the options *)
(* flow, which gets the same settings as the flow's result.                *)
ApplySettings(settings) ==
  /\ options' = [e \in Entries |-> settings]
  /\ runtime' = IF runtime = None THEN None ELSE settings

SaveSucceeds ==
  /\ saves # <<>>
  /\ file' = Head(saves).settings
  /\ ApplySettings(Head(saves).settings)
  /\ saves' = Tail(saves)
  /\ saveFailed' = FALSE
  /\ UNCHANGED <<memory, entryPc>>

(* The exception leaves async_apply_settings; memory keeps the new values. *)
SaveFails ==
  /\ saves # <<>>
  /\ saves' = Tail(saves)
  /\ saveFailed' = TRUE
  /\ UNCHANGED <<memory, file, runtime, options, entryPc>>

Next ==
  \/ \E e \in Entries : BeginSetup(e) \/ PrepareCoordinator(e) \/ Unload(e)
  \/ \E value \in PollIntervals : SetNativeValue("poll", value)
  \/ \E value \in StaleTimeouts : SetNativeValue("stale", value)
  \/ \E s \in Settings : StepTiming(s)
  \/ SaveSucceeds \/ SaveFails

Spec == Init /\ [][Next]_vars

-----------------------------------------------------------------------------
(* README: the settings are shared domain-wide.  Once every edit is over   *)
(* and the last save worked, the storage, the runtime and the options of   *)
(* all set-up entries have the settings that are in memory, whichever      *)
(* edits, set-ups and unloads overlapped.                                  *)
SettledSettingsAgree ==
  memory # None /\ saves = <<>> /\ ~saveFailed =>
    /\ ReadFile = memory
    /\ runtime \in {memory, None}
    /\ \A e \in Entries : entryPc[e] # "idle" => options[e] = memory

(* UAAlertsNumber: "Update one shared setting and propagate it to every    *)
(* territory."  The edit of one value leaves the other one alone.          *)
OneSettingUpdated ==
  [][ \A key \in Keys :
        /\ saves # <<>> /\ saves' = Tail(saves) /\ ~saveFailed'
        /\ Head(saves).key = key
        /\ runtime # None
        => \A other \in Keys \ {key} : runtime'[other] = runtime[other] ]_vars
=============================================================================
