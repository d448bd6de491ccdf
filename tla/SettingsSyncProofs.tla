-------------------------- MODULE SettingsSyncProofs --------------------------
(***************************************************************************)
(* Theorems about the four copies of the timing settings, for any number   *)
(* of entries, any values users may enter and any number of edits that     *)
(* wait for their save.                                                    *)
(***************************************************************************)
EXTENDS SettingsSync, SequenceTheorems, TLAPS

-----------------------------------------------------------------------------
(* The inductive invariant.                                                *)

(* Nothing was loaded, edited or set up before the first setup.            *)
UntouchedUntilLoaded ==
  memory = None =>
    /\ saves = <<>>
    /\ ~saveFailed
    /\ runtime = None
    /\ \A e \in Entries : entryPc[e] = "idle"

(* An entry that is loaded has a runtime to take the other value from.     *)
LoadedHasRuntime == \A e \in Entries : entryPc[e] = "loaded" => runtime # None

(* The save that ends last is the one of the settings in memory.           *)
LastSaveIsMemory == saves # <<>> => saves[Len(saves)].settings = memory

SettingsInv ==
  /\ TypeOK
  /\ UntouchedUntilLoaded
  /\ LoadedHasRuntime
  /\ LastSaveIsMemory
  /\ SettledSettingsAgree

-----------------------------------------------------------------------------
(* What BoundedSeq is, in the terms of the sequence theorems.              *)
LEMMA BoundedSeqDef ==
  ASSUME NEW S, NEW n \in Nat
  PROVE  \A s : s \in BoundedSeq(S, n) <=> s \in Seq(S) /\ Len(s) <= n
<1>1. ASSUME NEW s \in BoundedSeq(S, n)
      PROVE  s \in Seq(S) /\ Len(s) <= n
  <2>1. PICK m \in 0..n : s \in [1..m -> S]
    BY DEF BoundedSeq, SeqOf
  <2> QED
    BY <2>1, SeqDef
<1>2. ASSUME NEW s \in Seq(S), Len(s) <= n
      PROVE  s \in BoundedSeq(S, n)
  <2>1. Len(s) \in 0..n /\ s \in [1..Len(s) -> S]
    BY <1>2, LenProperties
  <2> QED
    BY <2>1 DEF BoundedSeq, SeqOf
<1> QED
  BY <1>1, <1>2

(* What is in memory once somebody asked for it is never None.             *)
LEMMA GetSettingsIsValid ==
  ASSUME TypeOK
  PROVE  GetSettings \in ValidSettings /\ GetSettings # None
  BY SettingsAssumption
  DEF TypeOK, GetSettings, ReadFile, ValidSettings, Settings, Accepted

LEMMA NoneIsInvalid == None \notin ValidSettings
  BY SettingsAssumption DEF ValidSettings, Settings

(* The queue of edits, one edit longer or without its oldest one.          *)
LEMMA QueuedEdit ==
  ASSUME saves \in BoundedSeq(Edits, MaxSaves), Len(saves) < MaxSaves,
         NEW edit \in Edits
  PROVE  /\ Append(saves, edit) \in BoundedSeq(Edits, MaxSaves)
         /\ Append(saves, edit) # <<>>
         /\ Append(saves, edit)[Len(Append(saves, edit))] = edit
<1>1. saves \in Seq(Edits) /\ Len(saves) \in Nat /\ MaxSaves \in Nat
  BY BoundedSeqDef, SettingsAssumption, LenProperties
<1>2. /\ Append(saves, edit) \in Seq(Edits)
      /\ Len(Append(saves, edit)) = Len(saves) + 1
      /\ Append(saves, edit)[Len(saves) + 1] = edit
  BY <1>1
<1>3. Append(saves, edit) # <<>>
  BY <1>1, <1>2, EmptySeq
<1>4. Len(Append(saves, edit)) <= MaxSaves
  BY <1>1, <1>2
<1>5. Append(saves, edit) \in BoundedSeq(Edits, MaxSaves)
  BY <1>1, <1>2, <1>4, BoundedSeqDef, Zenon
<1>6. Append(saves, edit)[Len(Append(saves, edit))] = edit
  BY <1>2
<1> QED
  BY <1>3, <1>5, <1>6

LEMMA ServedEdit ==
  ASSUME saves \in BoundedSeq(Edits, MaxSaves), saves # <<>>
  PROVE  /\ Head(saves) \in Edits
         /\ Tail(saves) \in BoundedSeq(Edits, MaxSaves)
         /\ Tail(saves) = <<>> => Head(saves) = saves[Len(saves)]
         /\ Tail(saves) # <<>> =>
              Tail(saves)[Len(Tail(saves))] = saves[Len(saves)]
<1>1. saves \in Seq(Edits) /\ Len(saves) \in Nat /\ MaxSaves \in Nat
  BY BoundedSeqDef, SettingsAssumption, LenProperties
<1>2. Len(saves) # 0 /\ Len(saves) <= MaxSaves
  BY <1>1, BoundedSeqDef, EmptySeq
<1>3. /\ Head(saves) \in Edits
      /\ Tail(saves) \in Seq(Edits)
      /\ Len(Tail(saves)) = Len(saves) - 1
      /\ \A i \in 1..Len(Tail(saves)) : Tail(saves)[i] = saves[i + 1]
  BY <1>1, HeadTailProperties
<1>4. Tail(saves) \in BoundedSeq(Edits, MaxSaves)
  <2>1. Len(Tail(saves)) <= MaxSaves
    BY <1>1, <1>2, <1>3
  <2> QED
    BY <1>1, <1>3, <2>1, BoundedSeqDef, Zenon
<1>5. ASSUME Tail(saves) = <<>> PROVE Head(saves) = saves[Len(saves)]
  <2>1. Len(saves) = 1
    BY <1>1, <1>2, <1>3, <1>5
  <2> QED
    BY <1>1, <2>1
<1>6. ASSUME Tail(saves) # <<>>
      PROVE  Tail(saves)[Len(Tail(saves))] = saves[Len(saves)]
  <2>1. Len(Tail(saves)) \in 1..Len(Tail(saves))
    BY <1>1, <1>2, <1>3, <1>6, EmptySeq
  <2> QED
    BY <1>1, <1>3, <2>1
<1> QED
  BY <1>3, <1>4, <1>5, <1>6

-----------------------------------------------------------------------------
LEMMA InitIsSettled == Init => SettingsInv
<1> SUFFICES ASSUME Init PROVE SettingsInv
  OBVIOUS
<1>1. saves \in BoundedSeq(Edits, MaxSaves)
  <2>1. <<>> \in Seq(Edits) /\ Len(<<>>) <= MaxSaves /\ MaxSaves \in Nat
    BY EmptySeq, SettingsAssumption
  <2> QED
    BY <2>1, BoundedSeqDef, Zenon DEF Init
<1> QED
  BY <1>1
  DEF Init, SettingsInv, TypeOK, UntouchedUntilLoaded, LoadedHasRuntime,
      LastSaveIsMemory, SettledSettingsAgree

LEMMA BeginSetupKeeps ==
  ASSUME SettingsInv, NEW e \in Entries, BeginSetup(e)
  PROVE  SettingsInv'
<1>1. GetSettings \in ValidSettings /\ GetSettings # None
  BY GetSettingsIsValid DEF SettingsInv
<1>2. TypeOK'
  BY <1>1 DEF SettingsInv, TypeOK, BeginSetup
<1>3. UntouchedUntilLoaded'
  BY <1>1 DEF BeginSetup, UntouchedUntilLoaded
<1>4. LoadedHasRuntime'
  BY DEF SettingsInv, TypeOK, BeginSetup, LoadedHasRuntime
<1>5. LastSaveIsMemory'
  BY DEF SettingsInv, BeginSetup, LastSaveIsMemory, UntouchedUntilLoaded,
         GetSettings
<1>6. SettledSettingsAgree'
  BY DEF SettingsInv, TypeOK, BeginSetup, SettledSettingsAgree,
         UntouchedUntilLoaded, GetSettings, ReadFile
<1> QED
  BY <1>2, <1>3, <1>4, <1>5, <1>6 DEF SettingsInv

LEMMA PrepareKeeps ==
  ASSUME SettingsInv, NEW e \in Entries, PrepareCoordinator(e)
  PROVE  SettingsInv'
<1>1. GetSettings \in ValidSettings /\ GetSettings # None
  BY GetSettingsIsValid DEF SettingsInv
<1>2. memory # None /\ GetSettings = memory
  BY DEF SettingsInv, PrepareCoordinator, UntouchedUntilLoaded, GetSettings
<1>3. TypeOK'
  BY <1>1 DEF SettingsInv, TypeOK, PrepareCoordinator
<1>4. UntouchedUntilLoaded'
  BY <1>2 DEF PrepareCoordinator, UntouchedUntilLoaded
<1>5. LoadedHasRuntime'
  BY <1>1 DEF SettingsInv, TypeOK, PrepareCoordinator, LoadedHasRuntime
<1>6. LastSaveIsMemory'
  BY DEF SettingsInv, PrepareCoordinator, LastSaveIsMemory
<1>7. SettledSettingsAgree'
  BY <1>2 DEF SettingsInv, TypeOK, PrepareCoordinator, SettledSettingsAgree,
              ReadFile
<1> QED
  BY <1>3, <1>4, <1>5, <1>6, <1>7 DEF SettingsInv

LEMMA UnloadKeeps ==
  ASSUME SettingsInv, NEW e \in Entries, Unload(e)
  PROVE  SettingsInv'
<1>1. TypeOK'
  BY DEF SettingsInv, TypeOK, Unload
<1>2. UntouchedUntilLoaded'
  BY DEF SettingsInv, TypeOK, Unload, UntouchedUntilLoaded
<1>3. LoadedHasRuntime'
  BY DEF SettingsInv, TypeOK, Unload, LoadedHasRuntime
<1>4. LastSaveIsMemory'
  BY DEF SettingsInv, Unload, LastSaveIsMemory
<1>5. SettledSettingsAgree'
  BY DEF SettingsInv, TypeOK, Unload, SettledSettingsAgree, ReadFile
<1> QED
  BY <1>1, <1>2, <1>3, <1>4, <1>5 DEF SettingsInv

(* Accepted settings replace those in memory and wait for their save.      *)
LEMMA EditKeeps ==
  ASSUME SettingsInv, memory # None,
         NEW s \in Settings, NEW key \in Keys \cup {None}, SetSettings(s, key)
  PROVE  SettingsInv'
<1> DEFINE edit == [settings |-> s, key |-> key]
<1>1. s \in ValidSettings /\ edit \in Edits /\ s # None
  BY NoneIsInvalid DEF SetSettings, ValidSettings, Edits
<1>2. /\ saves' \in BoundedSeq(Edits, MaxSaves)
      /\ saves' # <<>>
      /\ saves'[Len(saves')] = edit
  BY <1>1, QueuedEdit DEF SetSettings, SettingsInv, TypeOK
<1>3. TypeOK'
  BY <1>1, <1>2 DEF SettingsInv, TypeOK, SetSettings
<1>4. UntouchedUntilLoaded'
  BY <1>1 DEF SetSettings, UntouchedUntilLoaded
<1>5. LoadedHasRuntime'
  BY DEF SettingsInv, SetSettings, LoadedHasRuntime
<1>6. LastSaveIsMemory'
  BY <1>2 DEF SetSettings, LastSaveIsMemory
<1>7. SettledSettingsAgree'
  BY <1>2 DEF SettledSettingsAgree
<1> QED
  BY <1>3, <1>4, <1>5, <1>6, <1>7 DEF SettingsInv

(* The other value of a number entity is that of the runtime.              *)
LEMMA NumberKeeps ==
  ASSUME SettingsInv, NEW key \in Keys, NEW value,
         key = "poll" => value \in PollIntervals,
         key = "stale" => value \in StaleTimeouts,
         SetNativeValue(key, value)
  PROVE  SettingsInv'
<1> DEFINE s == [runtime EXCEPT ![key] = value]
<1>1. runtime \in Settings /\ memory # None
  BY DEF SettingsInv, TypeOK, SetNativeValue, LoadedHasRuntime,
         UntouchedUntilLoaded, ValidSettings
<1>2. s \in Settings
  BY <1>1 DEF Settings, Keys
<1>3. SetSettings(s, key)
  BY DEF SetNativeValue
<1> QED
  BY <1>1, <1>2, <1>3, EditKeeps

LEMMA SaveSucceedsKeeps ==
  ASSUME SettingsInv, SaveSucceeds
  PROVE  SettingsInv'
<1> DEFINE s == Head(saves).settings
<1>1. /\ Head(saves) \in Edits
      /\ Tail(saves) \in BoundedSeq(Edits, MaxSaves)
      /\ Tail(saves) = <<>> => Head(saves) = saves[Len(saves)]
      /\ Tail(saves) # <<>> =>
           Tail(saves)[Len(Tail(saves))] = saves[Len(saves)]
  BY ServedEdit DEF SettingsInv, TypeOK, SaveSucceeds
<1>2. s \in ValidSettings /\ s # None
  BY <1>1, NoneIsInvalid DEF Edits
<1>3. memory # None /\ saves[Len(saves)].settings = memory
  BY DEF SettingsInv, SaveSucceeds, UntouchedUntilLoaded, LastSaveIsMemory
<1> HIDE DEF s
<1>4. /\ file' = s
      /\ options' = [e \in Entries |-> s]
      /\ runtime' = IF runtime = None THEN None ELSE s
      /\ saves' = Tail(saves)
      /\ UNCHANGED <<memory, entryPc>>
  BY DEF SaveSucceeds, ApplySettings, s
<1>5. TypeOK'
  BY <1>1, <1>2, <1>4 DEF SettingsInv, TypeOK, SaveSucceeds
<1>6. UntouchedUntilLoaded'
  BY <1>3, <1>4 DEF UntouchedUntilLoaded
<1>7. LoadedHasRuntime'
  BY <1>2, <1>4 DEF SettingsInv, LoadedHasRuntime
<1>8. LastSaveIsMemory'
  BY <1>1, <1>3, <1>4 DEF LastSaveIsMemory
<1>9. SettledSettingsAgree'
  <2>1. saves' = <<>> => s = memory
    BY <1>1, <1>3, <1>4 DEF s
  <2> QED
    BY <1>2, <1>4, <2>1 DEF SettledSettingsAgree, ReadFile
<1> QED
  BY <1>5, <1>6, <1>7, <1>8, <1>9 DEF SettingsInv

LEMMA SaveFailsKeeps ==
  ASSUME SettingsInv, SaveFails
  PROVE  SettingsInv'
<1>1. /\ Tail(saves) \in BoundedSeq(Edits, MaxSaves)
      /\ Tail(saves) # <<>> =>
           Tail(saves)[Len(Tail(saves))] = saves[Len(saves)]
  BY ServedEdit DEF SettingsInv, TypeOK, SaveFails
<1>2. memory # None
  BY DEF SettingsInv, SaveFails, UntouchedUntilLoaded
<1>3. TypeOK'
  BY <1>1 DEF SettingsInv, TypeOK, SaveFails
<1>4. UntouchedUntilLoaded'
  BY <1>2 DEF SaveFails, UntouchedUntilLoaded
<1>5. LoadedHasRuntime'
  BY DEF SettingsInv, SaveFails, LoadedHasRuntime
<1>6. LastSaveIsMemory'
  BY <1>1 DEF SettingsInv, SaveFails, LastSaveIsMemory
<1>7. SettledSettingsAgree'
  BY DEF SaveFails, SettledSettingsAgree
<1> QED
  BY <1>3, <1>4, <1>5, <1>6, <1>7 DEF SettingsInv

LEMMA SettingsStep == SettingsInv /\ [Next]_vars => SettingsInv'
<1> SUFFICES ASSUME SettingsInv, [Next]_vars PROVE SettingsInv'
  OBVIOUS
<1>1. CASE \E e \in Entries : BeginSetup(e) \/ PrepareCoordinator(e) \/ Unload(e)
  BY <1>1, BeginSetupKeeps, PrepareKeeps, UnloadKeeps
<1>2. CASE \E value \in PollIntervals : SetNativeValue("poll", value)
  BY <1>2, NumberKeeps DEF Keys
<1>3. CASE \E value \in StaleTimeouts : SetNativeValue("stale", value)
  BY <1>3, NumberKeeps DEF Keys
<1>4. CASE \E s \in Settings : StepTiming(s)
  BY <1>4, EditKeeps DEF StepTiming
<1>5. CASE SaveSucceeds \/ SaveFails
  BY <1>5, SaveSucceedsKeeps, SaveFailsKeeps
<1>6. CASE UNCHANGED vars
  BY <1>6
  DEF vars, SettingsInv, TypeOK, UntouchedUntilLoaded, LoadedHasRuntime,
      LastSaveIsMemory, SettledSettingsAgree, ReadFile
<1> QED
  BY <1>1, <1>2, <1>3, <1>4, <1>5, <1>6 DEF Next

LEMMA SettingsAlways == Spec => []SettingsInv
  BY InitIsSettled, SettingsStep, PTL DEF Spec

(* settings.py, number.py: every copy only ever holds settings that        *)
(* validate_settings accepts, whatever number entities combine.            *)
THEOREM TypeCorrect == Spec => []TypeOK
  BY SettingsAlways, PTL DEF SettingsInv

(* async_apply_settings: whichever edits, saves, failures, setups and      *)
(* unloads overlapped, all copies agree once the last edit was saved.      *)
THEOREM SettingsAgree == Spec => []SettledSettingsAgree
  BY SettingsAlways, PTL DEF SettingsInv
=============================================================================
