---------------------------- MODULE CatalogProofs ----------------------------
(***************************************************************************)
(* Theorems about the catalog, for every sheet the source may publish, any *)
(* casts and any number of dialogues.                                      *)
(***************************************************************************)
EXTENDS CatalogUsers, FiniteSetTheorems, SequenceTheorems, TLAPS

-----------------------------------------------------------------------------
(* Python's None is nobody's uid.                                          *)
Named(items) == \A d \in items : d.uid # None

(* The parser.  The headings name areas that are in the catalog already.   *)
ParserInv(p) ==
  /\ p = [seen |-> p.seen, oblast |-> p.oblast, raion |-> p.raion,
          items |-> p.items]
  /\ IsFiniteSet(p.items)
  /\ Hierarchical(p.items)
  /\ Named(p.items)
  /\ \A d \in p.items : d.uid \in p.seen
  /\ p.oblast # None => \E o \in p.items : o.type = "oblast" /\ o.uid = p.oblast
  /\ p.raion # None => \E r \in p.items : /\ r.type = "raion"
                                          /\ r.uid = p.raion
                                          /\ r.oblast = p.oblast

LEMMA NewParserIsSound == ParserInv(NewParser)
  BY FS_EmptySet DEF ParserInv, NewParser, Hierarchical, Named

(* A new area, placed below areas that are there, keeps the hierarchy.     *)
LEMMA AddedItem ==
  ASSUME NEW items, Hierarchical(items), NEW new, new.type \in Types,
         \A d \in items : d.uid # new.uid,
         new.type \in {"oblast", "city"} => new.oblast = None /\ new.raion = None,
         new.type = "raion" =>
           /\ new.raion = None
           /\ \E o \in items : o.type = "oblast" /\ o.uid = new.oblast,
         new.type = "hromada" =>
           \E r \in items : /\ r.type = "raion"
                            /\ r.uid = new.raion
                            /\ r.oblast = new.oblast
  PROVE  Hierarchical(items \cup {new})
<1> DEFINE all == items \cup {new}
<1>1. \A c, d \in all : c.uid = d.uid => c = d
  BY DEF Hierarchical
<1>2. \A d \in all : d.type \in Types
  BY DEF Hierarchical
<1>3. \A d \in all : d.type \in {"oblast", "city"} => d.oblast = None /\ d.raion = None
  BY DEF Hierarchical
<1>4. \A d \in all : d.type = "raion" =>
        /\ d.raion = None
        /\ \E o \in all : o.type = "oblast" /\ o.uid = d.oblast
  BY DEF Hierarchical
<1>5. \A d \in all : d.type = "hromada" =>
        \E r \in all : /\ r.type = "raion"
                       /\ r.uid = d.raion
                       /\ r.oblast = d.oblast
  BY DEF Hierarchical
<1> QED
  BY <1>1, <1>2, <1>3, <1>4, <1>5 DEF Hierarchical

(* parse_catalog_csv: no row, whatever is wrong with it, breaks the        *)
(* hierarchy of what was read before.                                      *)
LEMMA ParseRowIsSound ==
  ASSUME NEW p, ParserInv(p), NEW row, row.type \in Types,
         row.uid # None
  PROVE  ParserInv(ParseRow(p, row))
<1>1. CASE Skipped(p, row)
  BY <1>1 DEF ParseRow
<1>2. CASE ~Skipped(p, row) /\ Orphan(p, row)
  <2>1. ParseRow(p, row) =
          [seen |-> p.seen \cup {row.uid}, oblast |-> p.oblast,
           raion |-> p.raion, items |-> p.items]
    BY <1>2 DEF ParseRow, ParserInv
  <2> QED
    BY <2>1 DEF ParserInv
<1>3. CASE ~Skipped(p, row) /\ ~Orphan(p, row)
  <2> DEFINE new == Located(p, row)
             q == ParseRow(p, row)
  <2>1. q = [seen |-> p.seen \cup {row.uid},
             oblast |-> Headings(p, row).oblast,
             raion |-> Headings(p, row).raion,
             items |-> p.items \cup {new}]
    BY <1>3 DEF ParseRow
  <2>2. new.uid = row.uid /\ new.type = row.type
    BY DEF Located, Definition
  <2>3. \A d \in p.items : d.uid # new.uid
    BY <1>3, <2>2 DEF Skipped, ParserInv
  <2>4. new.type \in {"oblast", "city"} => new.oblast = None /\ new.raion = None
    BY <2>2 DEF Located, Definition
  <2>5. new.type = "raion" =>
          /\ new.raion = None
          /\ new.oblast = p.oblast
          /\ \E o \in p.items : o.type = "oblast" /\ o.uid = new.oblast
    BY <1>3, <2>2 DEF Located, Definition, Orphan, ParserInv
  <2>6. new.type = "hromada" =>
          \E r \in p.items : /\ r.type = "raion"
                             /\ r.uid = new.raion
                             /\ r.oblast = new.oblast
    BY <1>3, <2>2 DEF Located, Definition, Orphan, ParserInv
  <2>7. Hierarchical(q.items)
    BY <2>1, <2>2, <2>3, <2>4, <2>5, <2>6, AddedItem DEF ParserInv
  <2>8. \A d \in q.items : d.uid \in q.seen
    BY <2>1, <2>2 DEF ParserInv
  <2>9. q.oblast # None => \E o \in q.items : o.type = "oblast" /\ o.uid = q.oblast
    BY <2>1, <2>2 DEF ParserInv, Headings
  <2>10. q.raion # None => \E r \in q.items : /\ r.type = "raion"
                                              /\ r.uid = q.raion
                                              /\ r.oblast = q.oblast
    BY <2>1, <2>2, <2>5 DEF ParserInv, Headings
  <2>11. Named(q.items)
    BY <2>1, <2>2 DEF ParserInv, Named
  <2>12. IsFiniteSet(q.items)
    BY <2>1, FS_AddElement DEF ParserInv
  <2> QED
    BY <2>1, <2>7, <2>8, <2>9, <2>10, <2>11, <2>12 DEF ParserInv
<1> QED
  BY <1>1, <1>2, <1>3

(* validate_full_catalog accepts nothing that catalog_is_full would refuse *)
(* after a restart.                                                        *)
LEMMA AcceptedIsFull ==
  ASSUME NEW items, Hierarchical(items), ValidFullCatalog(items)
  PROVE  CatalogIsFull(items)
<1>1. PICK a \in Anchors : a.raion # None
  BY ParserAssumption
<1>2. PICK d \in items : d.raion = a.raion
  BY <1>1 DEF ValidFullCatalog, AnchorsHold
<1>3. d.type = "hromada"
  BY <1>1, <1>2 DEF Hierarchical, Types
<1> QED
  BY <1>1, <1>2, <1>3 DEF CatalogIsFull, ValidFullCatalog

-----------------------------------------------------------------------------
(* The inductive invariant.  Whatever is or may become the catalog is      *)
(* sound, and the parser at work keeps its invariant.                      *)
Sound(items) == /\ IsFiniteSet(items)
                /\ Hierarchical(items)
                /\ CatalogIsFull(items)
                /\ Named(items)

FlowRecord == flow = [form |-> flow.form, catalog |-> flow.catalog,
                      region |-> flow.region, scope |-> flow.scope,
                      district |-> flow.district]

ParsingInv ==
  /\ parsing = [client |-> parsing.client, parser |-> parsing.parser,
                rows |-> parsing.rows]
  /\ ParserInv(parsing.parser)

(* A refresh that waits for its save.                                      *)
Refreshed(r) == r = [client |-> r.client, items |-> r.items] /\ Sound(r.items)

SavesInv ==
  /\ Len(saves) \in Nat
  /\ DOMAIN saves = 1..Len(saves)
  /\ saves = [i \in 1..Len(saves) |-> saves[i]]
  /\ \A i \in 1..Len(saves) : Refreshed(saves[i])

StoreInv ==
  /\ memory # None => Sound(memory)
  /\ stored # None => Sound(stored)
  /\ parsing # None => ParsingInv
  /\ SavesInv

FlowInv == FlowRecord /\ (flow = NoFlow \/ Sound(flow.catalog))

CatalogInv == /\ cast \in Casts
              /\ StoreInv
              /\ FlowInv
              /\ MemoryIsWhatARestartFinds

LEMMA LoadedIsSound ==
  ASSUME stored # None => Sound(stored)
  PROVE  Sound(Loaded)
BY StoreAssumption DEF Loaded, Sound, Named

LEMMA CatalogInit == Init => CatalogInv
<1> SUFFICES ASSUME Init PROVE CatalogInv
  OBVIOUS
<1>1. StoreInv
  BY DEF Init, StoreInit, StoreInv, SavesInv
<1>2. FlowInv
  BY DEF Init, FlowInv, FlowRecord, NoFlow
<1> QED
  BY <1>1, <1>2 DEF Init, StoreInit, CatalogInv, MemoryIsWhatARestartFinds

(* Whoever leaves the store and the config flow alone disturbs nothing.    *)
LEMMA NothingTouched ==
  ASSUME CatalogInv, UNCHANGED <<cast, flow, memory, stored, parsing, saves>>
  PROVE  CatalogInv'
BY DEF CatalogInv, StoreInv, SavesInv, ParsingInv, FlowInv, FlowRecord, NoFlow,
       MemoryIsWhatARestartFinds, Loaded

(* Nor does the config flow, which keeps its catalog until it ends.        *)
LEMMA FlowGoesOn ==
  ASSUME CatalogInv, UNCHANGED <<cast, memory, stored, parsing, saves>>,
         FlowInv'
  PROVE  CatalogInv'
BY DEF CatalogInv, StoreInv, SavesInv, ParsingInv, MemoryIsWhatARestartFinds,
       Loaded

-----------------------------------------------------------------------------
(* One lemma per group of actions.                                         *)

(* Nobody but a load, a sheet and a save changes the catalogs.             *)
StoreUntouched == UNCHANGED <<cast, memory, stored, parsing, saves>>

LEMMA EntrySteps ==
  ASSUME CatalogInv, NEW uid \in Configured, SetUpEntry(uid) \/ UnloadEntry(uid)
  PROVE  CatalogInv'
<1>1. StoreUntouched /\ UNCHANGED flow
  BY DEF SetUpEntry, UnloadEntry, AwaitLoad, storeVars, StoreUntouched
<1> QED
  BY <1>1, NothingTouched DEF StoreUntouched

LEMMA DialogueSteps ==
  ASSUME CatalogInv, NEW d,
         \/ OpenOptions(d) \/ RefreshCatalog(d) \/ CloseOptions(d)
         \/ DownloadFails(d) \/ SheetUnreadable(d)
  PROVE  CatalogInv'
<1>1. StoreUntouched /\ UNCHANGED flow
  BY DEF OpenOptions, RefreshCatalog, CloseOptions, DownloadFails,
         SheetUnreadable, AwaitLoad,
         storeVars, StoreUntouched
<1> QED
  BY <1>1, NothingTouched DEF StoreUntouched

LEMMA DownloadStep ==
  ASSUME CatalogInv, NEW d, DownloadSucceeds(d)
  PROVE  CatalogInv'
<1>1. /\ parsing' = [client |-> d, parser |-> NewParser, rows |-> 0]
      /\ UNCHANGED <<cast, flow, memory, stored, saves>>
  BY DEF DownloadSucceeds, EndDownload
<1>2. ParsingInv'
  BY <1>1, NewParserIsSound DEF ParsingInv, ParserInv
<1> QED
  BY <1>1, <1>2 DEF CatalogInv, StoreInv, SavesInv, FlowInv, FlowRecord, NoFlow,
                    MemoryIsWhatARestartFinds, Loaded

LEMMA RowStep ==
  ASSUME CatalogInv, NEW row \in cast.rows, ReadRow(row)
  PROVE  CatalogInv'
<1>1. row.type \in Types /\ row.uid # None
  BY CastAssumption DEF CatalogInv
<1>2. ParsingInv /\ parsing # None
  BY DEF CatalogInv, StoreInv, ReadRow, NextRow
<1>3. /\ parsing' = [client |-> parsing.client,
                     parser |-> ParseRow(parsing.parser, row),
                     rows |-> parsing.rows + 1]
      /\ UNCHANGED <<cast, flow, memory, stored, saves>>
  BY <1>2 DEF ReadRow, NextRow, ParsingInv, userVars
<1>4. ParserInv(ParseRow(parsing.parser, row))
  BY <1>1, <1>2, ParseRowIsSound DEF ParsingInv
<1>5. ParsingInv'
  BY <1>3, <1>4 DEF ParsingInv, ParserInv
<1> QED
  BY <1>3, <1>5 DEF CatalogInv, StoreInv, SavesInv, FlowInv, FlowRecord, NoFlow,
                    MemoryIsWhatARestartFinds, Loaded

(* The queue of saves, at its end and at its head.                         *)
LEMMA SaveQueued ==
  ASSUME SavesInv, NEW r, NEW queue, queue = Append(saves, r)
  PROVE  /\ Len(queue) = Len(saves) + 1
         /\ DOMAIN queue = 1..Len(queue)
         /\ \A i \in 1..Len(queue) :
              queue[i] = IF i = Len(saves) + 1 THEN r ELSE saves[i]
         /\ queue = [i \in 1..Len(queue) |-> queue[i]]
<1> DEFINE S == {saves[i] : i \in 1..Len(saves)} \cup {r}
<1>1. saves \in Seq(S) /\ r \in S
  BY DEF SavesInv
<1> HIDE DEF S
<1>2. /\ queue \in Seq(S)
      /\ Len(queue) = Len(saves) + 1
      /\ \A i \in 1..Len(saves) : queue[i] = saves[i]
      /\ queue[Len(saves) + 1] = r
  BY <1>1, AppendProperties, Zenon
<1>3. \A t \in Seq(S) : /\ DOMAIN t = 1..Len(t)
                         /\ t = [i \in 1..Len(t) |-> t[i]]
  OBVIOUS
<1>4. \A i \in 1..Len(queue) :
        queue[i] = IF i = Len(saves) + 1 THEN r ELSE saves[i]
  BY <1>2 DEF SavesInv
<1> QED
  BY <1>2, <1>3, <1>4, Zenon

LEMMA SaveServed ==
  ASSUME SavesInv, saves # <<>>, NEW queue, queue = Tail(saves)
  PROVE  /\ Len(saves) >= 1 /\ Head(saves) = saves[1]
         /\ Len(queue) = Len(saves) - 1
         /\ DOMAIN queue = 1..Len(queue)
         /\ queue = [i \in 1..Len(queue) |-> queue[i]]
         /\ \A i \in 1..Len(queue) : queue[i] = saves[i + 1]
<1> DEFINE S == {saves[i] : i \in 1..Len(saves)}
<1>1. saves \in Seq(S)
  BY DEF SavesInv
<1>2. /\ Tail(saves) \in Seq(S)
      /\ Len(Tail(saves)) = Len(saves) - 1
      /\ \A i \in 1..Len(Tail(saves)) : Tail(saves)[i] = saves[i + 1]
  BY <1>1, HeadTailProperties, Zenon
<1>3. \A t \in Seq(S) : /\ DOMAIN t = 1..Len(t)
                         /\ t = [i \in 1..Len(t) |-> t[i]]
  <2> HIDE DEF S
  <2> QED
    OBVIOUS
<1>4. Len(saves) >= 1 /\ Head(saves) = saves[1]
  BY DEF SavesInv
<1> QED
  BY <1>2, <1>3, <1>4, Zenon

LEMMA SheetStep ==
  ASSUME CatalogInv, SheetEnds
  PROVE  CatalogInv'
<1> DEFINE r == [client |-> parsing.client, items |-> parsing.parser.items]
<1>1. /\ parsing' = None
      /\ UNCHANGED <<cast, flow, memory, stored>>
      /\ ParsingInv
  BY DEF SheetEnds, EndParse, CatalogInv, StoreInv
<1>2. CASE ValidFullCatalog(parsing.parser.items)
  <2>1. Refreshed(r)
    BY <1>1, <1>2, AcceptedIsFull DEF Refreshed, Sound, ParsingInv, ParserInv
  <2>2. saves' = Append(saves, r)
    BY <1>2 DEF SheetEnds, EndParse
  <2>3. SavesInv
    BY DEF CatalogInv, StoreInv
  <2>4. /\ Len(saves') = Len(saves) + 1
        /\ DOMAIN saves' = 1..Len(saves')
        /\ \A i \in 1..Len(saves') :
             saves'[i] = IF i = Len(saves) + 1 THEN r ELSE saves[i]
        /\ saves' = [i \in 1..Len(saves') |-> saves'[i]]
    BY <2>2, <2>3, SaveQueued
  <2>5. SavesInv'
    BY <2>1, <2>3, <2>4 DEF SavesInv, Refreshed, Sound
  <2> QED
    BY <1>1, <2>5 DEF CatalogInv, StoreInv, FlowInv, FlowRecord, NoFlow,
                      MemoryIsWhatARestartFinds, Loaded
<1>3. CASE ~ValidFullCatalog(parsing.parser.items)
  <2>1. saves' = saves
    BY <1>3 DEF SheetEnds, EndParse
  <2> QED
    BY <1>1, <2>1 DEF CatalogInv, StoreInv, SavesInv, FlowInv, FlowRecord, NoFlow,
                      MemoryIsWhatARestartFinds, Loaded
<1> QED
  BY <1>2, <1>3

(* The heart of MemoryIsWhatARestartFinds: a save that worked brings the   *)
(* catalog into both places, and what was accepted is full.                *)
LEMMA SaveStep ==
  ASSUME CatalogInv, NEW ok \in BOOLEAN, SaveEnds(ok)
  PROVE  CatalogInv'
<1> DEFINE items == Head(saves).items
<1>1. /\ saves # <<>>
      /\ saves' = Tail(saves)
      /\ stored' = IF ok THEN items ELSE stored
      /\ memory' = IF ok THEN items ELSE memory
      /\ UNCHANGED <<cast, flow, parsing>>
  BY DEF SaveEnds, EndSave
<1>2. SavesInv
  BY DEF CatalogInv, StoreInv
<1>3. Len(saves) >= 1 /\ Head(saves) = saves[1]
  BY <1>1, <1>2, SaveServed
<1>4. Sound(items)
  BY <1>2, <1>3 DEF SavesInv, Refreshed
<1>5. /\ Len(saves') = Len(saves) - 1
      /\ DOMAIN saves' = 1..Len(saves')
      /\ saves' = [i \in 1..Len(saves') |-> saves'[i]]
      /\ \A i \in 1..Len(saves') : saves'[i] = saves[i + 1]
  BY <1>1, <1>2, SaveServed
<1>6. SavesInv'
  BY <1>2, <1>3, <1>5 DEF SavesInv, Refreshed, Sound
<1>7. StoreInv'
  BY <1>1, <1>4, <1>6 DEF CatalogInv, StoreInv, ParsingInv
<1>8. MemoryIsWhatARestartFinds'
  BY <1>1, <1>4 DEF CatalogInv, MemoryIsWhatARestartFinds, Loaded, Sound
<1> QED
  BY <1>1, <1>7, <1>8 DEF CatalogInv, FlowInv, FlowRecord, NoFlow

LEMMA FlowSteps ==
  ASSUME CatalogInv,
         \/ StartFlow \/ ChooseWay \/ ChooseResult \/ ChooseRegion
         \/ ChooseScope \/ ChooseRaion \/ ChooseHromada \/ CloseFlow
  PROVE  CatalogInv'
<1>1. StoreUntouched
  BY DEF StartFlow, ChooseWay, ChooseResult, ChooseRegion, ChooseScope,
         ChooseRaion, ChooseHromada, CloseFlow, AwaitLoad, storeVars,
         StoreUntouched
<1>2. CASE StartFlow
  <2>1. CASE InMemory
    <3>1. flow' = [form |-> "user", catalog |-> memory, region |-> None,
                   scope |-> None, district |-> None]
      BY <1>2, <2>1 DEF StartFlow, NoFlow
    <3> QED
      BY <1>1, <2>1, <3>1, FlowGoesOn
      DEF StoreUntouched, CatalogInv, StoreInv, FlowInv, FlowRecord, InMemory
  <2>2. CASE ~InMemory
    BY <1>1, <1>2, <2>2, NothingTouched DEF StartFlow, StoreUntouched
  <2> QED
    BY <2>1, <2>2
<1>3. CASE flow' = NoFlow
  BY <1>1, <1>3, FlowGoesOn DEF StoreUntouched, FlowInv, FlowRecord, NoFlow
<1>4. CASE ~StartFlow /\ flow' # NoFlow
  <2>1. flow # NoFlow
    <3>1. flow.form # "closed"
      BY <1>4 DEF ChooseWay, ChooseResult, ChooseRegion, ChooseScope,
                  ChooseRaion, ChooseHromada, CloseFlow
    <3> QED
      BY <3>1 DEF NoFlow
  <2>2. FlowRecord /\ Sound(flow.catalog)
    BY <2>1 DEF CatalogInv, FlowInv
  <2>3. FlowRecord' /\ flow'.catalog = flow.catalog
    BY <1>4, <2>2 DEF ChooseWay, ChooseResult, ChooseRegion, ChooseScope,
           ChooseRaion, ChooseHromada, CloseFlow, CreateLocation, FlowRecord
  <2> QED
    BY <1>1, <2>2, <2>3, FlowGoesOn DEF StoreUntouched, FlowInv, Sound
<1> QED
  BY <1>2, <1>3, <1>4

LEMMA LoadStep ==
  ASSUME CatalogInv, LoadEnds
  PROVE  CatalogInv'
<1>1. memory' = Loaded /\ UNCHANGED <<cast, stored, parsing, saves>>
  BY DEF LoadEnds, EndLoad
<1>2. Sound(Loaded)
  BY LoadedIsSound DEF CatalogInv, StoreInv
<1>3. StoreInv'
  BY <1>1, <1>2 DEF CatalogInv, StoreInv, SavesInv, ParsingInv
<1>4. FlowInv'
  <2>1. CASE Flow \in waiting
    BY <1>1, <1>2, <2>1 DEF LoadEnds, FlowInv, FlowRecord, NoFlow
  <2>2. CASE Flow \notin waiting
    BY <2>2 DEF LoadEnds, CatalogInv, FlowInv, FlowRecord, NoFlow
  <2> QED
    BY <2>1, <2>2
<1> QED
  BY <1>1, <1>3, <1>4 DEF CatalogInv, MemoryIsWhatARestartFinds, Loaded

LEMMA RestartStep ==
  ASSUME CatalogInv, Restart
  PROVE  CatalogInv'
<1>1. /\ memory' = None /\ parsing' = None /\ saves' = <<>>
      /\ stored' \in {stored} \cup (IF saves = <<>> THEN {} ELSE {Head(saves).items})
      /\ flow' = NoFlow /\ UNCHANGED cast
  BY DEF Restart, LoseMemory
<1>2. SavesInv
  BY DEF CatalogInv, StoreInv
<1>3. saves # <<>> => Sound(Head(saves).items)
  BY <1>2 DEF SavesInv, Refreshed
<1>4. stored' # None => Sound(stored')
  BY <1>1, <1>3 DEF CatalogInv, StoreInv
<1>5. SavesInv'
  BY <1>1 DEF SavesInv
<1> QED
  BY <1>1, <1>4, <1>5 DEF CatalogInv, StoreInv, FlowInv, FlowRecord, NoFlow,
                          MemoryIsWhatARestartFinds

LEMMA CatalogStep == CatalogInv /\ [Next]_vars => CatalogInv'
<1> SUFFICES ASSUME CatalogInv, [Next]_vars PROVE CatalogInv'
  OBVIOUS
<1>1. CASE \E uid \in Configured : SetUpEntry(uid) \/ UnloadEntry(uid)
  BY <1>1, EntrySteps
<1>2. CASE \E d \in cast.dialogues :
             \/ OpenOptions(d) \/ RefreshCatalog(d) \/ CloseOptions(d)
             \/ DownloadFails(d) \/ SheetUnreadable(d) \/ DownloadSucceeds(d)
  BY <1>2, DialogueSteps, DownloadStep
<1>3. CASE \E row \in cast.rows : ReadRow(row)
  BY <1>3, RowStep
<1>4. CASE SheetEnds
  BY <1>4, SheetStep
<1>5. CASE \E ok \in BOOLEAN : SaveEnds(ok)
  BY <1>5, SaveStep
<1>6. CASE \/ StartFlow \/ ChooseWay \/ ChooseResult \/ ChooseRegion
           \/ ChooseScope \/ ChooseRaion \/ ChooseHromada \/ CloseFlow
  BY <1>6, FlowSteps
<1>7. CASE LoadEnds
  BY <1>7, LoadStep
<1>8. CASE Restart
  BY <1>8, RestartStep
<1>9. CASE UNCHANGED vars
  BY <1>9, NothingTouched DEF vars, storeVars, userVars
<1> QED
  BY <1>1, <1>2, <1>3, <1>4, <1>5, <1>6, <1>7, <1>8, <1>9 DEF Next

LEMMA CatalogInvariant == Spec => []CatalogInv
BY CatalogInit, CatalogStep, PTL DEF Spec

-----------------------------------------------------------------------------
(* What entries and the config flow made of their catalogs.  An entry that *)
(* is set up knows what one sound catalog told it, maybe an old one.       *)
KnownFromOne(uid) ==
  \E items : /\ Hierarchical(items) /\ Named(items)
             /\ entries[uid] = Known(uid, entries[uid].type, items)

EntriesInv == \A uid \in Configured : SetUp(uid) => KnownFromOne(uid)

ChosenInv ==
  /\ flow.form \in {"scope", "raion", "hromada"} =>
       RaionsOf(flow.region, flow.catalog) # {}
  /\ flow.form = "hromada" => flow.district \in RaionsOf(flow.region, flow.catalog)

(* descendant_locations_for: what a hierarchy has inside a place fits it.  *)
LEMMA InsideFits ==
  ASSUME NEW items, Hierarchical(items), Named(items), NEW uid, NEW type,
         NEW d \in Known(uid, type, items).inside
  PROVE  LET own == Known(uid, type, items).own
             inside == Known(uid, type, items).inside
         IN  /\ uid \in {d.oblast, d.raion}
             /\ own.type = "raion" => d.oblast = own.oblast
             /\ d.type = "hromada" /\ own.type = "oblast" =>
                  \E r \in inside : r.uid = d.raion
             /\ own.type \in {"oblast", "city"} \/ own.oblast # None
<1> DEFINE own == OwnDefinition(uid, type, items)
           inside == Descendants(own, items)
<1>1. Known(uid, type, items).own = own /\ Known(uid, type, items).inside = inside
  BY DEF Known
<1>2. own.uid = uid /\ (own \in items \/ \A c \in items : c.uid # uid)
  BY DEF OwnDefinition
<1>3. d \in inside /\ d \in items
  BY <1>1 DEF Descendants
<1> HIDE DEF own
<1>4. CASE own.type = "raion" /\ d.type = "hromada" /\ d.raion = own.uid
  <2>1. PICK r \in items : r.type = "raion" /\ r.uid = d.raion /\ r.oblast = d.oblast
    BY <1>3, <1>4 DEF Hierarchical
  <2>2. own = r
    BY <1>2, <1>4, <2>1 DEF Hierarchical
  <2>3. own.oblast # None
    BY <2>1, <2>2 DEF Hierarchical, Named
  <2> QED
    BY <1>1, <1>2, <1>4, <2>1, <2>2, <2>3
<1>5. CASE /\ own.type = "oblast"
           /\ d.uid # own.uid
           /\ d.type \in {"raion", "hromada"}
           /\ d.oblast = own.uid
  <2>1. ASSUME d.type = "hromada"
        PROVE  \E r \in inside : r.uid = d.raion
    <3>1. PICK r \in items : r.type = "raion" /\ r.uid = d.raion /\ r.oblast = d.oblast
      BY <1>3, <2>1 DEF Hierarchical
    <3>2. r.uid # own.uid
      BY <1>2, <1>5, <3>1 DEF Hierarchical
    <3> QED
      BY <1>5, <3>1, <3>2 DEF Descendants
  <2> QED
    BY <1>1, <1>2, <1>5, <2>1
<1> QED
  BY <1>3, <1>4, <1>5 DEF Descendants

LEMMA WholesInit == Init => EntriesInv /\ ChosenInv
BY DEF Init, EntriesInv, ChosenInv, SetUp, NotSetUp, Configured, NoFlow

LEMMA LoadedWholes ==
  ASSUME CatalogInv, memory # None
  PROVE  Hierarchical(memory) /\ Named(memory)
BY DEF CatalogInv, StoreInv, Sound

LEMMA EntriesStep ==
  ASSUME CatalogInv, CatalogInv', EntriesInv, [Next]_vars
  PROVE  EntriesInv'
<1>1. ASSUME NEW uid \in Configured, SetUpEntry(uid)
      PROVE  EntriesInv'
  <2>1. CASE InMemory
    <3>1. entries' = [entries EXCEPT ![uid] = Known(uid, entries[uid].type, memory)]
      BY <1>1, <2>1 DEF SetUpEntry
    <3>2. entries'[uid] = Known(uid, entries'[uid].type, memory)
      BY <1>1, <3>1 DEF Known, Configured
    <3> QED
      BY <1>1, <2>1, <3>1, <3>2, LoadedWholes
      DEF EntriesInv, KnownFromOne, SetUp, Configured, InMemory
  <2>2. CASE ~InMemory
    BY <1>1, <2>2 DEF SetUpEntry, EntriesInv, KnownFromOne, SetUp, Configured
  <2> QED
    BY <2>1, <2>2
<1>2. ASSUME NEW uid \in Configured, UnloadEntry(uid)
      PROVE  EntriesInv'
  BY <1>2 DEF UnloadEntry, NotSetUp, EntriesInv, KnownFromOne, SetUp, Configured
<1>3. ASSUME NEW location, CreateLocation(location)
      PROVE  EntriesInv'
  BY <1>3 DEF CreateLocation, NotSetUp, EntriesInv, KnownFromOne, SetUp, Configured
<1>4. CASE LoadEnds
  <2>1. memory' # None => Hierarchical(memory') /\ Named(memory')
    BY DEF CatalogInv, StoreInv, Sound
  <2>2. Hierarchical(memory') /\ Named(memory')
    BY <1>4, LoadedIsSound DEF LoadEnds, EndLoad, CatalogInv, StoreInv, Sound
  <2>3. Configured' = Configured
    BY <1>4 DEF LoadEnds, Configured
  <2>4. ASSUME NEW uid \in Configured, SetUp(uid)'
        PROVE  KnownFromOne(uid)'
    <3>1. CASE uid \in waiting
      <4>1. entries'[uid] = Known(uid, entries'[uid].type, memory')
        BY <1>4, <2>4, <3>1 DEF LoadEnds, Known
      <4> QED
        BY <2>2, <4>1 DEF KnownFromOne
    <3>2. CASE uid \notin waiting
      <4>1. entries'[uid] = entries[uid]
        BY <1>4, <2>4, <3>2 DEF LoadEnds
      <4> QED
        BY <2>4, <4>1 DEF EntriesInv, KnownFromOne, SetUp
    <3> QED
      BY <3>1, <3>2
  <2> QED
    BY <2>3, <2>4 DEF EntriesInv
<1>5. CASE Restart
  BY <1>5 DEF Restart, NotSetUp, EntriesInv, KnownFromOne, SetUp, Configured
<1>6. CASE UNCHANGED entries
  BY <1>6 DEF EntriesInv, KnownFromOne, SetUp, Configured
<1>7. CASE \/ \E d \in cast.dialogues :
                \/ OpenOptions(d) \/ RefreshCatalog(d) \/ CloseOptions(d)
                \/ DownloadFails(d) \/ SheetUnreadable(d) \/ DownloadSucceeds(d)
           \/ \E row \in cast.rows : ReadRow(row)
           \/ SheetEnds
           \/ \E ok \in BOOLEAN : SaveEnds(ok)
           \/ StartFlow \/ ChooseWay \/ CloseFlow
  <2>1. UNCHANGED entries
    BY <1>7 DEF OpenOptions, RefreshCatalog, CloseOptions, DownloadFails,
                SheetUnreadable,
                DownloadSucceeds, ReadRow, SheetEnds, SaveEnds, StartFlow,
                ChooseWay, CloseFlow, userVars
  <2> QED
    BY <1>6, <2>1
<1>8. CASE ChooseResult \/ ChooseRegion \/ ChooseScope \/ ChooseRaion \/ ChooseHromada
  <2>1. UNCHANGED entries \/ \E location : CreateLocation(location)
    BY <1>8 DEF ChooseResult, ChooseRegion, ChooseScope, ChooseRaion, ChooseHromada
  <2> QED
    BY <1>3, <1>6, <2>1
<1>9. CASE UNCHANGED vars
  BY <1>6, <1>9 DEF vars, userVars
<1> QED
  BY <1>1, <1>2, <1>4, <1>5, <1>7, <1>8, <1>9 DEF Next

LEMMA ChosenStep ==
  ASSUME CatalogInv, ChosenInv, [Next]_vars
  PROVE  ChosenInv'
<1>1. FlowRecord
  BY DEF CatalogInv, FlowInv
<1>2. CASE flow' = flow
  BY <1>2 DEF ChosenInv
<1>3. CASE flow'.form \notin {"scope", "raion", "hromada"}
  BY <1>3 DEF ChosenInv
<1>4. CASE ChooseRegion /\ flow' # NoFlow
  <2>1. PICK region \in Choosable :
          /\ RaionsOf(region, flow.catalog) # {}
          /\ flow' = [flow EXCEPT !.form = "scope", !.region = region]
    BY <1>4 DEF ChooseRegion, CreateLocation
  <2>2. flow'.form = "scope" /\ flow'.region = region /\ flow'.catalog = flow.catalog
    BY <1>1, <2>1 DEF FlowRecord
  <2> QED
    BY <2>1, <2>2 DEF ChosenInv
<1>5. CASE ChooseScope /\ flow' # NoFlow
  <2>1. /\ flow.form = "scope" /\ flow'.form = "raion"
        /\ flow'.region = flow.region /\ flow'.catalog = flow.catalog
    BY <1>1, <1>5 DEF ChooseScope, CreateLocation, FlowRecord
  <2> QED
    BY <2>1 DEF ChosenInv
<1>6. CASE ChooseRaion /\ flow' # NoFlow
  <2>1. PICK district \in Choosable :
          flow' = [flow EXCEPT !.form = "hromada", !.district = district]
    BY <1>6 DEF ChooseRaion, CreateLocation
  <2>2. /\ flow'.form = "hromada" /\ flow'.district = district
        /\ flow'.region = flow.region /\ flow'.catalog = flow.catalog
    BY <1>1, <2>1 DEF FlowRecord
  <2>3. flow.form = "raion"
    BY <1>6 DEF ChooseRaion
  <2>4. district \in RaionsOf(flow.region, flow.catalog)
    BY <2>1, <2>3 DEF Choosable
  <2> QED
    BY <2>2, <2>3, <2>4 DEF ChosenInv, RaionsOf
<1>7. CASE \/ StartFlow \/ ChooseWay \/ ChooseResult \/ ChooseHromada \/ CloseFlow
           \/ LoadEnds \/ Restart
  <2>1. flow' = flow \/ flow'.form \in {"closed", "user", "search_results", "tree"}
    <3>1. CASE StartFlow
      <4>1. CASE InMemory
        BY <3>1, <4>1 DEF StartFlow, NoFlow
      <4>2. CASE ~InMemory
        BY <3>1, <4>2 DEF StartFlow
      <4> QED
        BY <4>1, <4>2
    <3>2. CASE ChooseWay
      <4>1. PICK form \in {"search_results", "tree"} :
              flow' = [flow EXCEPT !.form = form]
        BY <3>2 DEF ChooseWay
      <4>2. flow'.form = form
        BY <1>1, <4>1 DEF FlowRecord
      <4> QED
        BY <4>1, <4>2
    <3>3. CASE ChooseResult \/ ChooseHromada \/ CloseFlow \/ Restart
      <4>1. flow' = NoFlow
        BY <3>3 DEF ChooseResult, ChooseHromada, CloseFlow, Restart, CreateLocation
      <4> QED
        BY <4>1 DEF NoFlow
    <3>4. CASE LoadEnds
      <4>1. CASE Flow \in waiting
        BY <3>4, <4>1 DEF LoadEnds, NoFlow
      <4>2. CASE Flow \notin waiting
        BY <3>4, <4>2 DEF LoadEnds
      <4> QED
        BY <4>1, <4>2
    <3> QED
      BY <1>7, <3>1, <3>2, <3>3, <3>4
  <2> QED
    BY <1>2, <1>3, <2>1
<1>8. CASE flow' = NoFlow
  BY <1>3, <1>8 DEF NoFlow
<1>9. CASE \/ \E uid \in Configured : SetUpEntry(uid) \/ UnloadEntry(uid)
           \/ \E d \in cast.dialogues :
                \/ OpenOptions(d) \/ RefreshCatalog(d) \/ CloseOptions(d)
                \/ DownloadFails(d) \/ SheetUnreadable(d) \/ DownloadSucceeds(d)
           \/ \E row \in cast.rows : ReadRow(row)
           \/ SheetEnds
           \/ \E ok \in BOOLEAN : SaveEnds(ok)
           \/ UNCHANGED vars
  <2>1. flow' = flow
    BY <1>9 DEF SetUpEntry, UnloadEntry, OpenOptions, RefreshCatalog, CloseOptions,
                DownloadFails,
                SheetUnreadable, DownloadSucceeds, ReadRow, SheetEnds, SaveEnds,
                vars, userVars
  <2> QED
    BY <1>2, <2>1
<1> QED
  BY <1>4, <1>5, <1>6, <1>7, <1>8, <1>9 DEF Next

LEMMA WholesInvariant == Spec => [](EntriesInv /\ ChosenInv)
BY CatalogInvariant, WholesInit, EntriesStep, ChosenStep, PTL DEF Spec

-----------------------------------------------------------------------------
(* catalog.py, "Failures never replace a previously valid catalog": the    *)
(* catalog in use is the one a restart would find, whatever sheets,        *)
(* failures and overlapping refreshes came before.                         *)
THEOREM MemoryMatchesStorage == Spec => []MemoryIsWhatARestartFinds
<1>1. CatalogInv => MemoryIsWhatARestartFinds
  BY DEF CatalogInv
<1> QED
  BY <1>1, CatalogInvariant, PTL

(* parse_catalog_csv and the two tests of catalog_parser.py: every catalog *)
(* anyone can get to see is a hierarchy and full.                          *)
THEOREM EveryCatalogIsSound == Spec => []CatalogsAreSound
<1>1. CatalogInv => CatalogsAreSound
  BY DEF CatalogInv, StoreInv, ParsingInv, ParserInv, SavesInv, Refreshed,
         FlowInv, Sound, CatalogsAreSound
<1> QED
  BY <1>1, CatalogInvariant, PTL

(* What TerritoryEvaluation assumes of its catalog (CatalogAssumption)     *)
(* holds of whatever catalog is in use.                                    *)
THEOREM CatalogsCanBeEvaluated ==
  Spec => [](memory # None => IsFiniteSet(memory) /\ Hierarchical(memory))
<1>1. CatalogInv => (memory # None => IsFiniteSet(memory) /\ Hierarchical(memory))
  BY DEF CatalogInv, StoreInv, Sound
<1> QED
  BY <1>1, CatalogInvariant, PTL

(* config_flow.py and __init__.py: what was chosen and what entries know   *)
(* is inside what it belongs to, though catalogs are replaced at any time. *)
THEOREM PartsAlwaysFit == Spec => []PartsBelongToWholes
<1>1. CatalogInv /\ ChosenInv => ChoicesNest
  <2> SUFFICES ASSUME CatalogInv, ChosenInv, flow.form = "hromada",
                      NEW d \in Choosable
               PROVE  d.oblast = flow.region.uid /\ d.raion = flow.district.uid
    BY DEF ChoicesNest, ChosenInv
  <2>1. /\ d \in flow.catalog /\ d.type = "hromada" /\ d.raion = flow.district.uid
        /\ flow.district \in flow.catalog /\ flow.district.type = "raion"
        /\ flow.district.oblast = flow.region.uid
    BY DEF Choosable, HromadasOf, ChosenInv, RaionsOf
  <2>2. Hierarchical(flow.catalog)
    BY DEF CatalogInv, FlowInv, NoFlow, Sound, Hierarchical
  <2>3. PICK r \in flow.catalog : r.uid = d.raion /\ r.oblast = d.oblast
    BY <2>1, <2>2 DEF Hierarchical
  <2>4. r = flow.district
    BY <2>1, <2>2, <2>3 DEF Hierarchical
  <2> QED
    BY <2>1, <2>3, <2>4
<1>2. EntriesInv => EntriesKnowWholes
  <2> SUFFICES ASSUME EntriesInv, NEW uid \in Configured, SetUp(uid)
               PROVE  LET own == entries[uid].own
                          inside == entries[uid].inside
                      IN  /\ \A d \in inside :
                               /\ uid \in {d.oblast, d.raion}
                               /\ own.type = "raion" => d.oblast = own.oblast
                               /\ d.type = "hromada" /\ own.type = "oblast" =>
                                    \E r \in inside : r.uid = d.raion
                          /\ own.type \notin {"oblast", "city"} /\ own.oblast = None
                               => inside = {}
    BY DEF EntriesKnowWholes
  <2>1. PICK items : /\ Hierarchical(items) /\ Named(items)
                     /\ entries[uid] = Known(uid, entries[uid].type, items)
    BY DEF EntriesInv, KnownFromOne
  <2> QED
    BY <2>1, InsideFits
<1> QED
  BY <1>1, <1>2, CatalogInvariant, WholesInvariant, PTL DEF PartsBelongToWholes

-----------------------------------------------------------------------------
(* Types.  Definitions are made of uids that rows or the shipped catalog   *)
(* have.                                                                   *)
StoreTyped ==
  /\ memory # None => memory \subseteq Definitions
  /\ stored # None => stored \subseteq Definitions
  /\ parsing # None => /\ parsing.parser.items \subseteq Definitions
                       /\ parsing.rows \in 0..cast.maxRows
  /\ \A i \in 1..Len(saves) : saves[i].items \subseteq Definitions

(* Every dialogue awaits at most one call, and no call answers two: this   *)
(* bounds the saves that wait.                                             *)
ClientsInv ==
  /\ options \in [Dialogues ->
       [form : {"closed", "init", "refresh_catalog_failed"},
        awaits : Calls \cup {None}]]
  /\ waiting \subseteq cast.dialogues \cup {Flow} \cup Configured
  /\ \A d \in waiting \cap Dialogues : options[d].awaits = "load"
  /\ parsing # None => /\ parsing.client \in cast.dialogues
                       /\ options[parsing.client].awaits = "parse"
  /\ \A i \in 1..Len(saves) : /\ saves[i].client \in cast.dialogues
                              /\ options[saves[i].client].awaits = "save"
  /\ \A i, j \in 1..Len(saves) : saves[i].client = saves[j].client => i = j

(* Nor is an entry taken for a dialogue.                                   *)
EntriesApart == Configured \cap Dialogues = {}

FlowTyped ==
  /\ flow.form \in Forms
  /\ flow.catalog \subseteq Definitions
  /\ flow.form \in {"scope", "raion", "hromada"} => flow.region # None
  /\ flow.form \in {"raion", "hromada"} <=> flow.scope # None
  /\ flow.form = "hromada" <=> flow.district # None

LEMMA BundledTyped ==
  ASSUME cast \in Casts
  PROVE  Bundled \subseteq Definitions
<1>1. UidsOf({}) \subseteq UidsOf(cast.rows)
  BY DEF UidsOf
<1>2. DefinitionsOf({}) \subseteq DefinitionsOf(cast.rows)
  BY <1>1 DEF DefinitionsOf
<1> QED
  BY <1>2, StoreAssumption DEF Definitions

LEMMA LoadedTyped ==
  ASSUME CatalogInv, StoreTyped
  PROVE  Loaded \subseteq Definitions
BY BundledTyped DEF CatalogInv, StoreTyped, Loaded

(* What the parser makes of a row: its uid, and areas above it that are in *)
(* the catalog.                                                            *)
LEMMA ParsedTyped ==
  ASSUME CatalogInv, NEW p, ParserInv(p), p.items \subseteq Definitions,
         NEW row \in cast.rows
  PROVE  ParseRow(p, row).items \subseteq Definitions
<1> DEFINE uids == UidsOf(cast.rows)
<1>1. row.uid \in uids /\ row.type \in Types
  BY CastAssumption DEF UidsOf, CatalogInv
<1>2. \A d : d \in Definitions <=>
        d \in [uid : uids, type : Types, oblast : uids \cup {None},
               raion : uids \cup {None}]
  BY DEF Definitions, DefinitionsOf
<1> HIDE DEF uids
<1>3. p.oblast \in uids \cup {None} /\ p.raion \in uids \cup {None}
  BY <1>2 DEF ParserInv
<1>4. CASE Skipped(p, row)
  BY <1>4 DEF ParseRow
<1>5. CASE ~Skipped(p, row) /\ Orphan(p, row)
  <2>1. ParseRow(p, row).items = p.items
    BY <1>5 DEF ParseRow, ParserInv
  <2> QED
    BY <2>1
<1>6. CASE ~Skipped(p, row) /\ ~Orphan(p, row)
  <2>1. ParseRow(p, row).items = p.items \cup {Located(p, row)}
    BY <1>6 DEF ParseRow
  <2>2. Located(p, row) \in Definitions
    BY <1>1, <1>2, <1>3 DEF Located, Definition
  <2> QED
    BY <2>1, <2>2
<1> QED
  BY <1>4, <1>5, <1>6

LEMMA StoreTypedStep ==
  ASSUME CatalogInv, StoreTyped, [Next]_vars
  PROVE  StoreTyped'
<1>1. SavesInv /\ (parsing # None => ParsingInv)
  BY DEF CatalogInv, StoreInv
<1>2. cast' = cast /\ Definitions' = Definitions
  <2>1. cast' = cast
    BY DEF Next, SetUpEntry, UnloadEntry, OpenOptions, RefreshCatalog,
           CloseOptions, DownloadFails,
           SheetUnreadable, DownloadSucceeds, ReadRow, SheetEnds,
           SaveEnds, StartFlow, ChooseWay, ChooseResult, ChooseRegion,
           ChooseScope, ChooseRaion, ChooseHromada, CloseFlow, LoadEnds,
           Restart, vars
  <2> QED
    BY <2>1 DEF Definitions
<1>3. CASE UNCHANGED <<memory, stored, parsing, saves>>
  BY <1>2, <1>3 DEF StoreTyped
<1>4. ASSUME NEW d, DownloadSucceeds(d)
      PROVE  StoreTyped'
  <2>1. /\ parsing' = [client |-> d, parser |-> NewParser, rows |-> 0]
        /\ UNCHANGED <<memory, stored, saves>>
    BY <1>4 DEF DownloadSucceeds, EndDownload
  <2>2. 0 \in 0..cast.maxRows
    BY CastAssumption DEF CatalogInv
  <2> QED
    BY <1>2, <2>1, <2>2 DEF StoreTyped, NewParser
<1>5. ASSUME NEW row \in cast.rows, ReadRow(row)
      PROVE  StoreTyped'
  <2>1. /\ parsing # None /\ parsing.rows < cast.maxRows
        /\ parsing' = [client |-> parsing.client,
                       parser |-> ParseRow(parsing.parser, row),
                       rows |-> parsing.rows + 1]
        /\ UNCHANGED <<memory, stored, saves>>
    BY <1>1, <1>5 DEF ReadRow, NextRow, ParsingInv, userVars
  <2>2. ParseRow(parsing.parser, row).items \subseteq Definitions
    BY <1>1, <2>1, ParsedTyped DEF StoreTyped, ParsingInv
  <2>3. cast.maxRows \in Nat /\ parsing.rows \in 0..cast.maxRows
    BY <2>1, CastAssumption DEF CatalogInv, StoreTyped
  <2>4. parsing.rows + 1 \in 0..cast.maxRows
    BY <2>1, <2>3
  <2> QED
    BY <1>2, <2>1, <2>2, <2>4 DEF StoreTyped
<1>6. CASE SheetEnds
  <2>1. /\ parsing # None /\ parsing' = None
        /\ UNCHANGED <<memory, stored>>
    BY <1>6 DEF SheetEnds, EndParse
  <2>2. CASE ValidFullCatalog(parsing.parser.items)
    <3>1. saves' = Append(saves, [client |-> parsing.client,
                                  items |-> parsing.parser.items])
      BY <1>6, <2>2 DEF SheetEnds, EndParse
    <3>2. \A i \in 1..Len(saves') : saves'[i].items \subseteq Definitions
      BY <1>1, <2>1, <3>1, SaveQueued DEF StoreTyped
    <3> QED
      BY <1>2, <2>1, <3>2 DEF StoreTyped
  <2>3. CASE ~ValidFullCatalog(parsing.parser.items)
    <3>1. saves' = saves
      BY <1>6, <2>3 DEF SheetEnds, EndParse
    <3> QED
      BY <1>2, <2>1, <3>1 DEF StoreTyped
  <2> QED
    BY <2>2, <2>3
<1>7. ASSUME NEW ok \in BOOLEAN, SaveEnds(ok)
      PROVE  StoreTyped'
  <2> DEFINE items == Head(saves).items
  <2>1. /\ saves # <<>> /\ saves' = Tail(saves)
        /\ stored' = IF ok THEN items ELSE stored
        /\ memory' = IF ok THEN items ELSE memory
        /\ UNCHANGED parsing
    BY <1>7 DEF SaveEnds, EndSave
  <2>2. /\ Len(saves) >= 1 /\ Head(saves) = saves[1]
        /\ Len(saves') = Len(saves) - 1
        /\ \A i \in 1..Len(saves') : saves'[i] = saves[i + 1]
    BY <1>1, <2>1, SaveServed
  <2>3. Len(saves) \in Nat
    BY <1>1 DEF SavesInv
  <2>4. items \subseteq Definitions
    BY <2>2, <2>3 DEF StoreTyped
  <2>5. ASSUME NEW i \in 1..Len(saves')
        PROVE  saves'[i].items \subseteq Definitions
    <3>1. i + 1 \in 1..Len(saves)
      BY <2>2, <2>3
    <3>2. saves[i + 1].items \subseteq Definitions
      BY <3>1 DEF StoreTyped
    <3> QED
      BY <2>2, <3>2
  <2> HIDE DEF items
  <2> QED
    BY <1>2, <2>1, <2>4, <2>5 DEF StoreTyped
<1>8. CASE LoadEnds
  <2>1. memory' = Loaded /\ UNCHANGED <<stored, parsing, saves>>
    BY <1>8 DEF LoadEnds, EndLoad
  <2> QED
    BY <1>2, <2>1, LoadedTyped DEF StoreTyped
<1>9. CASE Restart
  <2>1. /\ memory' = None /\ parsing' = None /\ saves' = <<>>
        /\ stored' \in {stored} \cup (IF saves = <<>> THEN {}
                                      ELSE {Head(saves).items})
    BY <1>9 DEF Restart, LoseMemory
  <2>2. saves # <<>> => Head(saves).items \subseteq Definitions
    <3>1. saves # <<>> => Len(saves) >= 1 /\ Head(saves) = saves[1]
      BY <1>1, SaveServed
    <3> QED
      BY <1>1, <3>1 DEF StoreTyped, SavesInv
  <2> QED
    BY <1>2, <2>1, <2>2 DEF StoreTyped
<1>10. CASE \/ \E uid \in Configured : SetUpEntry(uid) \/ UnloadEntry(uid)
            \/ \E d \in cast.dialogues :
                 \/ OpenOptions(d) \/ RefreshCatalog(d) \/ CloseOptions(d)
                 \/ DownloadFails(d) \/ SheetUnreadable(d)
            \/ StartFlow \/ ChooseWay \/ ChooseResult \/ ChooseRegion
            \/ ChooseScope \/ ChooseRaion \/ ChooseHromada \/ CloseFlow
            \/ UNCHANGED vars
  <2>1. UNCHANGED <<memory, stored, parsing, saves>>
    BY <1>10 DEF SetUpEntry, UnloadEntry, OpenOptions, RefreshCatalog,
           CloseOptions, DownloadFails,
           SheetUnreadable, StartFlow, ChooseWay, ChooseResult,
           ChooseRegion, ChooseScope, ChooseRaion, ChooseHromada, CloseFlow,
           AwaitLoad, vars, storeVars
  <2> QED
    BY <1>3, <2>1
<1> QED
  BY <1>4, <1>5, <1>6, <1>7, <1>8, <1>9, <1>10 DEF Next

(* A territory that is added is one of the config flow's catalog.          *)
LEMMA CreatedIsDefined ==
  ASSUME CatalogInv, ChosenInv, FlowTyped, NEW location, flow # NoFlow,
         \/ location \in Choosable
         \/ location = flow.region /\ flow.form = "scope"
  PROVE  location.uid \in UidsOf(cast.rows)
<1>1. \A d \in flow.catalog : d.uid \in UidsOf(cast.rows)
  BY DEF FlowTyped, Definitions, DefinitionsOf
<1>2. CASE location \in Choosable
  <2>1. location \in flow.catalog
    BY <1>2 DEF Choosable, RaionsOf, HromadasOf
  <2> QED
    BY <1>1, <2>1
<1>3. CASE location = flow.region /\ flow.form = "scope"
  <2>1. PICK d \in flow.catalog : d.type = "raion" /\ d.oblast = flow.region.uid
    BY <1>3 DEF ChosenInv, RaionsOf
  <2>2. PICK o \in flow.catalog : o.uid = d.oblast
    BY <2>1 DEF CatalogInv, FlowInv, Sound, Hierarchical
  <2> QED
    BY <1>1, <1>3, <2>1, <2>2
<1> QED
  BY <1>2, <1>3

LEMMA ConfiguredGrows ==
  ASSUME CatalogInv, ChosenInv, FlowTyped, [Next]_vars
  PROVE  \/ Configured' = Configured
         \/ \E uid \in UidsOf(cast.rows) : Configured' = Configured \cup {uid}
<1>1. ASSUME NEW location, CreateLocation(location), flow # NoFlow,
             \/ location \in Choosable
             \/ location = flow.region /\ flow.form = "scope"
      PROVE  \E uid \in UidsOf(cast.rows) : Configured' = Configured \cup {uid}
  <2>1. Configured' = Configured \cup {location.uid}
    BY <1>1 DEF CreateLocation, Configured
  <2> QED
    BY <1>1, <2>1, CreatedIsDefined
<1>2. CASE ChooseResult \/ ChooseRegion \/ ChooseScope \/ ChooseRaion \/ ChooseHromada
  <2>1. flow # NoFlow
    <3>1. flow.form # "closed"
      BY <1>2 DEF ChooseResult, ChooseRegion, ChooseScope, ChooseRaion,
                  ChooseHromada
    <3> QED
      BY <3>1 DEF NoFlow
  <2>2. \/ UNCHANGED entries
        \/ \E location : /\ CreateLocation(location)
                         /\ \/ location \in Choosable
                            \/ location = flow.region /\ flow.form = "scope"
    BY <1>2 DEF ChooseResult, ChooseRegion, ChooseScope, ChooseRaion,
                ChooseHromada
  <2> QED
    BY <1>1, <2>1, <2>2 DEF Configured
<1>3. CASE \/ \E uid \in Configured : SetUpEntry(uid) \/ UnloadEntry(uid)
           \/ LoadEnds \/ Restart
  BY <1>3 DEF SetUpEntry, UnloadEntry, LoadEnds, Restart, Configured
<1>4. CASE \/ \E d \in cast.dialogues :
                \/ OpenOptions(d) \/ RefreshCatalog(d) \/ CloseOptions(d)
                \/ DownloadFails(d) \/ SheetUnreadable(d) \/ DownloadSucceeds(d)
           \/ \E row \in cast.rows : ReadRow(row)
           \/ SheetEnds
           \/ \E ok \in BOOLEAN : SaveEnds(ok)
           \/ StartFlow \/ ChooseWay \/ CloseFlow
           \/ UNCHANGED vars
  BY <1>4 DEF OpenOptions, RefreshCatalog, CloseOptions, DownloadFails,
              SheetUnreadable,
         DownloadSucceeds, ReadRow, SheetEnds, SaveEnds, StartFlow, ChooseWay,
         CloseFlow, vars, userVars, Configured
<1> QED
  BY <1>2, <1>3, <1>4 DEF Next

LEMMA EntriesApartStep ==
  ASSUME CatalogInv, ChosenInv, FlowTyped, EntriesApart, [Next]_vars
  PROVE  EntriesApart'
<1>1. UidsOf(cast.rows) \cap Dialogues = {}
  BY CastAssumption DEF CatalogInv
<1> QED
  BY <1>1, ConfiguredGrows DEF EntriesApart

(* A call that nobody else waits for begins or ends.                       *)
LEMMA DialogueMoves ==
  ASSUME CatalogInv, ClientsInv, NEW d \in Dialogues, NEW new,
         options' = [options EXCEPT ![d] = new],
         new \in [form : {"closed", "init", "refresh_catalog_failed"},
                  awaits : Calls \cup {None}],
         \/ new.awaits = options[d].awaits
         \/ options[d].awaits \notin {"load", "parse", "save"},
         Configured' = Configured,
         UNCHANGED <<cast, waiting, parsing, saves>>
  PROVE  ClientsInv'
<1>1. /\ cast.dialogues \subseteq Dialogues
      /\ Len(saves) \in Nat
  BY CastAssumption DEF CatalogInv, StoreInv, SavesInv
<1>2. \A c \in Dialogues : options[c].awaits \in {"load", "parse", "save"} =>
        options'[c].awaits = options[c].awaits
  BY DEF ClientsInv
<1>3. options' \in [Dialogues ->
        [form : {"closed", "init", "refresh_catalog_failed"},
         awaits : Calls \cup {None}]]
  BY DEF ClientsInv
<1> QED
  BY <1>1, <1>2, <1>3 DEF ClientsInv

LEMMA OptionUpdated ==
  ASSUME NEW d \in Dialogues, NEW value,
         options[d] = [form |-> options[d].form, awaits |-> options[d].awaits]
  PROVE  /\ [options EXCEPT ![d].awaits = value] =
              [options EXCEPT ![d] = [form |-> options[d].form, awaits |-> value]]
         /\ [options EXCEPT ![d].form = value] =
              [options EXCEPT ![d] = [form |-> value, awaits |-> options[d].awaits]]
<1>1. ASSUME NEW f, NEW a, NEW o, o = [form |-> f, awaits |-> a]
      PROVE  /\ [o EXCEPT !.awaits = value] = [form |-> f, awaits |-> value]
             /\ [o EXCEPT !.form = value] = [form |-> value, awaits |-> a]
  BY <1>1
<1>2. /\ [options[d] EXCEPT !.awaits = value] =
           [form |-> options[d].form, awaits |-> value]
      /\ [options[d] EXCEPT !.form = value] =
           [form |-> value, awaits |-> options[d].awaits]
  BY <1>1
<1>3. /\ [options EXCEPT ![d].awaits = value] =
           [options EXCEPT ![d] = [options[d] EXCEPT !.awaits = value]]
      /\ [options EXCEPT ![d].form = value] =
           [options EXCEPT ![d] = [options[d] EXCEPT !.form = value]]
  OBVIOUS
<1> QED
  BY <1>2, <1>3, Zenon

LEMMA ClientsStep ==
  ASSUME CatalogInv, ChosenInv, FlowTyped, EntriesApart, ClientsInv, [Next]_vars
  PROVE  ClientsInv'
<1> DEFINE OptionForms == {"closed", "init", "refresh_catalog_failed"}
           Option == [form : OptionForms, awaits : Calls \cup {None}]
<1>1. /\ SavesInv /\ (parsing # None => ParsingInv)
      /\ Len(saves) \in Nat
      /\ cast.dialogues \subseteq Dialogues /\ Flow \notin Dialogues
      /\ None \notin Calls
  BY CastAssumption DEF CatalogInv, StoreInv, SavesInv
<1>2. options \in [Dialogues -> Option]
  BY DEF ClientsInv
<1>3. \A d \in Dialogues :
        /\ options[d] \in Option
        /\ options[d] = [form |-> options[d].form, awaits |-> options[d].awaits]
  BY <1>2
<1>4. Configured \subseteq Configured'
  BY ConfiguredGrows
<1>5. CASE UNCHANGED <<cast, options, waiting, parsing, saves>>
  BY <1>4, <1>5 DEF ClientsInv
<1>6. ASSUME NEW c, c \notin Dialogues, c \in {Flow} \cup Configured,
             ~InMemory, AwaitLoad(c), UNCHANGED <<cast, options, entries>>
      PROVE  ClientsInv'
  <2>1. waiting' = waiting \cup {c} /\ UNCHANGED <<parsing, saves>>
    BY <1>6 DEF AwaitLoad
  <2> QED
    BY <1>4, <1>6, <2>1 DEF ClientsInv
<1>7. ASSUME NEW uid \in Configured, SetUpEntry(uid) \/ UnloadEntry(uid)
      PROVE  ClientsInv'
  <2>1. CASE UNCHANGED storeVars
    BY <1>5, <1>7, <2>1 DEF SetUpEntry, UnloadEntry, storeVars
  <2>2. CASE ~UNCHANGED storeVars
    <3>1. waiting' = waiting \cup {uid} /\ UNCHANGED <<cast, options, parsing, saves>>
      BY <1>7, <2>2 DEF SetUpEntry, UnloadEntry, AwaitLoad
    <3>2. uid \notin Dialogues
      BY <1>7 DEF EntriesApart
    <3> QED
      BY <1>4, <1>7, <3>1, <3>2 DEF ClientsInv
  <2> QED
    BY <2>1, <2>2
<1>8. ASSUME NEW d \in cast.dialogues, OpenOptions(d)
      PROVE  ClientsInv'
  <2>1. options[d].awaits = None /\ d \in Dialogues
    BY <1>1, <1>8 DEF OpenOptions, NoDialogue
  <2>2. CASE InMemory
    <3>1. options' = [options EXCEPT ![d] =
                        [form |-> "init", awaits |-> options[d].awaits]]
      BY <1>3, <1>8, <2>1, <2>2 DEF OpenOptions
    <3>2. UNCHANGED <<cast, waiting, parsing, saves>> /\ Configured' = Configured
      BY <1>8, <2>2 DEF OpenOptions, storeVars, Configured
    <3> QED
      BY <1>3, <2>1, <3>1, <3>2, DialogueMoves
  <2>3. CASE ~InMemory
    <3>1. options' = [options EXCEPT ![d] =
                        [form |-> options[d].form, awaits |-> "load"]]
      BY <1>3, <1>8, <2>1, <2>3 DEF OpenOptions
    <3>2. /\ UNCHANGED <<cast, parsing, saves>> /\ Configured' = Configured
          /\ waiting' = waiting \cup {d}
      BY <1>8, <2>3 DEF OpenOptions, AwaitLoad, Configured
    <3>3. options' \in [Dialogues -> Option]
      BY <1>2, <1>3, <2>1, <3>1 DEF Calls
    <3>4. \A c \in Dialogues :
            options'[c].awaits = IF c = d THEN "load" ELSE options[c].awaits
      BY <1>2, <3>1
    <3>5. options[d].awaits \notin {"parse", "save"}
      BY <1>1, <2>1 DEF Calls
    <3> QED
      BY <1>1, <3>2, <3>3, <3>4, <3>5 DEF ClientsInv
  <2> QED
    BY <2>2, <2>3
<1>9. ASSUME NEW d \in cast.dialogues,
             \/ RefreshCatalog(d) \/ CloseOptions(d)
             \/ DownloadFails(d) \/ SheetUnreadable(d)
      PROVE  ClientsInv'
  <2>1. UNCHANGED <<cast, waiting, parsing, saves>> /\ Configured' = Configured
    BY <1>9 DEF RefreshCatalog, CloseOptions, DownloadFails,
                SheetUnreadable, storeVars, Configured
  <2>2. CASE RefreshCatalog(d)
    <3>1. options' = [options EXCEPT ![d] =
                        [form |-> options[d].form, awaits |-> "download"]]
      <4>1. options' = [options EXCEPT ![d].awaits = "download"]
        BY <2>2, Zenon DEF RefreshCatalog
      <4> QED
        BY <1>1, <1>3, <4>1, OptionUpdated, Zenon
    <3>2. options[d].awaits \notin {"load", "parse", "save"}
      BY <1>1, <2>2 DEF RefreshCatalog, Calls
    <3>3. [form |-> options[d].form, awaits |-> "download"] \in Option
      BY <1>1, <1>3 DEF Calls
    <3> QED
      BY <1>1, <2>1, <3>1, <3>2, <3>3, DialogueMoves
  <2>3. CASE CloseOptions(d)
    <3>1. options' = [options EXCEPT ![d] =
                        [form |-> "closed", awaits |-> options[d].awaits]]
      BY <1>1, <1>3, <2>3, OptionUpdated DEF CloseOptions
    <3>2. [form |-> "closed", awaits |-> options[d].awaits] \in Option
      BY <1>1, <1>3
    <3> QED
      BY <1>1, <2>1, <3>1, <3>2, DialogueMoves
  <2>4. CASE DownloadFails(d)
    <3> DEFINE new == [form |-> IF options[d].form = "closed" THEN "closed"
                                ELSE "refresh_catalog_failed",
                       awaits |-> None]
    <3>1. options' = [options EXCEPT ![d] = new]
      BY <1>1, <1>3, <2>4 DEF DownloadFails, Answered
    <3>2. options[d].awaits \notin {"load", "parse", "save"}
      BY <2>4 DEF DownloadFails
    <3>3. new \in Option
      OBVIOUS
    <3> QED
      BY <1>1, <2>1, <3>1, <3>2, <3>3, DialogueMoves
  <2>5. CASE SheetUnreadable(d)
    <3> DEFINE new == [form |-> IF options[d].form = "closed" THEN "closed"
                                ELSE options[d].form,
                       awaits |-> None]
    <3>1. options' = [options EXCEPT ![d] = new]
      BY <1>1, <1>3, <2>5 DEF SheetUnreadable, Answered
    <3>2. options[d].awaits \notin {"load", "parse", "save"}
      BY <2>5 DEF SheetUnreadable
    <3>3. new \in Option
      BY <1>1, <1>3
    <3> QED
      BY <1>1, <2>1, <3>1, <3>2, <3>3, DialogueMoves
  <2> QED
    BY <1>9, <2>2, <2>3, <2>4, <2>5
<1>10. ASSUME NEW d \in cast.dialogues, DownloadSucceeds(d)
       PROVE  ClientsInv'
  <2>1. /\ parsing' = [client |-> d, parser |-> NewParser, rows |-> 0]
        /\ UNCHANGED <<cast, waiting, saves>> /\ Configured' = Configured
        /\ options[d].awaits = "download"
    BY <1>10 DEF DownloadSucceeds, EndDownload, Configured
  <2>2. options' = [options EXCEPT ![d] =
                      [form |-> options[d].form, awaits |-> "parse"]]
    BY <1>1, <1>3, <1>10, OptionUpdated DEF DownloadSucceeds
  <2>3. options' \in [Dialogues -> Option]
    BY <1>1, <1>2, <1>3, <2>2 DEF Calls
  <2>4. \A c \in Dialogues :
          options'[c].awaits = IF c = d THEN "parse" ELSE options[c].awaits
    BY <1>2, <2>2
  <2> QED
    BY <1>1, <2>1, <2>3, <2>4 DEF ClientsInv
<1>11. ASSUME NEW row \in cast.rows, ReadRow(row)
       PROVE  ClientsInv'
  <2>1. parsing # None /\ parsing'.client = parsing.client
    BY <1>1, <1>11 DEF ReadRow, NextRow, ParsingInv
  <2>2. UNCHANGED <<cast, options, waiting, saves>> /\ Configured' = Configured
    BY <1>11 DEF ReadRow, NextRow, userVars, Configured
  <2> QED
    BY <2>1, <2>2 DEF ClientsInv
<1>12. CASE SheetEnds
  <2> DEFINE d == parsing.client
  <2>1. /\ parsing # None /\ parsing' = None
        /\ UNCHANGED <<cast, waiting>> /\ Configured' = Configured
    BY <1>12 DEF SheetEnds, EndParse, Configured
  <2>2. d \in cast.dialogues /\ d \in Dialogues /\ options[d].awaits = "parse"
    BY <1>1, <2>1 DEF ClientsInv
  <2>3. CASE ValidFullCatalog(parsing.parser.items)
    <3> DEFINE r == [client |-> d, items |-> parsing.parser.items]
    <3>1. saves' = Append(saves, r)
      BY <1>12, <2>3 DEF SheetEnds, EndParse
    <3>2. /\ Len(saves') = Len(saves) + 1
          /\ \A i \in 1..Len(saves') :
               saves'[i] = IF i = Len(saves) + 1 THEN r ELSE saves[i]
      BY <1>1, <3>1, SaveQueued
    <3>3. saves' # saves
      BY <1>1, <3>2
    <3>4. options' = [options EXCEPT ![d] =
                        [form |-> options[d].form, awaits |-> "save"]]
      BY <1>1, <1>3, <1>12, <2>2, <3>3 DEF SheetEnds
    <3>5. options' \in [Dialogues -> Option]
      BY <1>1, <1>2, <1>3, <2>2, <3>4 DEF Calls
    <3>6. \A c \in Dialogues :
            options'[c].awaits = IF c = d THEN "save" ELSE options[c].awaits
      BY <1>2, <3>4
    <3>7. r.client = d
      OBVIOUS
    <3> HIDE DEF r, d
    <3>8. \A i \in 1..Len(saves) : saves[i].client # d
      BY <2>2 DEF ClientsInv
    <3>9. \A i \in 1..Len(saves') :
            \/ saves'[i].client = d /\ i = Len(saves) + 1
            \/ i \in 1..Len(saves) /\ saves'[i] = saves[i]
      BY <1>1, <3>2, <3>7
    <3>10. \A i \in 1..Len(saves') : /\ saves'[i].client \in cast.dialogues
                                     /\ options'[saves'[i].client].awaits = "save"
      BY <1>1, <2>2, <3>6, <3>9 DEF ClientsInv
    <3>11. \A i, j \in 1..Len(saves') :
             saves'[i].client = saves'[j].client => i = j
      BY <3>8, <3>9 DEF ClientsInv
    <3>12. \A c \in waiting \cap Dialogues : options'[c].awaits = "load"
      BY <2>2, <3>6 DEF ClientsInv
    <3> QED
      BY <2>1, <3>5, <3>10, <3>11, <3>12 DEF ClientsInv
  <2>4. CASE ~ValidFullCatalog(parsing.parser.items)
    <3> DEFINE new == [form |-> IF options[d].form = "closed" THEN "closed"
                                ELSE "refresh_catalog_failed",
                       awaits |-> None]
    <3>1. saves' = saves
      BY <1>12, <2>4 DEF SheetEnds, EndParse
    <3>2. options' = [options EXCEPT ![d] = new]
      BY <1>12, <2>2, <3>1 DEF SheetEnds, Answered
    <3>3. new \in Option
      OBVIOUS
    <3>4. options' \in [Dialogues -> Option]
      <4> HIDE DEF new
      <4> QED
        BY <1>2, <2>2, <3>2, <3>3
    <3>5. \A c \in Dialogues : c # d => options'[c] = options[c]
      BY <1>2, <3>2
    <3> HIDE DEF new
    <3> QED
      BY <1>1, <2>1, <2>2, <3>1, <3>4, <3>5 DEF ClientsInv
  <2> QED
    BY <2>3, <2>4
<1>13. ASSUME NEW ok \in BOOLEAN, SaveEnds(ok)
       PROVE  ClientsInv'
  <2> DEFINE d == Head(saves).client
             form == IF ok THEN "closed" ELSE options[d].form
             new == [form |-> IF options[d].form = "closed" THEN "closed" ELSE form,
                     awaits |-> None]
  <2>1. /\ saves # <<>> /\ saves' = Tail(saves)
        /\ UNCHANGED <<cast, waiting, parsing>> /\ Configured' = Configured
    BY <1>13 DEF SaveEnds, EndSave, Configured
  <2>2. /\ Len(saves) >= 1 /\ Head(saves) = saves[1]
        /\ Len(saves') = Len(saves) - 1
        /\ \A i \in 1..Len(saves') : saves'[i] = saves[i + 1]
    BY <1>1, <2>1, SaveServed
  <2>3. options' = [options EXCEPT ![d] = new]
    BY <1>13 DEF SaveEnds, Answered
  <2>4. d = saves[1].client /\ 1 \in 1..Len(saves)
    BY <1>1, <2>2
  <2>5. d \in Dialogues /\ options[d].awaits = "save"
    BY <1>1, <2>4 DEF ClientsInv
  <2>6. new \in Option
    BY <1>3, <2>5
  <2> HIDE DEF new, d
  <2>7. options' \in [Dialogues -> Option]
    BY <1>2, <2>3, <2>5, <2>6
  <2>8. \A c \in Dialogues : c # d => options'[c] = options[c]
    BY <1>2, <2>3
  <2>9. ASSUME NEW i \in 1..Len(saves')
        PROVE  /\ i + 1 \in 1..Len(saves) /\ saves'[i] = saves[i + 1]
               /\ saves[i + 1].client # d
    <3>1. i + 1 \in 1..Len(saves) /\ i + 1 # 1
      BY <1>1, <2>2
    <3> QED
      BY <2>2, <2>4, <3>1 DEF ClientsInv
  <2>10. \A i \in 1..Len(saves') : /\ saves'[i].client \in cast.dialogues
                                   /\ options'[saves'[i].client].awaits = "save"
    BY <1>1, <2>8, <2>9 DEF ClientsInv
  <2>11. ASSUME NEW i \in 1..Len(saves'), NEW j \in 1..Len(saves'),
                saves'[i].client = saves'[j].client
         PROVE  i = j
    <3>1. i + 1 = j + 1
      BY <2>9, <2>11 DEF ClientsInv
    <3> QED
      BY <1>1, <2>2, <3>1
  <2>12. parsing # None => parsing.client # d
    BY <2>5 DEF ClientsInv
  <2>13. \A c \in waiting \cap Dialogues : c # d
    BY <2>5 DEF ClientsInv
  <2> QED
    BY <1>1, <2>1, <2>7, <2>8, <2>10, <2>11, <2>12, <2>13 DEF ClientsInv
<1>14. CASE StartFlow
  <2>1. CASE InMemory
    BY <1>5, <1>14, <2>1 DEF StartFlow, storeVars
  <2>2. CASE ~InMemory
    BY <1>1, <1>6, <1>14, <2>2 DEF StartFlow
  <2> QED
    BY <2>1, <2>2
<1>15. CASE \/ ChooseWay \/ ChooseResult \/ ChooseRegion \/ ChooseScope
            \/ ChooseRaion \/ ChooseHromada \/ CloseFlow
  BY <1>5, <1>15 DEF ChooseWay, ChooseResult, ChooseRegion, ChooseScope,
     ChooseRaion, ChooseHromada, CloseFlow, storeVars
<1>16. CASE LoadEnds
  <2>1. /\ waiting' = {} /\ UNCHANGED <<cast, parsing, saves>>
        /\ options' = [d \in Dialogues |->
                         IF d \in waiting
                         THEN [form |-> "init", awaits |-> None]
                         ELSE options[d]]
    BY <1>16 DEF LoadEnds, EndLoad
  <2>2. options' \in [Dialogues -> Option]
    BY <1>2, <2>1
  <2>3. \A c \in Dialogues : options[c].awaits \in {"parse", "save"} =>
          options'[c] = options[c]
    BY <2>1 DEF ClientsInv
  <2> QED
    BY <1>1, <2>1, <2>2, <2>3 DEF ClientsInv
<1>17. CASE Restart
  <2>1. /\ waiting' = {} /\ parsing' = None /\ saves' = <<>>
        /\ options' = [d \in Dialogues |-> NoDialogue]
    BY <1>17 DEF Restart, LoseMemory
  <2>2. options' \in [Dialogues -> Option]
    BY <2>1 DEF NoDialogue
  <2> QED
    BY <2>1, <2>2 DEF ClientsInv
<1>18. CASE UNCHANGED vars
  BY <1>5, <1>18 DEF vars, storeVars, userVars
<1> QED
  BY <1>7, <1>8, <1>9, <1>10, <1>11, <1>12, <1>13, <1>14, <1>15, <1>16, <1>17,
     <1>18 DEF Next

(* The config flow at its beginning and its end.                           *)
LEMMA FlowBegins ==
  ASSUME NEW form \in {"closed", "user"}, NEW items, items \subseteq Definitions,
         flow' = [form |-> form, catalog |-> items, region |-> None,
                  scope |-> None, district |-> None],
         Definitions' = Definitions
  PROVE  FlowTyped'
BY DEF FlowTyped, Forms

LEMMA FlowTypedStep ==
  ASSUME CatalogInv, StoreTyped, FlowTyped, [Next]_vars
  PROVE  FlowTyped'
<1>1. FlowRecord
  BY DEF CatalogInv, FlowInv
<1>2. cast' = cast /\ Definitions' = Definitions
  <2>1. cast' = cast
    BY DEF Next, SetUpEntry, UnloadEntry, OpenOptions, RefreshCatalog,
           CloseOptions, DownloadFails,
           SheetUnreadable, DownloadSucceeds, ReadRow, SheetEnds,
           SaveEnds, StartFlow, ChooseWay, ChooseResult, ChooseRegion,
           ChooseScope, ChooseRaion, ChooseHromada, CloseFlow, LoadEnds,
           Restart, vars
  <2> QED
    BY <2>1 DEF Definitions
<1>3. /\ \A d \in flow.catalog : d # None
      /\ None \notin {"raion", "hromada"}
  BY CastAssumption DEF CatalogInv, FlowTyped, Definitions, Types
<1>4. CASE flow' = flow
  BY <1>2, <1>4 DEF FlowTyped
<1>5. CASE flow' = NoFlow
  BY <1>2, <1>5, FlowBegins DEF NoFlow
<1>6. CASE StartFlow
  <2>1. CASE InMemory
    <3>1. flow' = [form |-> "user", catalog |-> memory, region |-> None,
                   scope |-> None, district |-> None]
      BY <1>6, <2>1 DEF StartFlow, NoFlow
    <3> QED
      BY <1>2, <2>1, <3>1, FlowBegins DEF StoreTyped, InMemory
  <2>2. CASE ~InMemory
    BY <1>4, <1>6, <2>2 DEF StartFlow
  <2> QED
    BY <2>1, <2>2
<1>7. CASE LoadEnds
  <2>1. CASE Flow \in waiting
    <3>1. flow' = [form |-> "user", catalog |-> Loaded, region |-> None,
                   scope |-> None, district |-> None]
      BY <1>7, <2>1 DEF LoadEnds, EndLoad, NoFlow
    <3> QED
      BY <1>2, <3>1, FlowBegins, LoadedTyped
  <2>2. CASE Flow \notin waiting
    BY <1>4, <1>7, <2>2 DEF LoadEnds
  <2> QED
    BY <2>1, <2>2
<1>8. CASE ChooseWay
  <2>1. PICK form \in {"search_results", "tree"} : flow' = [flow EXCEPT !.form = form]
    BY <1>8 DEF ChooseWay
  <2>2. /\ flow.form = "user" /\ flow'.form = form
        /\ flow'.catalog = flow.catalog /\ flow'.region = flow.region
        /\ flow'.scope = flow.scope /\ flow'.district = flow.district
    BY <1>1, <1>8, <2>1 DEF ChooseWay, FlowRecord
  <2> QED
    BY <1>2, <2>2 DEF FlowTyped, Forms
<1>9. CASE ChooseRegion /\ flow' # NoFlow
  <2>1. PICK region \in Choosable :
          flow' = [flow EXCEPT !.form = "scope", !.region = region]
    BY <1>9 DEF ChooseRegion, CreateLocation
  <2>2. /\ flow.form = "tree" /\ flow'.form = "scope" /\ flow'.region = region
        /\ flow'.catalog = flow.catalog
        /\ flow'.scope = flow.scope /\ flow'.district = flow.district
    BY <1>1, <1>9, <2>1 DEF ChooseRegion, FlowRecord
  <2>3. region \in flow.catalog
    BY <2>2 DEF Choosable
  <2> QED
    BY <1>2, <1>3, <2>2, <2>3 DEF FlowTyped, Forms
<1>10. CASE ChooseScope /\ flow' # NoFlow
  <2>1. PICK scope \in {"raion", "hromada"} :
          flow' = [flow EXCEPT !.form = "raion", !.scope = scope]
    BY <1>10 DEF ChooseScope, CreateLocation
  <2>2. /\ flow.form = "scope" /\ flow'.form = "raion" /\ flow'.scope = scope
        /\ flow'.catalog = flow.catalog
        /\ flow'.region = flow.region /\ flow'.district = flow.district
    BY <1>1, <1>10, <2>1 DEF ChooseScope, FlowRecord
  <2> QED
    BY <1>2, <1>3, <2>2 DEF FlowTyped, Forms
<1>11. CASE ChooseRaion /\ flow' # NoFlow
  <2>1. PICK district \in Choosable :
          flow' = [flow EXCEPT !.form = "hromada", !.district = district]
    BY <1>11 DEF ChooseRaion, CreateLocation
  <2>2. /\ flow.form = "raion" /\ flow'.form = "hromada"
        /\ flow'.district = district /\ flow'.catalog = flow.catalog
        /\ flow'.region = flow.region /\ flow'.scope = flow.scope
    BY <1>1, <1>11, <2>1 DEF ChooseRaion, FlowRecord
  <2>3. district \in flow.catalog
    BY <2>2 DEF Choosable, RaionsOf
  <2> QED
    BY <1>2, <1>3, <2>2, <2>3 DEF FlowTyped, Forms
<1>12. CASE ChooseResult \/ ChooseHromada \/ CloseFlow \/ Restart
  <2>1. flow' = NoFlow
    BY <1>12 DEF ChooseResult, ChooseHromada, CloseFlow, Restart, CreateLocation
  <2> QED
    BY <1>5, <2>1
<1>13. CASE \/ \E uid \in Configured : SetUpEntry(uid) \/ UnloadEntry(uid)
            \/ \E d \in cast.dialogues :
                 \/ OpenOptions(d) \/ RefreshCatalog(d) \/ CloseOptions(d)
                 \/ DownloadFails(d) \/ SheetUnreadable(d) \/ DownloadSucceeds(d)
            \/ \E row \in cast.rows : ReadRow(row)
            \/ SheetEnds
            \/ \E ok \in BOOLEAN : SaveEnds(ok)
            \/ UNCHANGED vars
  <2>1. flow' = flow
    BY <1>13 DEF SetUpEntry, UnloadEntry, OpenOptions, RefreshCatalog,
                 CloseOptions, DownloadFails,
                 SheetUnreadable, DownloadSucceeds, ReadRow,
                 SheetEnds, SaveEnds, vars, userVars
  <2> QED
    BY <1>4, <2>1
<1> QED
  BY <1>5, <1>6, <1>7, <1>8, <1>9, <1>10, <1>11, <1>12, <1>13 DEF Next

TypesInv == StoreTyped /\ ClientsInv /\ EntriesApart /\ FlowTyped

LEMMA TypesInit == Init => TypesInv
<1> SUFFICES ASSUME Init PROVE TypesInv
  OBVIOUS
<1>1. /\ cast \in Casts /\ memory = None /\ stored = None /\ waiting = {}
      /\ parsing = None /\ saves = <<>> /\ flow = NoFlow
      /\ options = [d \in Dialogues |-> NoDialogue]
      /\ Configured = {e.uid : e \in cast.entries}
  BY DEF Init, StoreInit, Configured
<1>2. StoreTyped
  BY <1>1 DEF StoreTyped
<1>3. ClientsInv
  BY <1>1 DEF ClientsInv, NoDialogue
<1>4. EntriesApart
  BY <1>1, CastAssumption DEF EntriesApart
<1>5. FlowTyped
  BY <1>1 DEF FlowTyped, NoFlow, Forms
<1> QED
  BY <1>2, <1>3, <1>4, <1>5 DEF TypesInv

LEMMA TypesInvariant == Spec => []TypesInv
<1>1. CatalogInv /\ ChosenInv /\ TypesInv /\ [Next]_vars => TypesInv'
  BY StoreTypedStep, ClientsStep, EntriesApartStep, FlowTypedStep DEF TypesInv
<1> QED
  BY <1>1, CatalogInvariant, WholesInvariant, TypesInit, PTL DEF Spec

(* Every form has what its step needs, and no more refreshes wait for      *)
(* their save than there are dialogues: a dialogue that is closed and      *)
(* opened again cannot start another before the first has ended.           *)
THEOREM TypeCorrect == Spec => []TypeOK
<1>1. CatalogInv /\ EntriesInv /\ TypesInv => TypeOK
  <2> SUFFICES ASSUME CatalogInv, EntriesInv, TypesInv
               PROVE  TypeOK
    OBVIOUS
  <2>1. Len(saves) <= Cardinality(cast.dialogues)
    <3> DEFINE n == Len(saves)
               f == [i \in 1..n |-> saves[i].client]
    <3>1. n \in Nat
      BY DEF CatalogInv, StoreInv, SavesInv
    <3>2. f \in [1..n -> cast.dialogues]
      BY DEF TypesInv, ClientsInv
    <3>3. \A i, j \in 1..n : f[i] = f[j] => i = j
      BY DEF TypesInv, ClientsInv
    <3>4. /\ IsFiniteSet(cast.dialogues) /\ Cardinality(cast.dialogues) \in Nat
          /\ IsFiniteSet(1..n) /\ Cardinality(1..n) = n
      <4>1. IsFiniteSet(cast.dialogues)
        BY CastAssumption DEF CatalogInv
      <4>2. IsFiniteSet(1..n) /\ Cardinality(1..n) = n
        <5> HIDE DEF n
        <5> QED
          BY <3>1, FS_Interval
      <4> QED
        BY <4>1, <4>2, FS_CardinalityType
    <3> HIDE DEF n, f
    <3>5. ~(Cardinality(cast.dialogues) < Cardinality(1..n))
      <4> SUFFICES ASSUME Cardinality(cast.dialogues) < Cardinality(1..n)
                   PROVE  FALSE
        OBVIOUS
      <4>1. \E i, j \in 1..n : i # j /\ f[i] = f[j]
        BY <3>2, <3>4, FS_PigeonHole
      <4> QED
        BY <3>3, <4>1
    <3> QED
      BY <3>1, <3>4, <3>5 DEF n
  <2>2. \A uid \in Configured : SetUp(uid) => entries[uid].own.uid = uid
    <3> SUFFICES ASSUME NEW uid \in Configured, SetUp(uid)
                 PROVE  entries[uid].own.uid = uid
      OBVIOUS
    <3>1. PICK items : entries[uid] = Known(uid, entries[uid].type, items)
      BY DEF EntriesInv, KnownFromOne
    <3>2. entries[uid].own = OwnDefinition(uid, entries[uid].type, items)
      <4>1. Known(uid, entries[uid].type, items).own
              = OwnDefinition(uid, entries[uid].type, items)
        BY DEF Known
      <4> QED
        BY <3>1, <4>1, Zenon
    <3>3. OwnDefinition(uid, entries[uid].type, items).uid = uid
      BY DEF OwnDefinition
    <3> QED
      BY <3>2, <3>3
  <2> QED
    BY <2>1, <2>2 DEF TypesInv, StoreTyped, ClientsInv, FlowTyped, TypeOK
<1> QED
  BY <1>1, CatalogInvariant, WholesInvariant, TypesInvariant, PTL
=============================================================================
