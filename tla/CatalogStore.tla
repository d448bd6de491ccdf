----------------------------- MODULE CatalogStore ----------------------------
(***************************************************************************)
(* catalog.py: the catalog in memory, the refreshed one in the storage and *)
(* the one shipped with the integration.  A client is whoever awaits a     *)
(* load or a refresh.  Between two awaits nobody else runs; the parser     *)
(* works on the event loop, so everything else waits for it.               *)
(* Home Assistant's Store is external: one load serves all who wait for    *)
(* it, saves are served in order, each works or raises.  (It may also log  *)
(* a write error and return: the code takes that for a success, and so the *)
(* refreshed catalog would be used until a restart without being stored.)  *)
(***************************************************************************)
EXTENDS CatalogParser, Sequences

CONSTANT Bundled   \* load_bundled_locations

(* The definitions there may be: those of the shipped catalog and of rows  *)
(* that are downloaded.                                                    *)
UidsOf(rows) == {row.uid : row \in rows} \cup {d.uid : d \in Bundled}
DefinitionsOf(rows) ==
  [uid : UidsOf(rows), type : Types, oblast : UidsOf(rows) \cup {None},
   raion : UidsOf(rows) \cup {None}]

ASSUME StoreAssumption ==
  /\ IsFiniteSet(Bundled)
  /\ Bundled \subseteq DefinitionsOf({})
  /\ Hierarchical(Bundled) /\ CatalogIsFull(Bundled)
  /\ \A d \in Bundled : d.uid # None

VARIABLES
  memory,    \* hass.data's catalog; None before the first load
  stored,    \* the catalog in .storage; None if there never was a refresh
  waiting,   \* clients that await the load
  parsing,   \* the refresh whose sheet is being parsed; None if there is none
  saves      \* refreshed catalogs that wait for their save, and their clients

storeVars == <<memory, stored, waiting, parsing, saves>>

StoreInit ==
  /\ memory = None
  /\ stored = None
  /\ waiting = {}
  /\ parsing = None
  /\ saves = <<>>

(* Nothing else runs while a sheet is parsed.                              *)
LoopFree == parsing = None

-----------------------------------------------------------------------------
(* async_load_catalog.  With a catalog in memory it does not suspend.      *)

InMemory == memory # None

AwaitLoad(client) ==
  /\ ~InMemory
  /\ waiting' = waiting \cup {client}
  /\ UNCHANGED <<memory, stored, parsing, saves>>

(* What a load finds: a full catalog in the storage wins.                  *)
Loaded == IF stored # None /\ CatalogIsFull(stored) THEN stored ELSE Bundled

EndLoad ==
  /\ waiting # {}
  /\ waiting' = {}
  /\ memory' = Loaded
  /\ UNCHANGED <<stored, parsing, saves>>

-----------------------------------------------------------------------------
(* async_refresh_catalog, for one client.                                  *)

EndDownload(client) ==
  /\ parsing' = [client |-> client, parser |-> NewParser, rows |-> 0]
  /\ UNCHANGED <<memory, stored, waiting, saves>>

NextRow(row, maxRows) ==
  /\ parsing # None
  /\ parsing.rows < maxRows
  /\ parsing' = [parsing EXCEPT !.parser = ParseRow(@, row), !.rows = @ + 1]
  /\ UNCHANGED <<memory, stored, waiting, saves>>

(* A sheet that is not accepted is forgotten; an accepted one is saved     *)
(* before anybody uses it.                                                 *)
EndParse ==
  /\ parsing # None
  /\ parsing' = None
  /\ saves' = IF ValidFullCatalog(parsing.parser.items)
              THEN Append(saves, [client |-> parsing.client,
                                  items |-> parsing.parser.items])
              ELSE saves
  /\ UNCHANGED <<memory, stored, waiting>>

(* Mistake: the catalog is used even if it could not be saved.             *)
EndSaveRegardless(ok) ==
  /\ saves # <<>>
  /\ saves' = Tail(saves)
  /\ stored' = IF ok THEN Head(saves).items ELSE stored
  /\ memory' = Head(saves).items
  /\ UNCHANGED <<waiting, parsing>>

EndSave(ok) ==
  /\ saves # <<>>
  /\ saves' = Tail(saves)
  /\ stored' = IF ok THEN Head(saves).items ELSE stored
  /\ memory' = IF ok THEN Head(saves).items ELSE memory
  /\ UNCHANGED <<waiting, parsing>>

(* Home Assistant stops or dies; a write under way is done or not.         *)
LoseMemory ==
  /\ memory' = None
  /\ waiting' = {}
  /\ parsing' = None
  /\ saves' = <<>>
  /\ stored' \in {stored} \cup (IF saves = <<>> THEN {} ELSE {Head(saves).items})
=============================================================================
