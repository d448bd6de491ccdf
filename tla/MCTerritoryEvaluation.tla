------------------------ MODULE MCTerritoryEvaluation ------------------------
(* Small instances of TerritoryEvaluation for TLC: an oblast of two raions *)
(* with two and one hromadas, and a city of its own.                       *)
EXTENDS TerritoryEvaluation

Raion(uid, oblast) ==
  [uid |-> uid, type |-> "raion", raion |-> None, oblast |-> oblast]
Hromada(uid, raion, oblast) ==
  [uid |-> uid, type |-> "hromada", raion |-> raion, oblast |-> oblast]
TopLevel(uid, type) ==
  [uid |-> uid, type |-> type, raion |-> None, oblast |-> None]

SmallCatalog ==
  {TopLevel("o", "oblast"), TopLevel("c", "city"),
   Raion("r1", "o"), Raion("r2", "o"), Hromada("h1", "r1", "o"),
   Hromada("h2", "r1", "o"), Hromada("h3", "r2", "o")}

Record(uid, airRaid, level, start, threats) ==
  [uid |-> uid, airRaid |-> airRaid, level |-> level, start |-> start,
   threats |-> threats]

Aware(time) == [aware |-> TRUE, time |-> time]
NotAware == [aware |-> FALSE, time |-> 0]   \* no date, or no time zone

Threat(usable, start) ==
  [usable |-> usable, type |-> "drones", level |-> "red", start |-> start]

(* Every level anywhere, a row of another kind, and a place nobody knows.  *)
LevelRecords ==
  {Record(uid, TRUE, level, NotAware, {}) :
     uid \in {d.uid : d \in SmallCatalog},
     level \in {"yellow", "red", "black"}}
  \cup {Record("r1", FALSE, "black", NotAware, {}),
        Record("elsewhere", TRUE, "black", NotAware, {})}

(* Starts and threats, usable or not, in one branch of the catalog.        *)
StartRecords ==
  {Record(uid, TRUE, "red", start, threats) :
     uid \in {"o", "r1", "h1"}, start \in {NotAware, Aware(0), Aware(1)},
     threats \in {{}, {Threat(TRUE, Aware(0)), Threat(FALSE, NotAware)}}}

SmallRecords == LevelRecords \cup StartRecords
=============================================================================
