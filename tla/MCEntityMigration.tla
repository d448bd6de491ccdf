-------------------------- MODULE MCEntityMigration --------------------------
(* Small instances of EntityMigration for TLC: two territories of the same *)
(* title, and what versions of the integration may have left of them.      *)
EXTENDS EntityMigration

SameTitle == [t \in Territories |-> "title"]

Entity(t, key, suggests, n) ==
  [territory |-> t, key |-> key, suggests |-> suggests,
   id |-> Numbered(suggests, n), born |-> key, chosen |-> None]
Titled(t, key, n) == Entity(t, key, <<"title", key>>, n)
Short(t, key) == Entity(t, key, <<t, key>>, 1)

(* Before 0.1.8: ids after the title, the second of two numbered.          *)
Longest ==
  {Titled("a", "threat_codes", 1), Titled("b", "threat_codes", 2),
   Titled("a", "alert_latency", 1), Titled("a", "data_age", 1)}
(* A name in the user's language.                                          *)
Localised == {Entity("a", "threat_codes", <<"title", "kody_zahroz">>, 1),
              Titled("b", "threat_codes", 1)}
(* Since 0.1.8, and with both generations of lag sensors.                  *)
Shorter ==
  {Entity("a", "threat_codes", <<"a", "threats">>, 1),
   Short("a", "alert_latency"), Titled("a", "last_alert_delay", 1),
   Short("b", "last_alert_delay")}

AllPasts == {Longest, Localised, Shorter, {}}
OldPasts == {Longest}
Wanted == {<<"a", "last_alert_lag", 1>>, <<"b", "threats", 1>>}
Nobody == {}
=============================================================================
