-------------------------- MODULE SingletonPolling --------------------------
(***************************************************************************)
(* What the UA Alerts domain promises about polling, with no runtime       *)
(* objects, locks or tasks: some config entries are members, and there is  *)
(* one polling loop for the whole domain, which runs while there are       *)
(* members.  The loop may die of an unexpected exception; the next entry   *)
(* that joins starts it again.  EntryLifecycle implements this module.     *)
(***************************************************************************)
CONSTANT Entries

VARIABLES members,   \* entries that receive snapshots
          polling    \* the loop: "stopped", "running" or "dead"

vars == <<members, polling>>

TypeOK == /\ members \subseteq Entries
          /\ polling \in {"stopped", "running", "dead"}

Init == /\ members = {}
        /\ polling = "stopped"

(* The first member starts the loop and so does any later one that finds   *)
(* it dead; a member that finds it running leaves it alone.                *)
Join(e) == /\ e \notin members
           /\ members' = members \cup {e}
           /\ polling' = "running"

(* The last member to leave stops the loop, dead or alive.                 *)
Leave(e) == /\ e \in members
            /\ members' = members \ {e}
            /\ polling' = IF members' = {} THEN "stopped" ELSE polling

Die == /\ polling = "running"
       /\ polling' = "dead"
       /\ UNCHANGED members

Next == (\E e \in Entries : Join(e) \/ Leave(e)) \/ Die

Spec == Init /\ [][Next]_vars
=============================================================================
