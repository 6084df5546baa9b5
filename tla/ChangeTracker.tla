----------------------------- MODULE ChangeTracker -----------------------------
(***************************************************************************)
(* BridgeConfChangeTracker and BridgeConfMap (pkg/controllers): Update     *)
(* collects changes, the update of the map applies them and forgets them.  *)
(* NewServer makes one of each and nothing in the program calls them yet;  *)
(* the calls are those of the informer's handlers, which have the old and  *)
(* the new configuration at hand, and of a loop that applies now and then. *)
(***************************************************************************)
CONSTANTS
  Names,    \* namespaced names of BridgeConfigurations
  Confs,    \* their contents
  Absent    \* nil: there is no such configuration

ASSUME AbsentAssumption == Absent \notin Confs

VARIABLES
  latest,          \* latest[n]: what the last notification about n said
  items,           \* items[n]: the change that is kept for n, NoChange if none
  bridgeConfMap,   \* bridgeConfMap[n]: the content of key n, Absent if no key
  lock,            \* who holds the tracker's lock: "free" or "apply"
  todo             \* the changes that the running apply has still to make

vars == <<latest, items, bridgeConfMap, lock, todo>>

Contents == Confs \cup {Absent}
Changes == [previous : Contents, current : Contents]
NoChange == [previous |-> Absent, current |-> Absent]
Pending(n) == items[n] # NoChange

Init ==
  /\ latest = [n \in Names |-> Absent]
  /\ items = [n \in Names |-> NoChange]
  /\ bridgeConfMap = [n \in Names |-> Absent]
  /\ lock = "free" /\ todo = {}

\* Mutant: the previous of the last call is kept, not that of the first.
ChangeFromLast(n, previous, current) == [previous |-> previous, current |-> current]

\* Mutant: without the DeepEqual.
ChangeNeverCancels(n, previous, current) ==
  [previous |-> IF Pending(n) THEN items[n].previous ELSE previous, current |-> current]

\* The first previous stays, the last current stays, and a change that ends where it
\* began is dropped.
Change(n, previous, current) ==
  LET first == IF Pending(n) THEN items[n].previous ELSE previous
  IN IF first = current THEN NoChange ELSE [previous |-> first, current |-> current]

\* Mutant: the lock is not waited for.
UpdateUnlocked(n, current) ==
  /\ items' = [items EXCEPT ![n] = Change(n, latest[n], current)]
  /\ latest' = [latest EXCEPT ![n] = current]
  /\ UNCHANGED <<bridgeConfMap, lock, todo>>

\* Update(previous, current) for an Add, an Update or a Delete that was notified.
Update(n, current) ==
  /\ lock = "free"
  /\ items' = [items EXCEPT ![n] = Change(n, latest[n], current)]
  /\ latest' = [latest EXCEPT ![n] = current]
  /\ UNCHANGED <<bridgeConfMap, lock, todo>>

apply ==
  /\ lock = "free"
  /\ lock' = "apply" /\ todo' = {n \in Names : Pending(n)}
  /\ UNCHANGED <<latest, items, bridgeConfMap>>

\* What unmerge(previous) and merge(current) leave at key n.
Merged(n, change) ==
  LET unmerged == IF change.previous # Absent THEN Absent ELSE bridgeConfMap[n]
  IN IF change.current # Absent THEN change.current ELSE unmerged

Apply(n) ==
  /\ lock = "apply" /\ n \in todo
  /\ bridgeConfMap' = [bridgeConfMap EXCEPT ![n] = Merged(n, items[n])]
  /\ todo' = todo \ {n}
  /\ UNCHANGED <<latest, items, lock>>

\* The items are cleared and the lock is let go.
Applied ==
  /\ lock = "apply" /\ todo = {}
  /\ items' = [n \in Names |-> NoChange] /\ lock' = "free"
  /\ UNCHANGED <<latest, bridgeConfMap, todo>>

Next ==
  \/ \E n \in Names : Apply(n) \/ \E current \in Contents : Update(n, current)
  \/ apply \/ Applied

Spec == Init /\ [][Next]_vars

(***************************************************************************)
(* Properties.                                                             *)
(***************************************************************************)
\* The shape of every variable: a change that is kept is one, and changes are left to
\* make only under the lock.
TypeOK ==
  /\ latest \in [Names -> Contents]
  /\ items \in [Names -> Changes]
  /\ bridgeConfMap \in [Names -> Contents]
  /\ lock \in {"free", "apply"} /\ todo \in SUBSET Names
  /\ \A n \in Names : Pending(n) => items[n].previous # items[n].current
  /\ lock = "free" => todo = {}

\* The tracker knows exactly the difference between the map and what was notified:
\* a change it keeps leads from the one to the other, and where it keeps none, or has
\* made it already, they agree (the DeepEqual of Update, bridgeconfig.go:239, and the
\* first previous, :229-235).
Tracks(n) ==
  /\ Pending(n) => items[n].current = latest[n]
  /\ n \in todo => Pending(n)
  /\ bridgeConfMap[n] = IF Pending(n) /\ (lock = "free" \/ n \in todo)
                        THEN items[n].previous ELSE latest[n]

TracksDifference == \A n \in Names : Tracks(n)

\* The map as it was when the apply that is running began.
appliedBar == [n \in Names |-> IF Pending(n) THEN items[n].previous ELSE bridgeConfMap[n]]

Latest == INSTANCE LatestConfs WITH applied <- appliedBar

\* Updates and applies, in any order, take the map from one full snapshot of the
\* notified configurations to another: no change is lost between two applies, none
\* is made twice, none is half made.
AppliesLatest == Latest!Spec

=============================================================================
