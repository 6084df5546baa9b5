----------------------------- MODULE ConfInformer -----------------------------
(***************************************************************************)
(* The way of a BridgeConfiguration from the API server to the handlers of *)
(* the daemon: the reflector lists and watches (the typed client and the   *)
(* ListWatch of pkg/client/informers), its queue of deltas is emptied into *)
(* the store that the lister reads, and each delta becomes a notification  *)
(* that the glue of pkg/controllers/bridgeconfig.go hands on.              *)
(*                                                                         *)
(* client-go itself is external; what matters of it is kept: a watch that  *)
(* breaks loses events, a relist says what is there and marks what is gone *)
(* with a tombstone (DeletedFinalStateUnknown) of the object in the store, *)
(* and the queue, the store and the handlers move at their own pace.       *)
(***************************************************************************)
EXTENDS Naturals, Sequences, FiniteSets, SequencesExt

CONSTANTS
  Confs,       \* names of BridgeConfigurations
  Contents,    \* their contents
  None,        \* there is no such configuration
  MaxPending   \* bound on deltas and notifications: when it is reached users and the
               \* connection wait

ASSUME InformerAssumption ==
  IsFiniteSet(Confs) /\ None \notin Contents /\ MaxPending \in Nat

VARIABLES
  api,        \* api[c]: the content of c at the API server
  conn,       \* the reflector: "off", "list" (it is to list) or "watch"
  fifo,       \* the deltas that wait
  populated,  \* was there a first list
  initial,    \* how many deltas of the first list are in fifo
  store,      \* store[c]: what the lister returns
  listener,   \* the notifications that wait
  view        \* view[c]: what the handlers were last told about c

informer == <<conn, fifo, populated, initial, store, listener, view>>

Nothing == [c \in Confs |-> None]

\* Added, Modified, Sync and Replaced are one kind: the store tells Add from Update.
Put(c, content) == [conf |-> c, kind |-> "put", content |-> content]
Gone(c, content) == [conf |-> c, kind |-> "gone", content |-> content]
Tombstone(c, content) == [conf |-> c, kind |-> "tombstone", content |-> content]

InformerOff ==
  /\ conn = "off" /\ fifo = <<>> /\ populated = FALSE /\ initial = 0
  /\ store = Nothing /\ listener = <<>> /\ view = Nothing

InformerReset ==
  /\ conn' = "off" /\ fifo' = <<>> /\ populated' = FALSE /\ initial' = 0
  /\ store' = Nothing /\ listener' = <<>> /\ view' = Nothing

\* Item i is the last that waits in q for its configuration.
IsLast(q, i) == \A k \in i + 1 .. Len(q) : q[k].conf # q[i].conf

\* A deletion of c is the last that waits: another one would be merged with it.
Deletes(c) ==
  \E i \in 1 .. Len(fifo) : fifo[i].conf = c /\ IsLast(fifo, i) /\ fifo[i].kind # "put"

(***************************************************************************)
(* The API server and the connection to it.                                *)
(***************************************************************************)
\* Mutant: what is known already is not told again.
EventOfNew(c, content) ==
  IF content = None THEN <<Gone(c, api[c])>>
  ELSE IF api[c] = None THEN <<Put(c, content)>> ELSE <<>>

Event(c, content) == IF content = None THEN <<Gone(c, api[c])>> ELSE <<Put(c, content)>>

Room == Len(fifo) + Len(listener) < MaxPending

Change(c, content) ==
  /\ Room
  /\ api[c] # content
  /\ api' = [api EXCEPT ![c] = content]
  /\ fifo' = IF conn = "watch" THEN fifo \o Event(c, content) ELSE fifo
  /\ UNCHANGED <<conn, populated, initial, store, listener, view>>

\* The watch ends and cannot be resumed where it was.
Disconnect ==
  /\ conn = "watch" /\ Room
  /\ conn' = "list"
  /\ UNCHANGED <<api, fifo, populated, initial, store, listener, view>>

\* Mutant: what is gone from the list is not noticed.
ListedOnly(there, gone) == [i \in 1 .. Len(there) |-> Put(there[i], api[there[i]])]

\* The deltas of a list: first what is there, then what is gone.
Listed(there, gone) ==
  [i \in 1 .. Len(there) |-> Put(there[i], api[there[i]])]
    \o [i \in 1 .. Len(gone) |-> Tombstone(gone[i], store[gone[i]])]

\* What is gone from the list is what the store has and the list has not, unless its
\* deletion waits already.
There == {c \in Confs : api[c] # None}
GoneFromList == {c \in Confs : api[c] = None /\ store[c] # None /\ ~Deletes(c)}

\* A list that fails is tried again.
List ==
  /\ conn = "list" /\ conn' = "watch"
  /\ \E there \in SetToSeqs(There), gone \in SetToSeqs(GoneFromList) :
       /\ fifo' = fifo \o Listed(there, gone)
       /\ initial' = IF populated THEN initial ELSE Len(Listed(there, gone))
  /\ populated' = TRUE
  /\ UNCHANGED <<api, store, listener, view>>

HasSynced == populated /\ initial = 0

(***************************************************************************)
(* From the queue to the store and to the handlers.                        *)
(***************************************************************************)
\* Mutant: every delta that puts is an Add.
NotifiedAsAdd(d) ==
  [conf |-> d.conf, old |-> None, new |-> IF d.kind = "put" THEN d.content ELSE None,
   tombstone |-> d.kind = "tombstone"]

\* An Add has no old, a Delete has no new.
Notified(d) ==
  [conf |-> d.conf,
   old  |-> IF d.kind = "put" THEN store[d.conf] ELSE d.content,
   new  |-> IF d.kind = "put" THEN d.content ELSE None,
   tombstone |-> d.kind = "tombstone"]

Pop ==
  /\ fifo # <<>>
  /\ LET d == Head(fifo)
     IN /\ store' = [store EXCEPT ![d.conf] = Notified(d).new]
        /\ listener' = Append(listener, Notified(d))
  /\ fifo' = Tail(fifo)
  /\ initial' = IF initial > 0 THEN initial - 1 ELSE 0
  /\ UNCHANGED <<api, conn, populated, view>>

\* Mutant: a tombstone is not what a delete handler expects, and is dropped.
HandleNoTombstone ==
  /\ listener # <<>>
  /\ view' = IF Head(listener).tombstone THEN view
             ELSE [view EXCEPT ![Head(listener).conf] = Head(listener).new]
  /\ listener' = Tail(listener)
  /\ UNCHANGED <<api, conn, fifo, populated, initial, store>>

\* handleAddBridgeConf, handleUpdateBridgeConf and handleDeleteBridgeConf, which takes
\* the configuration out of a tombstone.
Handle ==
  /\ listener # <<>>
  /\ view' = [view EXCEPT ![Head(listener).conf] = Head(listener).new]
  /\ listener' = Tail(listener)
  /\ UNCHANGED <<api, conn, fifo, populated, initial, store>>

(***************************************************************************)
(* Properties.                                                             *)
(***************************************************************************)
\* Item i is the first that waits in q for its configuration, item j the next for the
\* configuration of item i.
IsFirst(q, i) == \A k \in 1 .. i - 1 : q[k].conf # q[i].conf

Follows(q, i, j) ==
  /\ i < j /\ q[i].conf = q[j].conf
  /\ \A k \in i + 1 .. j - 1 : q[k].conf # q[j].conf

\* What a handler may rely on when a notification comes: an Add is of a configuration
\* it does not know, an Update has the old content it knows, a Delete is of one it
\* knows, with the content it knows unless it was made up from the store by a relist.
Fits(n, known) ==
  IF n.new = None THEN known # None /\ (n.tombstone \/ n.old = known)
                  ELSE n.old = known

\* The notifications that wait, one after the other, all fit: whatever was lost to a
\* broken watch, merged or made up by a relist (handleDeleteBridgeConf,
\* bridgeconfig.go:111-123; OnBridgeConfigUpdate and OnBridgeConfigDelete of server.go
\* trust their old configuration).
NotificationsFit ==
  \A j \in 1 .. Len(listener) :
    /\ IsFirst(listener, j) => Fits(listener[j], view[listener[j].conf])
    /\ \A i \in 1 .. Len(listener) :
         Follows(listener, i, j) => Fits(listener[j], listener[i].new)

\* While a watch is open, every configuration that is at the API server is in the store
\* or on its way there with its last content, also when it changed while there was no
\* watch.  (One that is gone may come: see DeletedConfsLeave.)
StoreFollows ==
  conn = "watch" =>
    \A c \in Confs : api[c] # None =>
      IF \E i \in 1 .. Len(fifo) : fifo[i].conf = c
      THEN \A i \in 1 .. Len(fifo) :
             fifo[i].conf = c /\ IsLast(fifo, i) => fifo[i] = Put(c, api[c])
      ELSE store[c] = api[c]

\* What the handlers were last told of a configuration, or will be when all notifications
\* are handled, is what the lister returns to bridgeWatch (server.go:390), deletions that
\* only a tombstone tells of included (bridgeconfig.go:111-123).
HandlersFollow ==
  \A c \in Confs :
    IF \E i \in 1 .. Len(listener) : listener[i].conf = c
    THEN \A i \in 1 .. Len(listener) :
           listener[i].conf = c /\ IsLast(listener, i) => listener[i].new = store[c]
    ELSE view[c] = store[c]

=============================================================================
