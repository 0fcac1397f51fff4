---------------------------- MODULE SectorStore -----------------------------
(***************************************************************************)
(* What devices/disk.c promises its callers: every disk_read() and         *)
(* disk_write() acts on its sector at one moment between call and return,  *)
(* whatever else goes on.  Disk.tla implements this; FileIO.tla uses it.   *)
(***************************************************************************)
EXTENDS Naturals

CONSTANTS
  Client,    \* threads that call the driver
  Sector,    \* sectors, of every disk
  Data       \* contents of a sector

VARIABLES
  store,     \* contents of every sector
  request    \* the call each thread is in

storeVars == <<store, request>>

NoRequest == [op |-> "none"]
Asked(op, sec, data) == [op |-> op, sec |-> sec, data |-> data]
Answered(data) == [op |-> "done", data |-> data]

StoreInit ==
  /\ store \in [Sector -> Data]
  /\ request = [t \in Client |-> NoRequest]

Ask(t, op, sec, data) ==
  /\ request[t] = NoRequest
  /\ request' = [request EXCEPT ![t] = Asked(op, sec, data)]
  /\ UNCHANGED store

disk_read(t) ==
  /\ request[t].op = "read"
  /\ request' = [request EXCEPT ![t] = Answered(store[request[t].sec])]
  /\ UNCHANGED store

disk_write(t) ==
  /\ request[t].op = "write"
  /\ store' = [store EXCEPT ![request[t].sec] = request[t].data]
  /\ request' = [request EXCEPT ![t] = Answered(request[t].data)]

Take(t) ==
  /\ request[t].op = "done"
  /\ request' = [request EXCEPT ![t] = NoRequest]
  /\ UNCHANGED store

StoreNext ==
  \E t \in Client :
    \/ \E op \in {"read", "write"}, sec \in Sector, data \in Data : Ask(t, op, sec, data)
    \/ disk_read(t) \/ disk_write(t) \/ Take(t)

StoreSpec == StoreInit /\ [][StoreNext]_storeVars
=============================================================================
