------------------------------- MODULE Handshake -------------------------------
(***************************************************************************)
(* How a slave server gets connected to the volume of the storage server:  *)
(* it mounts the directory and writes a file named after itself; the       *)
(* storage server answers with a file named after the volume; the master   *)
(* removes the files that it takes for orphans.  All three work on one     *)
(* directory and on the tables Servers, Storage and Connectivity, and none *)
(* locks anything.  A file that is gone raises an error, which ends the    *)
(* program that wanted to open or to remove it.                            *)
(*                                                                         *)
(* Each loop over selected rows or files is modelled row by row: the model *)
(* takes any one of them, and other rows in later passes.                  *)
(*                                                                         *)
(* A storage server that is started again, or whose rows the master has    *)
(* removed, registers a new volume for the same directory.                 *)
(***************************************************************************)

CONSTANTS
  Slaves,   \* slave servers, each with a uuid of its own
  Volumes,  \* bound: the volumes that storage servers may register
  Mortal,   \* the slaves that may crash
  None

ASSUME HandshakeAssumption ==
  Mortal \subseteq Slaves /\ Slaves \cap Volumes = {} /\ None \notin Slaves \cup Volumes

VARIABLES
  servers,   \* the slaves with a row in Servers
  storage,   \* the volumes with a row in Storage
  conn,      \* Connectivity: [slave, volume, and whether Connected = 1]
  file,      \* the files of the directory, by name: the uuid in its first line
  mounted,   \* the slaves that have mounted the directory
  slave,     \* each slave's statement and the volume it is at
  store,     \* the storage server's statement, its volume and the slave it is at
  master,    \* the master's statement, the volume and the file it is at
  used,      \* the volumes registered so far
  read,      \* auxiliary: whose file, for which volume, the storage server has read
  evicted    \* auxiliary: the slaves that the master has removed from Servers

tableVars == <<servers, storage, conn>>
auxVars == <<used, read, evicted>>
vars == <<tableVars, file, mounted, slave, store, master, auxVars>>

Uuids == Slaves \cup Volumes
Connections == [slave : Slaves, volume : Volumes, connected : BOOLEAN]
SlavePCs == {"loop", "connect", "mount", "exists", "open", "remove_test",
             "remove_confirm", "update", "crashed", "raised"}

TypeOK ==
  /\ servers \subseteq Slaves
  /\ storage \subseteq used /\ used \subseteq Volumes
  /\ conn \subseteq Connections
  /\ file \in [Uuids -> Uuids \cup {None}]
  /\ mounted \subseteq Slaves
  /\ slave \in [Slaves -> [at : SlavePCs, row : Volumes \cup {None}]]
  /\ store \in [at : {"loop", "row", "open", "confirm", "ended", "raised"},
                volume : Volumes \cup {None}, row : Slaves \cup {None}]
  /\ master \in [at : {"idle", "file", "remove", "raised"},
                 volume : Volumes \cup {None}, row : Uuids \cup {None}]
  /\ read \subseteq Slaves \X Volumes
  /\ evicted \subseteq Slaves

Init ==
  /\ servers = {} /\ storage = {} /\ conn = {}
  /\ file = [u \in Uuids |-> None]
  /\ mounted = {}
  /\ slave = [s \in Slaves |-> [at |-> "loop", row |-> None]]
  /\ store = [at |-> "loop", volume |-> None, row |-> None]
  /\ used = {}
  /\ master = [at |-> "idle", volume |-> None, row |-> None]
  /\ read = {} /\ evicted = {}

Exists(u) == file[u] # None
Written(u, line) == file' = [file EXCEPT ![u] = line]
Removed(u) == file' = [file EXCEPT ![u] = None]
RowsOf(s) == {c \in conn : c.slave = s}
ConnectedTo(s) == {c.volume : c \in {d \in RowsOf(s) : d.connected}}

----------------------------------------------------------------------------
(* A slave server: register_slave_server, calculate_connectivity and       *)
(* mount_storage in each pass of its main loop.                            *)

Here(s) == slave[s].row
SlaveAt(s, at) == slave[s].at = at
SlaveTo(s, at) == slave' = [slave EXCEPT ![s].at = at]
\* on with the main loop, or the end of the process
SlaveLeaves(s, at) == slave' = [slave EXCEPT ![s] = [at |-> at, row |-> None]]

\* register_slave_server, and the SELECT of calculate_connectivity
Register(s) ==
  /\ SlaveAt(s, "loop")
  /\ servers' = servers \cup {s}
  /\ \/ \E v \in storage \ ConnectedTo(s) :
          slave' = [slave EXCEPT ![s] = [at |-> "connect", row |-> v]]
     \/ storage \subseteq ConnectedTo(s) /\ UNCHANGED slave
  /\ UNCHANGED <<storage, conn, file, mounted, store, master, auxVars>>

\* Mutant of Connect: the INSERT leaves Connected out.
ConnectUnset(s) ==
  /\ SlaveAt(s, "connect")
  /\ SlaveTo(s, "mount")
  /\ conn' = conn \cup {[slave |-> s, volume |-> Here(s)]}
  /\ UNCHANGED <<servers, storage, file, mounted, store, master, auxVars>>

\* the INSERT of calculate_connectivity
Connect(s) ==
  /\ SlaveAt(s, "connect")
  /\ SlaveTo(s, "mount")
  /\ conn' = IF \E c \in RowsOf(s) : c.volume = Here(s) THEN conn
             ELSE conn \cup {[slave |-> s, volume |-> Here(s), connected |-> FALSE]}
  /\ UNCHANGED <<servers, storage, file, mounted, store, master, auxVars>>

\* mount_storage: a volume without a Storage row is passed over.  The mount may
\* fail: then the test file is written to a directory of the slave.
WriteTest(s) ==
  /\ SlaveAt(s, "mount")
  /\ \/ /\ Here(s) \notin storage
        /\ SlaveLeaves(s, "loop")
        /\ UNCHANGED <<mounted, file>>
     \/ /\ Here(s) \in storage
        /\ SlaveTo(s, "exists")
        /\ \/ mounted' = mounted \cup {s} /\ Written(s, Here(s))
           \/ s \notin mounted /\ UNCHANGED <<mounted, file>>
  /\ UNCHANGED <<tableVars, store, master, auxVars>>

\* not confirmed: the test file stays, the directory is unmounted
NotReady(s) ==
  /\ SlaveLeaves(s, "loop")
  /\ mounted' = mounted \ {s}

LookForConfirm(s) ==
  /\ SlaveAt(s, "exists")
  /\ IF s \in mounted /\ Exists(Here(s))
       THEN SlaveTo(s, "open") /\ UNCHANGED mounted
       ELSE NotReady(s)
  /\ UNCHANGED <<tableVars, file, store, master, auxVars>>

\* Mutant of OpenConfirm: whose confirmation it is is not compared.
OpenConfirmAny(s) ==
  /\ SlaveAt(s, "open")
  /\ IF Exists(Here(s)) THEN SlaveTo(s, "remove_test") ELSE SlaveLeaves(s, "raised")
  /\ UNCHANGED <<tableVars, file, mounted, store, master, auxVars>>

OpenConfirm(s) ==
  /\ SlaveAt(s, "open")
  /\ \/ ~Exists(Here(s)) /\ SlaveLeaves(s, "raised") /\ UNCHANGED mounted
     \/ file[Here(s)] = s /\ SlaveTo(s, "remove_test") /\ UNCHANGED mounted
     \/ file[Here(s)] \notin {None, s} /\ NotReady(s)
  /\ UNCHANGED <<tableVars, file, store, master, auxVars>>

RemoveTest(s) ==
  /\ SlaveAt(s, "remove_test")
  /\ Removed(s)
  /\ IF Exists(s) THEN SlaveTo(s, "remove_confirm") ELSE SlaveLeaves(s, "raised")
  /\ UNCHANGED <<tableVars, mounted, store, master, auxVars>>

\* by now the confirmation may be another slave's
RemoveConfirm(s) ==
  /\ SlaveAt(s, "remove_confirm")
  /\ Removed(Here(s))
  /\ IF Exists(Here(s)) THEN SlaveTo(s, "update") ELSE SlaveLeaves(s, "raised")
  /\ UNCHANGED <<tableVars, mounted, store, master, auxVars>>

\* UPDATE Connectivity SET Connected = 1: the row may be gone
SetConnected(s) ==
  /\ SlaveAt(s, "update")
  /\ LET mine == {c \in conn : c.slave = s /\ c.volume = Here(s)}
     IN  conn' = (conn \ mine) \cup {[c EXCEPT !.connected = TRUE] : c \in mine}
  /\ SlaveLeaves(s, "loop")
  /\ UNCHANGED <<servers, storage, file, mounted, store, master, auxVars>>

Slave(s) ==
  \/ Register(s) \/ Connect(s) \/ WriteTest(s) \/ LookForConfirm(s)
  \/ OpenConfirm(s) \/ RemoveTest(s) \/ RemoveConfirm(s) \/ SetConnected(s)

Crash(s) ==
  /\ s \in Mortal
  /\ slave[s].at \notin {"crashed", "raised"}
  /\ SlaveLeaves(s, "crashed")
  /\ UNCHANGED <<tableVars, file, mounted, store, master, auxVars>>

----------------------------------------------------------------------------
(* The storage server: register_storage_volume and check_slave_connectivity. *)

StoreLeaves(at) == store' = [store EXCEPT !.at = at, !.row = None]

\* the SELECTs of its volume and of the slaves that are not connected to it; a
\* volume without a Storage row is registered under a new uuid
RegisterVolume ==
  /\ store.at = "loop"
  /\ \E v \in IF store.volume \in storage THEN {store.volume} ELSE Volumes \ used :
       /\ storage' = storage \cup {v}
       /\ used' = used \cup {v}
       /\ \/ store' = [store EXCEPT !.volume = v]
          \/ \E c \in conn :
               /\ c.volume = v /\ ~c.connected
               /\ store' = [at |-> "row", volume |-> v, row |-> c.slave]
  /\ UNCHANGED <<servers, conn, file, mounted, slave, master, read, evicted>>

LookForTest ==
  /\ store.at = "row"
  /\ IF Exists(store.row) THEN store' = [store EXCEPT !.at = "open"]
     ELSE StoreLeaves("loop")
  /\ UNCHANGED <<tableVars, file, mounted, slave, master, auxVars>>

OpenTest ==
  /\ store.at = "open"
  /\ \/ ~Exists(store.row) /\ StoreLeaves("raised") /\ UNCHANGED read
     \/ /\ file[store.row] = store.volume
        /\ store' = [store EXCEPT !.at = "confirm"]
        /\ read' = read \cup {<<store.row, store.volume>>}
     \/ /\ file[store.row] \notin {None, store.volume}
        /\ StoreLeaves("loop")
        /\ UNCHANGED read
  /\ UNCHANGED <<tableVars, file, mounted, slave, master, used, evicted>>

\* over the confirmation of any other slave
WriteConfirm ==
  /\ store.at = "confirm"
  /\ Written(store.volume, store.row)
  /\ StoreLeaves("loop")
  /\ UNCHANGED <<tableVars, mounted, slave, master, auxVars>>

\* It ends: by SIGINT too, whose unload fails at its first DELETE.
StoreStops ==
  /\ store.at \notin {"ended", "raised"}
  /\ StoreLeaves("ended")
  /\ UNCHANGED <<tableVars, file, mounted, slave, master, auxVars>>

\* with a new uuid: the volume it finds registered is another server's
StoreStarts ==
  /\ store.at \in {"ended", "raised"}
  /\ store' = [store EXCEPT !.at = "loop", !.volume = None]
  /\ UNCHANGED <<tableVars, file, mounted, slave, master, auxVars>>

Store == RegisterVolume \/ LookForTest \/ OpenTest \/ WriteConfirm

----------------------------------------------------------------------------
(* The master: remove_stale_*, remove_orphaned_storage_confirmation_files. *)

MasterLeaves(at) == master' = [at |-> at, volume |-> None, row |-> None]

\* A slave is silent when it has ended, and while it runs a job that waits
\* without heartbeats.
RemoveStaleSlave(s) ==
  /\ master.at = "idle"
  /\ s \in servers
  /\ slave[s].at \in {"loop", "crashed", "raised"}
  /\ servers' = servers \ {s}
  /\ conn' = conn \ RowsOf(s)
  /\ evicted' = evicted \cup {s}
  /\ UNCHANGED <<storage, file, mounted, slave, store, master, used, read>>

\* A storage server is silent when it has ended, and while its main loop waits for
\* a place in the queue of its pool; it may be back, at any statement, when the
\* DELETEs come.  Connectivity goes with the volume, or in a later pass.
RemoveStaleStorage(v) ==
  /\ master.at = "idle"
  /\ v \in storage \/ \E c \in conn : c.volume = v
  /\ storage' = storage \ {v}
  /\ conn' = {c \in conn : c.volume # v}
  /\ UNCHANGED <<servers, file, mounted, slave, store, master, auxVars>>

\* glob.glob, for one row of Storage
Glob(v) ==
  /\ master.at = "idle"
  /\ v \in storage
  /\ \E u \in Uuids :
       Exists(u) /\ master' = [at |-> "file", volume |-> v, row |-> u]
  /\ UNCHANGED <<tableVars, file, mounted, slave, store, auxVars>>

\* Mutant of Orphan: the file named after the volume is not spared.
OrphanConfirm(u) == u \notin servers

\* the names that are neither a server's nor the volume's: another volume's is
Orphan(u) == u \notin servers \cup {master.volume}

CheckFile ==
  /\ master.at = "file"
  /\ IF Orphan(master.row) THEN master' = [master EXCEPT !.at = "remove"]
     ELSE MasterLeaves("idle")
  /\ UNCHANGED <<tableVars, file, mounted, slave, store, auxVars>>

RemoveFile ==
  /\ master.at = "remove"
  /\ Removed(master.row)
  /\ MasterLeaves(IF Exists(master.row) THEN "idle" ELSE "raised")
  /\ UNCHANGED <<tableVars, mounted, slave, store, auxVars>>

Master ==
  \/ \E s \in Slaves : RemoveStaleSlave(s)
  \/ \E v \in Volumes : RemoveStaleStorage(v) \/ Glob(v)
  \/ CheckFile \/ RemoveFile

Next ==
  \/ \E s \in Slaves : Slave(s) \/ Crash(s)
  \/ Store \/ StoreStops \/ StoreStarts
  \/ Master

Spec == Init /\ [][Next]_vars

----------------------------------------------------------------------------
(* Properties. *)

\* A slave is connected only to a volume whose storage server has read the file
\* that this slave wrote for this volume, whatever files of other slaves, of
\* earlier passes and of earlier storage servers lie around.
ConnectedMeansRead ==
  \A c \in conn : c.connected => <<c.slave, c.volume>> \in read

SecondVolume == \E v, w \in used : v # w

\* What may take a file of its handshake away from a slave.
Disturbed(s) ==
  \/ \E t \in Slaves \ {s} : \E v \in Volumes : <<t, v>> \in read
  \/ SecondVolume
  \/ s \in evicted

\* The error of a missing file ends a slave only when another slave was
\* confirmed, when a second volume has been registered for the directory, or
\* when the master had taken this slave for gone: one slave that heartbeats gets
\* through its handshake.
SlaveRaises == \A s \in Slaves : slave[s].at = "raised" => Disturbed(s)

\* The master ends by a missing file only when it had taken a slave for gone
\* that came back, or when a second volume has been registered.
MasterRaises ==
  master.at = "raised" => evicted # {} \/ SecondVolume

----------------------------------------------------------------------------
(* The inductive invariant behind the theorems of HandshakeProofs. *)

\* Whoever is about to be confirmed, or past it, has had its file read.
Confirmed ==
  /\ \A v \in Volumes : file[v] \in Slaves => <<file[v], v>> \in read
  /\ store.at = "confirm" => <<store.row, store.volume>> \in read
  /\ \A s \in Slaves : slave[s].at \in {"remove_test", "remove_confirm", "update"}
       => <<s, slave[s].row>> \in read

\* Each process that is at a row has one.
RowsKnown ==
  /\ \A s \in Slaves :
       slave[s].at \notin {"loop", "crashed", "raised"} => slave[s].row \in Volumes
  /\ store.at \in {"row", "open", "confirm"} =>
       store.row \in Slaves /\ store.volume \in used

IInv == TypeOK /\ RowsKnown /\ Confirmed /\ ConnectedMeansRead

\* Files and rows are of slaves and volumes that have registered; the master
\* removes a file only of a slave it has removed, or of one volume of several.
Registered == servers \cup evicted \cup used
RegisteredOnly ==
  /\ \A u \in Uuids : file[u] # None => u \in Registered
  /\ \A s \in Slaves :
       slave[s].at \notin {"loop", "crashed", "raised"} => s \in Registered
  /\ master.at \in {"file", "remove"} =>
       master.row \in Registered /\ master.volume \in used
  /\ master.at = "remove" => master.row \in evicted \/ SecondVolume

\* The files that a slave will open or remove are there, or it was disturbed.
FilesThere ==
  \A s \in Slaves :
    /\ slave[s].at \in {"open", "remove_test"} => s \in mounted
    /\ slave[s].at \in {"exists", "open", "remove_test"} /\ s \in mounted =>
         Exists(s) \/ Disturbed(s)
    /\ slave[s].at \in {"open", "remove_test", "remove_confirm"} =>
         Exists(slave[s].row) \/ Disturbed(s)

RaisesInv == RegisteredOnly /\ FilesThere /\ SlaveRaises /\ MasterRaises
=============================================================================
