---------------------------- MODULE HandshakeProofs ----------------------------
(***************************************************************************)
(* Theorems about Handshake: for any number of slaves and volumes, crashes *)
(* and restarts, and any removal of files by the master.                   *)
(***************************************************************************)
EXTENDS Handshake, TLAPS

\* The invariant holds when nothing is registered.
LEMMA InitInv == Init => IInv
<1> SUFFICES ASSUME Init PROVE IInv
  OBVIOUS
<1>1. TypeOK
  BY DEF Init, TypeOK, Uuids, Connections, SlavePCs
<1> QED
  BY <1>1, HandshakeAssumption
     DEF Init, IInv, RowsKnown, Confirmed, ConnectedMeansRead, Uuids

\* The statements of a slave, and its crash, keep the invariant.
LEMMA SlaveStepInv ==
  ASSUME IInv, NEW s \in Slaves,
         \/ Register(s)
         \/ Connect(s)
         \/ WriteTest(s)
         \/ LookForConfirm(s)
         \/ OpenConfirm(s)
         \/ RemoveTest(s)
         \/ RemoveConfirm(s)
         \/ SetConnected(s)
         \/ Crash(s)
  PROVE  IInv'
<1> USE DEF SlaveAt, SlaveTo, SlaveLeaves, Here, NotReady, StoreLeaves, MasterLeaves,
           Written, Removed, Exists, RowsOf, tableVars, auxVars, Uuids
<1>0. TypeOK /\ RowsKnown /\ Confirmed /\ ConnectedMeansRead
  BY DEF IInv
<1>1. CASE Register(s)
  <2>1. TypeOK'
    BY <1>0, <1>1, HandshakeAssumption
       DEF Register, TypeOK, RowsKnown, Connections, SlavePCs
  <2>2. RowsKnown'
    BY <1>0, <1>1, <2>1 DEF Register, TypeOK, RowsKnown, Connections
  <2>3. Confirmed'
    BY <1>0, <1>1, HandshakeAssumption DEF Register, TypeOK, RowsKnown, Confirmed
  <2>4. ConnectedMeansRead'
    BY <1>0, <1>1 DEF Register, Confirmed, ConnectedMeansRead, TypeOK, Connections
  <2> QED
    BY <2>1, <2>2, <2>3, <2>4 DEF IInv
<1>2. CASE Connect(s)
  <2>1. TypeOK'
    <3>1. Here(s) \in Volumes /\ slave[s].at = "connect"
      BY <1>0, <1>2 DEF Connect, RowsKnown
    <3>2. [slave |-> s, volume |-> Here(s), connected |-> FALSE] \in Connections
      BY <3>1 DEF Connections
    <3>3. conn' \subseteq Connections
      BY <1>0, <1>2, <3>2 DEF Connect, TypeOK
    <3>4. slave' \in [Slaves -> [at : SlavePCs, row : Volumes \cup {None}]]
      BY <1>0, <1>2 DEF Connect, TypeOK, SlavePCs
    <3> QED
      BY <1>0, <1>2, <3>3, <3>4 DEF Connect, TypeOK
  <2>2. RowsKnown'
    BY <1>0, <1>2, <2>1 DEF Connect, TypeOK, RowsKnown, Connections
  <2>3. Confirmed'
    BY <1>0, <1>2, HandshakeAssumption DEF Connect, TypeOK, RowsKnown, Confirmed
  <2>4. ConnectedMeansRead'
    BY <1>0, <1>2 DEF Connect, Confirmed, ConnectedMeansRead, TypeOK, Connections
  <2> QED
    BY <2>1, <2>2, <2>3, <2>4 DEF IInv
<1>3. CASE WriteTest(s)
  <2>1. TypeOK'
    BY <1>0, <1>3, HandshakeAssumption
       DEF WriteTest, TypeOK, RowsKnown, Connections, SlavePCs
  <2>2. RowsKnown'
    BY <1>0, <1>3, <2>1 DEF WriteTest, TypeOK, RowsKnown, Connections
  <2>3. Confirmed'
    BY <1>0, <1>3, HandshakeAssumption DEF WriteTest, TypeOK, RowsKnown, Confirmed
  <2>4. ConnectedMeansRead'
    BY <1>0, <1>3 DEF WriteTest, Confirmed, ConnectedMeansRead, TypeOK, Connections
  <2> QED
    BY <2>1, <2>2, <2>3, <2>4 DEF IInv
<1>4. CASE LookForConfirm(s)
  <2>1. TypeOK'
    BY <1>0, <1>4, HandshakeAssumption
       DEF LookForConfirm, TypeOK, RowsKnown, Connections, SlavePCs
  <2>2. RowsKnown'
    BY <1>0, <1>4, <2>1 DEF LookForConfirm, TypeOK, RowsKnown, Connections
  <2>3. Confirmed'
    BY <1>0, <1>4, HandshakeAssumption DEF LookForConfirm, TypeOK, RowsKnown, Confirmed
  <2>4. ConnectedMeansRead'
    BY <1>0, <1>4 DEF LookForConfirm, Confirmed, ConnectedMeansRead, TypeOK, Connections
  <2> QED
    BY <2>1, <2>2, <2>3, <2>4 DEF IInv
<1>5. CASE OpenConfirm(s)
  <2>1. TypeOK'
    BY <1>0, <1>5, HandshakeAssumption
       DEF OpenConfirm, TypeOK, RowsKnown, Connections, SlavePCs
  <2>2. RowsKnown'
    BY <1>0, <1>5, <2>1 DEF OpenConfirm, TypeOK, RowsKnown, Connections
  <2>3. Confirmed'
    BY <1>0, <1>5, HandshakeAssumption DEF OpenConfirm, TypeOK, RowsKnown, Confirmed
  <2>4. ConnectedMeansRead'
    BY <1>0, <1>5 DEF OpenConfirm, Confirmed, ConnectedMeansRead, TypeOK, Connections
  <2> QED
    BY <2>1, <2>2, <2>3, <2>4 DEF IInv
<1>6. CASE RemoveTest(s)
  <2>1. TypeOK'
    BY <1>0, <1>6, HandshakeAssumption
       DEF RemoveTest, TypeOK, RowsKnown, Connections, SlavePCs
  <2>2. RowsKnown'
    BY <1>0, <1>6, <2>1 DEF RemoveTest, TypeOK, RowsKnown, Connections
  <2>3. Confirmed'
    BY <1>0, <1>6, HandshakeAssumption DEF RemoveTest, TypeOK, RowsKnown, Confirmed
  <2>4. ConnectedMeansRead'
    BY <1>0, <1>6 DEF RemoveTest, Confirmed, ConnectedMeansRead, TypeOK, Connections
  <2> QED
    BY <2>1, <2>2, <2>3, <2>4 DEF IInv
<1>7. CASE RemoveConfirm(s)
  <2>1. TypeOK'
    BY <1>0, <1>7, HandshakeAssumption
       DEF RemoveConfirm, TypeOK, RowsKnown, Connections, SlavePCs
  <2>2. RowsKnown'
    BY <1>0, <1>7, <2>1 DEF RemoveConfirm, TypeOK, RowsKnown, Connections
  <2>3. Confirmed'
    BY <1>0, <1>7, HandshakeAssumption DEF RemoveConfirm, TypeOK, RowsKnown, Confirmed
  <2>4. ConnectedMeansRead'
    BY <1>0, <1>7 DEF RemoveConfirm, Confirmed, ConnectedMeansRead, TypeOK, Connections
  <2> QED
    BY <2>1, <2>2, <2>3, <2>4 DEF IInv
<1>8. CASE SetConnected(s)
  <2>1. TypeOK'
    <3>1. \A c \in Connections : [c EXCEPT !.connected = TRUE] \in Connections
      BY DEF Connections
    <3>2. conn' \subseteq Connections
      BY <1>0, <1>8, <3>1 DEF SetConnected, TypeOK
    <3>3. slave' \in [Slaves -> [at : SlavePCs, row : Volumes \cup {None}]]
      BY <1>0, <1>8 DEF SetConnected, TypeOK, SlavePCs
    <3> QED
      BY <1>0, <1>8, <3>2, <3>3 DEF SetConnected, TypeOK
  <2>2. RowsKnown'
    BY <1>0, <1>8, <2>1 DEF SetConnected, TypeOK, RowsKnown, Connections
  <2>3. Confirmed'
    BY <1>0, <1>8, HandshakeAssumption DEF SetConnected, TypeOK, RowsKnown, Confirmed
  <2>4. ConnectedMeansRead'
    BY <1>0, <1>8 DEF SetConnected, Confirmed, ConnectedMeansRead, TypeOK, Connections
  <2> QED
    BY <2>1, <2>2, <2>3, <2>4 DEF IInv
<1>9. CASE Crash(s)
  <2>1. TypeOK'
    BY <1>0, <1>9, HandshakeAssumption
       DEF Crash, TypeOK, RowsKnown, Connections, SlavePCs
  <2>2. RowsKnown'
    BY <1>0, <1>9, <2>1 DEF Crash, TypeOK, RowsKnown, Connections
  <2>3. Confirmed'
    BY <1>0, <1>9, HandshakeAssumption DEF Crash, TypeOK, RowsKnown, Confirmed
  <2>4. ConnectedMeansRead'
    BY <1>0, <1>9 DEF Crash, Confirmed, ConnectedMeansRead, TypeOK, Connections
  <2> QED
    BY <2>1, <2>2, <2>3, <2>4 DEF IInv
<1> QED
  BY <1>1, <1>2, <1>3, <1>4, <1>5, <1>6, <1>7, <1>8, <1>9

\* Those of the storage server do, when it is started again too.
LEMMA StoreStepInv ==
  ASSUME IInv,
         \/ RegisterVolume
         \/ LookForTest
         \/ OpenTest
         \/ WriteConfirm
         \/ StoreStops
         \/ StoreStarts
  PROVE  IInv'
<1> USE DEF SlaveAt, SlaveTo, SlaveLeaves, Here, NotReady, StoreLeaves, MasterLeaves,
           Written, Removed, Exists, RowsOf, tableVars, auxVars, Uuids
<1>0. TypeOK /\ RowsKnown /\ Confirmed /\ ConnectedMeansRead
  BY DEF IInv
<1>1. CASE RegisterVolume
  <2>1. TypeOK'
    BY <1>0, <1>1, HandshakeAssumption
       DEF RegisterVolume, TypeOK, RowsKnown, Connections, SlavePCs
  <2>2. RowsKnown'
    BY <1>0, <1>1, <2>1 DEF RegisterVolume, TypeOK, RowsKnown, Connections
  <2>3. Confirmed'
    BY <1>0, <1>1, HandshakeAssumption DEF RegisterVolume, TypeOK, RowsKnown, Confirmed
  <2>4. ConnectedMeansRead'
    BY <1>0, <1>1 DEF RegisterVolume, Confirmed, ConnectedMeansRead, TypeOK, Connections
  <2> QED
    BY <2>1, <2>2, <2>3, <2>4 DEF IInv
<1>2. CASE LookForTest
  <2>1. TypeOK'
    <3>1. store' \in [at : {"loop", "row", "open", "confirm", "ended", "raised"},
                      volume : Volumes \cup {None}, row : Slaves \cup {None}]
      <4>1. CASE Exists(store.row)
        BY <1>0, <1>2, <4>1 DEF LookForTest, TypeOK
      <4>2. CASE ~Exists(store.row)
        BY <1>0, <1>2, <4>2 DEF LookForTest, TypeOK
      <4> QED
        BY <4>1, <4>2
    <3> QED
      BY <1>0, <1>2, <3>1 DEF LookForTest, TypeOK
  <2>2. RowsKnown'
    <3>1. store.row \in Slaves /\ store'.volume = store.volume
      BY <1>0, <1>2 DEF LookForTest, TypeOK, RowsKnown
    <3>2. CASE Exists(store.row)
      BY <1>0, <1>2, <3>1, <3>2 DEF LookForTest, TypeOK, RowsKnown
    <3>3. CASE ~Exists(store.row)
      BY <1>0, <1>2, <3>3 DEF LookForTest, TypeOK, RowsKnown
    <3> QED
      BY <3>2, <3>3
  <2>3. Confirmed'
    <3>1. store'.at # "confirm"
      <4>1. CASE Exists(store.row)
        BY <1>0, <1>2, <4>1 DEF LookForTest, TypeOK
      <4>2. CASE ~Exists(store.row)
        BY <1>0, <1>2, <4>2 DEF LookForTest, TypeOK
      <4> QED
        BY <4>1, <4>2
    <3> QED
      BY <1>0, <1>2, <3>1 DEF LookForTest, Confirmed
  <2>4. ConnectedMeansRead'
    BY <1>0, <1>2 DEF LookForTest, Confirmed, ConnectedMeansRead, TypeOK, Connections
  <2> QED
    BY <2>1, <2>2, <2>3, <2>4 DEF IInv
<1>3. CASE OpenTest
  <2>1. TypeOK'
    <3>1. store.row \in Slaves /\ store.volume \in Volumes
      BY <1>0, <1>3 DEF OpenTest, TypeOK, RowsKnown
    <3>2. store' \in [at : {"loop", "row", "open", "confirm", "ended", "raised"},
                      volume : Volumes \cup {None}, row : Slaves \cup {None}]
      <4>1. CASE StoreLeaves("raised")
        BY <1>0, <4>1 DEF TypeOK
      <4>2. CASE store' = [store EXCEPT !.at = "confirm"]
        BY <1>0, <4>2 DEF TypeOK
      <4>3. CASE StoreLeaves("loop")
        BY <1>0, <4>3 DEF TypeOK
      <4> QED
        BY <1>3, <4>1, <4>2, <4>3 DEF OpenTest
    <3>3. read' \subseteq Slaves \X Volumes
      BY <1>0, <1>3, <3>1 DEF OpenTest, TypeOK
    <3> QED
      BY <1>0, <1>3, <3>2, <3>3 DEF OpenTest, TypeOK
  <2>2. RowsKnown'
    BY <1>0, <1>3, <2>1 DEF OpenTest, TypeOK, RowsKnown, Connections
  <2>3. Confirmed'
    <3>1. read \subseteq read' /\ UNCHANGED <<file, slave>>
      BY <1>3 DEF OpenTest
    <3>2. store'.at = "confirm" => <<store'.row, store'.volume>> \in read'
      <4>1. CASE store' = [store EXCEPT !.at = "confirm"]
        BY <1>0, <1>3, <4>1 DEF OpenTest, TypeOK
      <4>2. CASE StoreLeaves("raised") \/ StoreLeaves("loop")
        BY <1>0, <4>2 DEF TypeOK
      <4> QED
        BY <1>3, <4>1, <4>2 DEF OpenTest
    <3> QED
      BY <1>0, <3>1, <3>2 DEF Confirmed
  <2>4. ConnectedMeansRead'
    BY <1>0, <1>3 DEF OpenTest, Confirmed, ConnectedMeansRead, TypeOK, Connections
  <2> QED
    BY <2>1, <2>2, <2>3, <2>4 DEF IInv
<1>4. CASE WriteConfirm
  <2>1. TypeOK'
    BY <1>0, <1>4, HandshakeAssumption
       DEF WriteConfirm, TypeOK, RowsKnown, Connections, SlavePCs
  <2>2. RowsKnown'
    BY <1>0, <1>4, <2>1 DEF WriteConfirm, TypeOK, RowsKnown, Connections
  <2>3. Confirmed'
    BY <1>0, <1>4, HandshakeAssumption DEF WriteConfirm, TypeOK, RowsKnown, Confirmed
  <2>4. ConnectedMeansRead'
    BY <1>0, <1>4 DEF WriteConfirm, Confirmed, ConnectedMeansRead, TypeOK, Connections
  <2> QED
    BY <2>1, <2>2, <2>3, <2>4 DEF IInv
<1>5. CASE StoreStops
  <2>1. TypeOK'
    BY <1>0, <1>5, HandshakeAssumption
       DEF StoreStops, TypeOK, RowsKnown, Connections, SlavePCs
  <2>2. RowsKnown'
    BY <1>0, <1>5, <2>1 DEF StoreStops, TypeOK, RowsKnown, Connections
  <2>3. Confirmed'
    BY <1>0, <1>5, HandshakeAssumption DEF StoreStops, TypeOK, RowsKnown, Confirmed
  <2>4. ConnectedMeansRead'
    BY <1>0, <1>5 DEF StoreStops, Confirmed, ConnectedMeansRead, TypeOK, Connections
  <2> QED
    BY <2>1, <2>2, <2>3, <2>4 DEF IInv
<1>6. CASE StoreStarts
  <2>1. TypeOK'
    BY <1>0, <1>6, HandshakeAssumption
       DEF StoreStarts, TypeOK, RowsKnown, Connections, SlavePCs
  <2>2. RowsKnown'
    BY <1>0, <1>6, <2>1 DEF StoreStarts, TypeOK, RowsKnown, Connections
  <2>3. Confirmed'
    BY <1>0, <1>6, HandshakeAssumption DEF StoreStarts, TypeOK, RowsKnown, Confirmed
  <2>4. ConnectedMeansRead'
    BY <1>0, <1>6 DEF StoreStarts, Confirmed, ConnectedMeansRead, TypeOK, Connections
  <2> QED
    BY <2>1, <2>2, <2>3, <2>4 DEF IInv
<1> QED
  BY <1>1, <1>2, <1>3, <1>4, <1>5, <1>6

\* The master takes rows away, and confirms nothing.
LEMMA MasterRowStepInv ==
  ASSUME IInv, NEW s \in Slaves,
         \/ RemoveStaleSlave(s)
  PROVE  IInv'
<1> USE DEF SlaveAt, SlaveTo, SlaveLeaves, Here, NotReady, StoreLeaves, MasterLeaves,
           Written, Removed, Exists, RowsOf, tableVars, auxVars, Uuids
<1>0. TypeOK /\ RowsKnown /\ Confirmed /\ ConnectedMeansRead
  BY DEF IInv
<1>1. CASE RemoveStaleSlave(s)
  <2>1. TypeOK'
    BY <1>0, <1>1, HandshakeAssumption
       DEF RemoveStaleSlave, TypeOK, RowsKnown, Connections, SlavePCs
  <2>2. RowsKnown'
    BY <1>0, <1>1, <2>1 DEF RemoveStaleSlave, TypeOK, RowsKnown, Connections
  <2>3. Confirmed'
    BY <1>0, <1>1, HandshakeAssumption DEF RemoveStaleSlave, TypeOK, RowsKnown, Confirmed
  <2>4. ConnectedMeansRead'
    BY <1>0, <1>1 DEF RemoveStaleSlave, Confirmed, ConnectedMeansRead, TypeOK, Connections
  <2> QED
    BY <2>1, <2>2, <2>3, <2>4 DEF IInv
<1> QED
  BY <1>1

\* It takes volumes and files away.
LEMMA MasterStepInv ==
  ASSUME IInv, NEW v \in Volumes \cup {None},
         \/ RemoveStaleStorage(v)
         \/ Glob(v)
         \/ CheckFile
         \/ RemoveFile
  PROVE  IInv'
<1> USE DEF SlaveAt, SlaveTo, SlaveLeaves, Here, NotReady, StoreLeaves, MasterLeaves,
           Written, Removed, Exists, RowsOf, tableVars, auxVars, Uuids
<1>0. TypeOK /\ RowsKnown /\ Confirmed /\ ConnectedMeansRead
  BY DEF IInv
<1>1. CASE RemoveStaleStorage(v)
  <2>1. TypeOK'
    BY <1>0, <1>1, HandshakeAssumption
       DEF RemoveStaleStorage, TypeOK, RowsKnown, Connections, SlavePCs
  <2>2. RowsKnown'
    BY <1>0, <1>1, <2>1 DEF RemoveStaleStorage, TypeOK, RowsKnown, Connections
  <2>3. Confirmed'
    BY <1>0, <1>1, HandshakeAssumption DEF RemoveStaleStorage, TypeOK, RowsKnown, Confirmed
  <2>4. ConnectedMeansRead'
    BY <1>0, <1>1 DEF RemoveStaleStorage, Confirmed, ConnectedMeansRead, TypeOK, Connections
  <2> QED
    BY <2>1, <2>2, <2>3, <2>4 DEF IInv
<1>2. CASE Glob(v)
  <2>1. TypeOK'
    BY <1>0, <1>2, HandshakeAssumption
       DEF Glob, TypeOK, RowsKnown, Connections, SlavePCs
  <2>2. RowsKnown'
    BY <1>0, <1>2, <2>1 DEF Glob, TypeOK, RowsKnown, Connections
  <2>3. Confirmed'
    BY <1>0, <1>2, HandshakeAssumption DEF Glob, TypeOK, RowsKnown, Confirmed
  <2>4. ConnectedMeansRead'
    BY <1>0, <1>2 DEF Glob, Confirmed, ConnectedMeansRead, TypeOK, Connections
  <2> QED
    BY <2>1, <2>2, <2>3, <2>4 DEF IInv
<1>3. CASE CheckFile
  <2>1. TypeOK'
    BY <1>0, <1>3, HandshakeAssumption
       DEF CheckFile, TypeOK, RowsKnown, Connections, SlavePCs
  <2>2. RowsKnown'
    BY <1>0, <1>3, <2>1 DEF CheckFile, TypeOK, RowsKnown, Connections
  <2>3. Confirmed'
    BY <1>0, <1>3, HandshakeAssumption DEF CheckFile, TypeOK, RowsKnown, Confirmed
  <2>4. ConnectedMeansRead'
    BY <1>0, <1>3 DEF CheckFile, Confirmed, ConnectedMeansRead, TypeOK, Connections
  <2> QED
    BY <2>1, <2>2, <2>3, <2>4 DEF IInv
<1>4. CASE RemoveFile
  <2>1. TypeOK'
    BY <1>0, <1>4, HandshakeAssumption
       DEF RemoveFile, TypeOK, RowsKnown, Connections, SlavePCs
  <2>2. RowsKnown'
    BY <1>0, <1>4, <2>1 DEF RemoveFile, TypeOK, RowsKnown, Connections
  <2>3. Confirmed'
    BY <1>0, <1>4, HandshakeAssumption DEF RemoveFile, TypeOK, RowsKnown, Confirmed
  <2>4. ConnectedMeansRead'
    BY <1>0, <1>4 DEF RemoveFile, Confirmed, ConnectedMeansRead, TypeOK, Connections
  <2> QED
    BY <2>1, <2>2, <2>3, <2>4 DEF IInv
<1> QED
  BY <1>1, <1>2, <1>3, <1>4

\* Each step keeps the invariant.
LEMMA StepInv == IInv /\ [Next]_vars => IInv'
<1> SUFFICES ASSUME IInv, [Next]_vars PROVE IInv'
  OBVIOUS
<1>1. CASE UNCHANGED vars
  BY <1>1 DEF vars, tableVars, auxVars, IInv, TypeOK, RowsKnown, Confirmed,
              ConnectedMeansRead
<1>2. CASE \E s \in Slaves : Slave(s) \/ Crash(s)
  BY <1>2, SlaveStepInv DEF Slave
<1>3. CASE Store \/ StoreStops \/ StoreStarts
  BY <1>3, StoreStepInv DEF Store
<1>4. CASE Master
  <2>2. ASSUME NEW s \in Slaves, RemoveStaleSlave(s) PROVE IInv'
    BY <2>2, MasterRowStepInv
  <2>3. ASSUME NEW v \in Volumes, RemoveStaleStorage(v) \/ Glob(v) PROVE IInv'
    BY <2>3, MasterStepInv
  <2>4. CASE CheckFile \/ RemoveFile
    BY <2>4, MasterStepInv
  <2> QED
    BY <1>4, <2>2, <2>3, <2>4 DEF Master
<1> QED
  BY <1>1, <1>2, <1>3, <1>4 DEF Next

\* The invariant holds whatever the slaves, the storage servers and the master do.
THEOREM HandshakeInvariant == Spec => []IInv
BY InitInv, StepInv, PTL DEF Spec

\* The tables and the directory keep their types.
THEOREM HandshakeTypeCorrect == Spec => []TypeOK
<1>1. IInv => TypeOK
  BY DEF IInv
<1> QED
  BY <1>1, HandshakeInvariant, PTL

\* Connected = 1 is never set for a slave and a volume unless the storage server
\* of that volume has read that slave's file: check_nfs_connectivity compares the
\* line it reads with its own uuid, and every line was written after a read.
THEOREM ConnectedWasRead == Spec => []ConnectedMeansRead
<1>1. IInv => ConnectedMeansRead
  BY DEF IInv
<1> QED
  BY <1>1, HandshakeInvariant, PTL
----------------------------------------------------------------------------
(* What ends a slave or the master. *)

\* The auxiliary variables grow.
Lasting ==
  /\ read \subseteq read' /\ evicted \subseteq evicted' /\ used \subseteq used'
  /\ SecondVolume => SecondVolume'
  /\ servers \subseteq servers' \cup evicted'

\* Every step keeps them, and a server that is not registered any more was evicted.
LEMMA StepLasts == IInv /\ [Next]_vars => Lasting
<1> SUFFICES ASSUME IInv, [Next]_vars PROVE Lasting
  OBVIOUS
<1>1. used \subseteq used' /\ read \subseteq read' /\ evicted \subseteq evicted'
      /\ servers \subseteq servers' \cup evicted'
  BY DEF Next, Slave, Store, Master, Register, Connect, WriteTest, LookForConfirm,
     OpenConfirm, RemoveTest, RemoveConfirm, SetConnected, Crash, RegisterVolume,
     LookForTest, OpenTest, WriteConfirm, StoreStops, StoreStarts, RemoveStaleSlave,
     RemoveStaleStorage, Glob, CheckFile, RemoveFile, vars, auxVars, tableVars
<1> QED
  BY <1>1 DEF Lasting, SecondVolume

\* Once disturbed, always disturbed.
LEMMA DisturbedStays ==
  ASSUME Lasting
  PROVE  /\ \A x \in Slaves : Disturbed(x) => Disturbed(x)'
         /\ SecondVolume => SecondVolume'
         /\ evicted \subseteq evicted' /\ Registered \subseteq Registered'
BY DEF Lasting, Disturbed, Registered

\* A slave removes its own test file, and the confirmation after its own was read.
LEMMA SlaveRaisesStep ==
  ASSUME IInv, RaisesInv, Lasting, NEW s \in Slaves,
         \/ Register(s)
         \/ Connect(s)
         \/ WriteTest(s)
         \/ LookForConfirm(s)
         \/ OpenConfirm(s)
         \/ RemoveTest(s)
         \/ RemoveConfirm(s)
         \/ SetConnected(s)
         \/ Crash(s)
  PROVE  RaisesInv'
<1> USE DEF SlaveAt, SlaveTo, SlaveLeaves, Here, NotReady, StoreLeaves, MasterLeaves,
           Written, Removed, Exists, RowsOf, tableVars, auxVars, Uuids
<1>0. /\ TypeOK /\ RowsKnown /\ Confirmed
      /\ RegisteredOnly /\ FilesThere /\ SlaveRaises /\ MasterRaises
  BY DEF IInv, RaisesInv
<1>a. /\ \A x \in Slaves : Disturbed(x) => Disturbed(x)'
      /\ SecondVolume => SecondVolume'
      /\ evicted \subseteq evicted' /\ Registered \subseteq Registered'
  BY DisturbedStays
<1>1. CASE Register(s)
  <2>1. RegisteredOnly'
    BY <1>0, <1>a, <1>1, HandshakeAssumption
       DEF Register, RegisteredOnly, TypeOK, RowsKnown, Registered
  <2>2. FilesThere'
    BY <1>0, <1>a, <1>1, HandshakeAssumption
       DEF Register, FilesThere, TypeOK, RowsKnown
  <2>3. SlaveRaises'
    BY <1>0, <1>a, <1>1, HandshakeAssumption
       DEF Register, SlaveRaises, FilesThere, TypeOK
  <2>4. MasterRaises'
    BY <1>0, <1>a, <1>1, HandshakeAssumption
       DEF Register, MasterRaises, RegisteredOnly, TypeOK
  <2> QED
    BY <2>1, <2>2, <2>3, <2>4 DEF RaisesInv
<1>2. CASE Connect(s)
  <2>1. RegisteredOnly'
    BY <1>0, <1>a, <1>2, HandshakeAssumption
       DEF Connect, RegisteredOnly, TypeOK, RowsKnown, Registered
  <2>2. FilesThere'
    BY <1>0, <1>a, <1>2, HandshakeAssumption
       DEF Connect, FilesThere, TypeOK, RowsKnown
  <2>3. SlaveRaises'
    BY <1>0, <1>a, <1>2, HandshakeAssumption
       DEF Connect, SlaveRaises, FilesThere, TypeOK
  <2>4. MasterRaises'
    BY <1>0, <1>a, <1>2, HandshakeAssumption
       DEF Connect, MasterRaises, RegisteredOnly, TypeOK
  <2> QED
    BY <2>1, <2>2, <2>3, <2>4 DEF RaisesInv
<1>3. CASE WriteTest(s)
  <2>1. RegisteredOnly'
    BY <1>0, <1>a, <1>3, HandshakeAssumption
       DEF WriteTest, RegisteredOnly, TypeOK, RowsKnown, Registered
  <2>2. FilesThere'
    BY <1>0, <1>a, <1>3, HandshakeAssumption
       DEF WriteTest, FilesThere, TypeOK, RowsKnown
  <2>3. SlaveRaises'
    BY <1>0, <1>a, <1>3, HandshakeAssumption
       DEF WriteTest, SlaveRaises, FilesThere, TypeOK
  <2>4. MasterRaises'
    BY <1>0, <1>a, <1>3, HandshakeAssumption
       DEF WriteTest, MasterRaises, RegisteredOnly, TypeOK
  <2> QED
    BY <2>1, <2>2, <2>3, <2>4 DEF RaisesInv
<1>4. CASE LookForConfirm(s)
  <2>1. RegisteredOnly'
    BY <1>0, <1>a, <1>4, HandshakeAssumption
       DEF LookForConfirm, RegisteredOnly, TypeOK, RowsKnown, Registered
  <2>2. FilesThere'
    BY <1>0, <1>a, <1>4, HandshakeAssumption
       DEF LookForConfirm, FilesThere, TypeOK, RowsKnown
  <2>3. SlaveRaises'
    BY <1>0, <1>a, <1>4, HandshakeAssumption
       DEF LookForConfirm, SlaveRaises, FilesThere, TypeOK
  <2>4. MasterRaises'
    BY <1>0, <1>a, <1>4, HandshakeAssumption
       DEF LookForConfirm, MasterRaises, RegisteredOnly, TypeOK
  <2> QED
    BY <2>1, <2>2, <2>3, <2>4 DEF RaisesInv
<1>5. CASE OpenConfirm(s)
  <2>1. RegisteredOnly'
    BY <1>0, <1>a, <1>5, HandshakeAssumption
       DEF OpenConfirm, RegisteredOnly, TypeOK, RowsKnown, Registered
  <2>2. FilesThere'
    BY <1>0, <1>a, <1>5, HandshakeAssumption
       DEF OpenConfirm, FilesThere, TypeOK, RowsKnown
  <2>3. SlaveRaises'
    BY <1>0, <1>a, <1>5, HandshakeAssumption
       DEF OpenConfirm, SlaveRaises, FilesThere, TypeOK
  <2>4. MasterRaises'
    BY <1>0, <1>a, <1>5, HandshakeAssumption
       DEF OpenConfirm, MasterRaises, RegisteredOnly, TypeOK
  <2> QED
    BY <2>1, <2>2, <2>3, <2>4 DEF RaisesInv
<1>6. CASE RemoveTest(s)
  <2>1. RegisteredOnly'
    BY <1>0, <1>a, <1>6, HandshakeAssumption
       DEF RemoveTest, RegisteredOnly, TypeOK, RowsKnown, Registered
  <2>2. FilesThere'
    BY <1>0, <1>a, <1>6, HandshakeAssumption
       DEF RemoveTest, FilesThere, TypeOK, RowsKnown
  <2>3. SlaveRaises'
    BY <1>0, <1>a, <1>6, HandshakeAssumption
       DEF RemoveTest, SlaveRaises, FilesThere, TypeOK
  <2>4. MasterRaises'
    BY <1>0, <1>a, <1>6, HandshakeAssumption
       DEF RemoveTest, MasterRaises, RegisteredOnly, TypeOK
  <2> QED
    BY <2>1, <2>2, <2>3, <2>4 DEF RaisesInv
<1>7. CASE RemoveConfirm(s)
  <2>1. RegisteredOnly'
    BY <1>0, <1>a, <1>7, HandshakeAssumption
       DEF RemoveConfirm, RegisteredOnly, TypeOK, RowsKnown, Registered
  <2>2. FilesThere'
    <3>1. slave[s].at = "remove_confirm" /\ Here(s) \in Volumes
          /\ <<s, Here(s)>> \in read
      BY <1>0, <1>7 DEF RemoveConfirm, RowsKnown, Confirmed
    <3>2. \A x \in Slaves \ {s} : Disturbed(x)
      BY <3>1 DEF Disturbed
    <3>3. \A x \in Slaves \ {s} : Disturbed(x)'
      BY <1>a, <3>2
    <3>4. UNCHANGED mounted /\ slave'[s].at \in {"update", "raised"}
          /\ \A x \in Slaves \ {s} : slave'[x] = slave[x]
      BY <1>0, <1>7 DEF RemoveConfirm, TypeOK
    <3> QED
      BY <1>0, <3>3, <3>4 DEF FilesThere
  <2>3. SlaveRaises'
    BY <1>0, <1>a, <1>7, HandshakeAssumption
       DEF RemoveConfirm, SlaveRaises, FilesThere, TypeOK
  <2>4. MasterRaises'
    BY <1>0, <1>a, <1>7, HandshakeAssumption
       DEF RemoveConfirm, MasterRaises, RegisteredOnly, TypeOK
  <2> QED
    BY <2>1, <2>2, <2>3, <2>4 DEF RaisesInv
<1>8. CASE SetConnected(s)
  <2>1. RegisteredOnly'
    BY <1>0, <1>a, <1>8, HandshakeAssumption
       DEF SetConnected, RegisteredOnly, TypeOK, RowsKnown, Registered
  <2>2. FilesThere'
    BY <1>0, <1>a, <1>8, HandshakeAssumption
       DEF SetConnected, FilesThere, TypeOK, RowsKnown
  <2>3. SlaveRaises'
    BY <1>0, <1>a, <1>8, HandshakeAssumption
       DEF SetConnected, SlaveRaises, FilesThere, TypeOK
  <2>4. MasterRaises'
    BY <1>0, <1>a, <1>8, HandshakeAssumption
       DEF SetConnected, MasterRaises, RegisteredOnly, TypeOK
  <2> QED
    BY <2>1, <2>2, <2>3, <2>4 DEF RaisesInv
<1>9. CASE Crash(s)
  <2>1. RegisteredOnly'
    BY <1>0, <1>a, <1>9, HandshakeAssumption
       DEF Crash, RegisteredOnly, TypeOK, RowsKnown, Registered
  <2>2. FilesThere'
    BY <1>0, <1>a, <1>9, HandshakeAssumption
       DEF Crash, FilesThere, TypeOK, RowsKnown
  <2>3. SlaveRaises'
    BY <1>0, <1>a, <1>9, HandshakeAssumption
       DEF Crash, SlaveRaises, FilesThere, TypeOK
  <2>4. MasterRaises'
    BY <1>0, <1>a, <1>9, HandshakeAssumption
       DEF Crash, MasterRaises, RegisteredOnly, TypeOK
  <2> QED
    BY <2>1, <2>2, <2>3, <2>4 DEF RaisesInv
<1> QED
  BY <1>1, <1>2, <1>3, <1>4, <1>5, <1>6, <1>7, <1>8, <1>9

\* The storage server removes nothing.
LEMMA StoreRaisesStep ==
  ASSUME IInv, RaisesInv, Lasting,
         \/ RegisterVolume
         \/ LookForTest
         \/ OpenTest
         \/ WriteConfirm
         \/ StoreStops
         \/ StoreStarts
  PROVE  RaisesInv'
<1> USE DEF SlaveAt, SlaveTo, SlaveLeaves, Here, NotReady, StoreLeaves, MasterLeaves,
           Written, Removed, Exists, RowsOf, tableVars, auxVars, Uuids
<1>0. /\ TypeOK /\ RowsKnown /\ Confirmed
      /\ RegisteredOnly /\ FilesThere /\ SlaveRaises /\ MasterRaises
  BY DEF IInv, RaisesInv
<1>a. /\ \A x \in Slaves : Disturbed(x) => Disturbed(x)'
      /\ SecondVolume => SecondVolume'
      /\ evicted \subseteq evicted' /\ Registered \subseteq Registered'
  BY DisturbedStays
<1>1. CASE RegisterVolume
  <2>1. RegisteredOnly'
    BY <1>0, <1>a, <1>1, HandshakeAssumption
       DEF RegisterVolume, RegisteredOnly, TypeOK, RowsKnown, Registered
  <2>2. FilesThere'
    BY <1>0, <1>a, <1>1, HandshakeAssumption
       DEF RegisterVolume, FilesThere, TypeOK, RowsKnown
  <2>3. SlaveRaises'
    BY <1>0, <1>a, <1>1, HandshakeAssumption
       DEF RegisterVolume, SlaveRaises, FilesThere, TypeOK
  <2>4. MasterRaises'
    BY <1>0, <1>a, <1>1, HandshakeAssumption
       DEF RegisterVolume, MasterRaises, RegisteredOnly, TypeOK
  <2> QED
    BY <2>1, <2>2, <2>3, <2>4 DEF RaisesInv
<1>2. CASE LookForTest
  <2>1. RegisteredOnly'
    BY <1>0, <1>a, <1>2, HandshakeAssumption
       DEF LookForTest, RegisteredOnly, TypeOK, RowsKnown, Registered
  <2>2. FilesThere'
    BY <1>0, <1>a, <1>2, HandshakeAssumption
       DEF LookForTest, FilesThere, TypeOK, RowsKnown
  <2>3. SlaveRaises'
    BY <1>0, <1>a, <1>2, HandshakeAssumption
       DEF LookForTest, SlaveRaises, FilesThere, TypeOK
  <2>4. MasterRaises'
    BY <1>0, <1>a, <1>2, HandshakeAssumption
       DEF LookForTest, MasterRaises, RegisteredOnly, TypeOK
  <2> QED
    BY <2>1, <2>2, <2>3, <2>4 DEF RaisesInv
<1>3. CASE OpenTest
  <2>1. RegisteredOnly'
    BY <1>0, <1>a, <1>3, HandshakeAssumption
       DEF OpenTest, RegisteredOnly, TypeOK, RowsKnown, Registered
  <2>2. FilesThere'
    BY <1>0, <1>a, <1>3, HandshakeAssumption
       DEF OpenTest, FilesThere, TypeOK, RowsKnown
  <2>3. SlaveRaises'
    BY <1>0, <1>a, <1>3, HandshakeAssumption
       DEF OpenTest, SlaveRaises, FilesThere, TypeOK
  <2>4. MasterRaises'
    BY <1>0, <1>a, <1>3, HandshakeAssumption
       DEF OpenTest, MasterRaises, RegisteredOnly, TypeOK
  <2> QED
    BY <2>1, <2>2, <2>3, <2>4 DEF RaisesInv
<1>4. CASE WriteConfirm
  <2>1. RegisteredOnly'
    BY <1>0, <1>a, <1>4, HandshakeAssumption
       DEF WriteConfirm, RegisteredOnly, TypeOK, RowsKnown, Registered
  <2>2. FilesThere'
    BY <1>0, <1>a, <1>4, HandshakeAssumption
       DEF WriteConfirm, FilesThere, TypeOK, RowsKnown
  <2>3. SlaveRaises'
    BY <1>0, <1>a, <1>4, HandshakeAssumption
       DEF WriteConfirm, SlaveRaises, FilesThere, TypeOK
  <2>4. MasterRaises'
    BY <1>0, <1>a, <1>4, HandshakeAssumption
       DEF WriteConfirm, MasterRaises, RegisteredOnly, TypeOK
  <2> QED
    BY <2>1, <2>2, <2>3, <2>4 DEF RaisesInv
<1>5. CASE StoreStops
  <2>1. RegisteredOnly'
    BY <1>0, <1>a, <1>5, HandshakeAssumption
       DEF StoreStops, RegisteredOnly, TypeOK, RowsKnown, Registered
  <2>2. FilesThere'
    BY <1>0, <1>a, <1>5, HandshakeAssumption
       DEF StoreStops, FilesThere, TypeOK, RowsKnown
  <2>3. SlaveRaises'
    BY <1>0, <1>a, <1>5, HandshakeAssumption
       DEF StoreStops, SlaveRaises, FilesThere, TypeOK
  <2>4. MasterRaises'
    BY <1>0, <1>a, <1>5, HandshakeAssumption
       DEF StoreStops, MasterRaises, RegisteredOnly, TypeOK
  <2> QED
    BY <2>1, <2>2, <2>3, <2>4 DEF RaisesInv
<1>6. CASE StoreStarts
  <2>1. RegisteredOnly'
    BY <1>0, <1>a, <1>6, HandshakeAssumption
       DEF StoreStarts, RegisteredOnly, TypeOK, RowsKnown, Registered
  <2>2. FilesThere'
    BY <1>0, <1>a, <1>6, HandshakeAssumption
       DEF StoreStarts, FilesThere, TypeOK, RowsKnown
  <2>3. SlaveRaises'
    BY <1>0, <1>a, <1>6, HandshakeAssumption
       DEF StoreStarts, SlaveRaises, FilesThere, TypeOK
  <2>4. MasterRaises'
    BY <1>0, <1>a, <1>6, HandshakeAssumption
       DEF StoreStarts, MasterRaises, RegisteredOnly, TypeOK
  <2> QED
    BY <2>1, <2>2, <2>3, <2>4 DEF RaisesInv
<1> QED
  BY <1>1, <1>2, <1>3, <1>4, <1>5, <1>6

\* The master evicts a slave.
LEMMA MasterRowRaisesStep ==
  ASSUME IInv, RaisesInv, Lasting, NEW s \in Slaves,
         \/ RemoveStaleSlave(s)
  PROVE  RaisesInv'
<1> USE DEF SlaveAt, SlaveTo, SlaveLeaves, Here, NotReady, StoreLeaves, MasterLeaves,
           Written, Removed, Exists, RowsOf, tableVars, auxVars, Uuids
<1>0. /\ TypeOK /\ RowsKnown /\ Confirmed
      /\ RegisteredOnly /\ FilesThere /\ SlaveRaises /\ MasterRaises
  BY DEF IInv, RaisesInv
<1>a. /\ \A x \in Slaves : Disturbed(x) => Disturbed(x)'
      /\ SecondVolume => SecondVolume'
      /\ evicted \subseteq evicted' /\ Registered \subseteq Registered'
  BY DisturbedStays
<1>1. CASE RemoveStaleSlave(s)
  <2>1. RegisteredOnly'
    BY <1>0, <1>a, <1>1, HandshakeAssumption
       DEF RemoveStaleSlave, RegisteredOnly, TypeOK, RowsKnown, Registered
  <2>2. FilesThere'
    BY <1>0, <1>a, <1>1, HandshakeAssumption
       DEF RemoveStaleSlave, FilesThere, TypeOK, RowsKnown
  <2>3. SlaveRaises'
    BY <1>0, <1>a, <1>1, HandshakeAssumption
       DEF RemoveStaleSlave, SlaveRaises, FilesThere, TypeOK
  <2>4. MasterRaises'
    BY <1>0, <1>a, <1>1, HandshakeAssumption
       DEF RemoveStaleSlave, MasterRaises, RegisteredOnly, TypeOK
  <2> QED
    BY <2>1, <2>2, <2>3, <2>4 DEF RaisesInv
<1> QED
  BY <1>1

\* It removes files of slaves it has evicted, or of one volume of several.
LEMMA MasterRaisesStep ==
  ASSUME IInv, RaisesInv, Lasting, NEW v \in Volumes \cup {None},
         \/ RemoveStaleStorage(v)
         \/ Glob(v)
         \/ CheckFile
         \/ RemoveFile
  PROVE  RaisesInv'
<1> USE DEF SlaveAt, SlaveTo, SlaveLeaves, Here, NotReady, StoreLeaves, MasterLeaves,
           Written, Removed, Exists, RowsOf, tableVars, auxVars, Uuids
<1>0. /\ TypeOK /\ RowsKnown /\ Confirmed
      /\ RegisteredOnly /\ FilesThere /\ SlaveRaises /\ MasterRaises
  BY DEF IInv, RaisesInv
<1>a. /\ \A x \in Slaves : Disturbed(x) => Disturbed(x)'
      /\ SecondVolume => SecondVolume'
      /\ evicted \subseteq evicted' /\ Registered \subseteq Registered'
  BY DisturbedStays
<1>1. CASE RemoveStaleStorage(v)
  <2>1. RegisteredOnly'
    BY <1>0, <1>a, <1>1, HandshakeAssumption
       DEF RemoveStaleStorage, RegisteredOnly, TypeOK, RowsKnown, Registered
  <2>2. FilesThere'
    BY <1>0, <1>a, <1>1, HandshakeAssumption
       DEF RemoveStaleStorage, FilesThere, TypeOK, RowsKnown
  <2>3. SlaveRaises'
    BY <1>0, <1>a, <1>1, HandshakeAssumption
       DEF RemoveStaleStorage, SlaveRaises, FilesThere, TypeOK
  <2>4. MasterRaises'
    BY <1>0, <1>a, <1>1, HandshakeAssumption
       DEF RemoveStaleStorage, MasterRaises, RegisteredOnly, TypeOK
  <2> QED
    BY <2>1, <2>2, <2>3, <2>4 DEF RaisesInv
<1>2. CASE Glob(v)
  <2>1. RegisteredOnly'
    BY <1>0, <1>a, <1>2, HandshakeAssumption
       DEF Glob, RegisteredOnly, TypeOK, RowsKnown, Registered
  <2>2. FilesThere'
    BY <1>0, <1>a, <1>2, HandshakeAssumption
       DEF Glob, FilesThere, TypeOK, RowsKnown
  <2>3. SlaveRaises'
    BY <1>0, <1>a, <1>2, HandshakeAssumption
       DEF Glob, SlaveRaises, FilesThere, TypeOK
  <2>4. MasterRaises'
    BY <1>0, <1>a, <1>2, HandshakeAssumption
       DEF Glob, MasterRaises, RegisteredOnly, TypeOK
  <2> QED
    BY <2>1, <2>2, <2>3, <2>4 DEF RaisesInv
<1>3. CASE CheckFile
  <2>1. RegisteredOnly'
    <3>1. UNCHANGED <<tableVars, file, slave, used, evicted, store>>
          /\ master.row \in Registered /\ master.volume \in used
          /\ used \subseteq Volumes
      BY <1>0, <1>3 DEF CheckFile, RegisteredOnly, TypeOK
    <3>2. CASE Orphan(master.row)
      <4>1. master.row \in evicted \/ SecondVolume
        BY <3>1, <3>2 DEF Orphan, Registered, SecondVolume
      <4>2. master' = [master EXCEPT !.at = "remove"]
        BY <1>3, <3>2 DEF CheckFile
      <4>3. master'.row = master.row /\ master'.volume = master.volume
        BY <1>0, <4>2 DEF TypeOK
      <4> QED
        BY <1>0, <1>a, <3>1, <4>1, <4>3 DEF RegisteredOnly, Registered
    <3>3. CASE ~Orphan(master.row)
      <4>1. master'.at = "idle"
        BY <1>3, <3>3 DEF CheckFile
      <4> QED
        BY <1>0, <1>a, <3>1, <4>1 DEF RegisteredOnly, Registered
    <3> QED
      BY <3>2, <3>3
  <2>2. FilesThere'
    BY <1>0, <1>a, <1>3, HandshakeAssumption
       DEF CheckFile, FilesThere, TypeOK, RowsKnown
  <2>3. SlaveRaises'
    BY <1>0, <1>a, <1>3, HandshakeAssumption
       DEF CheckFile, SlaveRaises, FilesThere, TypeOK
  <2>4. MasterRaises'
    BY <1>0, <1>a, <1>3, HandshakeAssumption
       DEF CheckFile, MasterRaises, RegisteredOnly, TypeOK
  <2> QED
    BY <2>1, <2>2, <2>3, <2>4 DEF RaisesInv
<1>4. CASE RemoveFile
  <2>1. RegisteredOnly'
    BY <1>0, <1>a, <1>4, HandshakeAssumption
       DEF RemoveFile, RegisteredOnly, TypeOK, RowsKnown, Registered
  <2>2. FilesThere'
    <3>1. UNCHANGED <<slave, mounted>> /\ file' = [file EXCEPT ![master.row] = None]
          /\ (master.row \in evicted \/ SecondVolume)
      BY <1>0, <1>4 DEF RemoveFile, RegisteredOnly
    <3>2. \A x \in Slaves : x = master.row => Disturbed(x)
      BY <3>1 DEF Disturbed
    <3>3. \A x \in Slaves :
            slave[x].at \in {"open", "remove_test", "remove_confirm"}
            /\ slave[x].row = master.row => Disturbed(x)
      BY <1>0, <3>1, HandshakeAssumption DEF RowsKnown, TypeOK, Disturbed
    <3>4. \A u \in Uuids : u # master.row => file'[u] = file[u]
      BY <1>0, <3>1 DEF TypeOK
    <3>5. \A x \in Slaves :
            slave[x].at \in {"open", "remove_test", "remove_confirm"}
            => Exists(slave[x].row)' \/ Disturbed(x)'
      BY <1>0, <1>a, <3>1, <3>3, <3>4 DEF FilesThere, RowsKnown
    <3>6. \A x \in Slaves :
            slave[x].at \in {"exists", "open", "remove_test"} /\ x \in mounted
            => Exists(x)' \/ Disturbed(x)'
      BY <1>0, <1>a, <3>1, <3>2, <3>4 DEF FilesThere
    <3> QED
      BY <1>0, <3>1, <3>5, <3>6 DEF FilesThere
  <2>3. SlaveRaises'
    BY <1>0, <1>a, <1>4, HandshakeAssumption
       DEF RemoveFile, SlaveRaises, FilesThere, TypeOK
  <2>4. MasterRaises'
    BY <1>0, <1>a, <1>4, HandshakeAssumption
       DEF RemoveFile, MasterRaises, RegisteredOnly, TypeOK
  <2> QED
    BY <2>1, <2>2, <2>3, <2>4 DEF RaisesInv
<1> QED
  BY <1>1, <1>2, <1>3, <1>4

\* Every step keeps the reasons there are for an error.
LEMMA RaisesStep == IInv /\ RaisesInv /\ [Next]_vars => RaisesInv'
<1> SUFFICES ASSUME IInv, RaisesInv, [Next]_vars PROVE RaisesInv'
  OBVIOUS
<1>0. Lasting
  BY StepLasts
<1>1. CASE UNCHANGED vars
  BY <1>1 DEF vars, tableVars, auxVars, RaisesInv, RegisteredOnly, FilesThere,
              SlaveRaises, MasterRaises, Registered, Disturbed, SecondVolume, Exists
<1>2. CASE \E s \in Slaves : Slave(s) \/ Crash(s)
  BY <1>0, <1>2, SlaveRaisesStep DEF Slave
<1>3. CASE Store \/ StoreStops \/ StoreStarts
  BY <1>0, <1>3, StoreRaisesStep DEF Store
<1>4. CASE Master
  <2>2. ASSUME NEW s \in Slaves, RemoveStaleSlave(s) PROVE RaisesInv'
    BY <1>0, <2>2, MasterRowRaisesStep
  <2>3. ASSUME NEW v \in Volumes, RemoveStaleStorage(v) \/ Glob(v) PROVE RaisesInv'
    BY <1>0, <2>3, MasterRaisesStep
  <2>4. CASE CheckFile \/ RemoveFile
    BY <1>0, <2>4, MasterRaisesStep
  <2> QED
    BY <1>4, <2>2, <2>3, <2>4 DEF Master
<1> QED
  BY <1>1, <1>2, <1>3, <1>4 DEF Next

\* At the start nobody has failed.
LEMMA RaisesInit == Init => RaisesInv
BY DEF Init, RaisesInv, RegisteredOnly, FilesThere, SlaveRaises, MasterRaises,
       Registered, Uuids

\* What has been registered, and the files that are there.
THEOREM RaisesInvariant == Spec => []RaisesInv
<1>1. Init => IInv /\ RaisesInv
  BY InitInv, RaisesInit
<1>2. IInv /\ RaisesInv /\ [Next]_vars => IInv' /\ RaisesInv'
  BY StepInv, RaisesStep
<1> QED
  BY <1>1, <1>2, PTL DEF Spec

\* A slave that keeps its heartbeat, alone at the only volume of the directory,
\* never meets a missing file in its handshake: os.remove and open raise only when
\* another slave, a second volume or an eviction has intervened.
THEOREM SlaveRaisesOnlyIfDisturbed == Spec => []SlaveRaises
<1>1. RaisesInv => SlaveRaises
  BY DEF RaisesInv
<1> QED
  BY <1>1, RaisesInvariant, PTL

\* os.remove of the master raises only for a slave that it had removed from
\* Servers, or beside a second volume.
THEOREM MasterRaisesOnlyIf == Spec => []MasterRaises
<1>1. RaisesInv => MasterRaises
  BY DEF RaisesInv
<1> QED
  BY <1>1, RaisesInvariant, PTL
=============================================================================
