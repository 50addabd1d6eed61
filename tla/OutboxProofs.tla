---------------------------- MODULE OutboxProofs ----------------------------
(***************************************************************************)
(* Proofs about Outbox, for every number of rows and restarts and every    *)
(* set of channels and turns.  IInv is inductive; the safety properties of *)
(* Outbox follow from it.                                                  *)
(***************************************************************************)
EXTENDS Outbox, TLAPS

States  == {"absent"} \cup Open \cup Settled
Records == {"none", "queued", "uncertain", "delivered", "failed"}

\* MessageState and Sync only yield values the column can hold.
LEMMA RecordTyped ==
  ASSUME NEW s, NEW d, NEW rec \in Records
  PROVE  MessageState(s, d) \in Records /\ Sync(rec, s, d) \in Records
  BY DEF MessageState, Sync, Records

\* The empty tables satisfy the invariant.
LEMMA InitKeeps == Init => IInv
<1> SUFFICES ASSUME Init PROVE IInv
  OBVIOUS
<1> USE BoundAssumption DEF Init
<1>1. TypeOK
  BY ChannelAssumption DEF TypeOK, Row, Open, Waiting, Settled
<1>2. RowsInOrder /\ CopiesCounted
  BY DEF RowsInOrder, CopiesCounted, Row, OnWire, Waiting
<1>3. WorkerHolds /\ WorkerHoldsHeads
  BY DEF WorkerHolds, WorkerHoldsHeads
<1>4. ClipSentOnce /\ DuplicatesMarked /\ RecordAgrees
  <2>1. DuplicatesMarked /\ RecordAgrees
    BY DEF DuplicatesMarked, RecordAgrees, Open, Waiting
  <2>2. ClipSentOnce
    BY NilAssumption DEF ClipSentOnce, IsVideo, AllKinds
  <2> QED
    BY <2>1, <2>2
<1> QED
  BY <1>1, <1>2, <1>3, <1>4 DEF IInv

-----------------------------------------------------------------------------
(***************************************************************************)
(* Inserting a row.                                                        *)
(***************************************************************************)
LEMMA InsertKeeps ==
  ASSUME IInv,
         NEW t \in Turns, NEW c \in Channels, NEW k \in AllKinds,
         k = "video" => t \notin HeartbeatTurns,
         NEW rec \in [Row -> Records],
         \A q \in Row : rec[q] # "none" => q <= last /\ Agrees(q, rec[q], state[q], dup[q]),
         committed' \subseteq Turns, ended' \subseteq HeartbeatTurns,
         asking' \subseteq HeartbeatTurns,
         Insert(c, k, t, rec),
         UNCHANGED <<cooling, configured, workerVars, notices, restarts, historyVars>>
  PROVE  IInv'
<1> DEFINE n == last + 1
<1>a. TypeOK /\ RowsInOrder
  BY DEF IInv
<1>b. last \in 0 .. MaxRows /\ last < MaxRows
  BY <1>a DEF TypeOK, Insert
<1>c. n \in Row /\ n > last
  BY <1>b, BoundAssumption DEF Row
<1> USE DEF Insert, workerVars, historyVars
<1>0. /\ TypeOK /\ n \in Row /\ state[n] = "absent"
      /\ \A q \in Row : q # n => /\ state'[q] = state[q] /\ bubble'[q] = bubble[q]
                                 /\ record'[q] = rec[q]
      /\ state'[n] = "pending" /\ record'[n] \in {"none", "queued"}
      /\ bubble'[n] = [channel |-> c, kind |-> k, turn |-> t]
  <2>2. state[n] = "absent"
    BY <1>a, <1>c DEF RowsInOrder, TypeOK
  <2>3. record'[n] \in {"none", "queued"} /\ \A q \in Row : q # n => record'[q] = rec[q]
    BY <1>c
  <2>4. bubble'[n] = [channel |-> c, kind |-> k, turn |-> t]
        /\ \A q \in Row : q # n => bubble'[q] = bubble[q]
    BY <1>a, <1>c DEF TypeOK
  <2>5. state'[n] = "pending" /\ \A q \in Row : q # n => state'[q] = state[q]
    BY <1>a, <1>c DEF TypeOK
  <2> QED
    BY <1>a, <1>c, <2>2, <2>3, <2>4, <2>5
<1>1. TypeOK'
  <2>1. record' \in [Row -> Records]
    BY <1>0 DEF Records
  <2>2. state' \in [Row -> States]
    BY <1>0 DEF TypeOK, States, Open, Waiting
  <2>3. bubble' \in [Row -> [channel : Channels \cup {Nil}, kind : AllKinds \cup {Nil},
                             turn : Turns \cup {Nil}]]
    BY <1>0 DEF TypeOK
  <2>4. last' \in 0 .. MaxRows
    BY <1>0, BoundAssumption DEF TypeOK, Row
  <2> QED
    BY <1>0, <2>1, <2>2, <2>3, <2>4 DEF TypeOK, Records, States
<1>2. RowsInOrder'
  BY <1>0 DEF IInv, RowsInOrder, Row, TypeOK
<1>3. n \notin batch
  BY <1>0 DEF IInv, WorkerHolds, Waiting
<1>4. WorkerHolds'
  BY <1>0, <1>3 DEF IInv, TypeOK, WorkerHolds, AtHead, OnWire
<1>5. WorkerHoldsHeads'
  <2> SUFFICES ASSUME NEW r \in batch', NEW e \in Row, ChannelOf(e)' = ChannelOf(r)', e # r
               PROVE  e \notin batch' /\ (e < r => ~InTheWay(e, state)')
    BY DEF WorkerHoldsHeads
  <2>1. r \in Row /\ r # n /\ r < n /\ ChannelOf(r)' = ChannelOf(r)
    BY <1>0, <1>3 DEF IInv, TypeOK, ChannelOf, WorkerHolds, RowsInOrder, Row, Waiting
  <2>2. CASE e = n
    BY <1>0, <1>3, <2>1, <2>2 DEF Row, TypeOK
  <2>3. CASE e # n
    BY <1>0, <2>1, <2>3 DEF IInv, WorkerHoldsHeads, ChannelOf, InTheWay, UncertainVideo, IsVideo
  <2> QED
    BY <2>2, <2>3
<1>6. CopiesCounted'
  BY <1>0 DEF IInv, TypeOK, CopiesCounted, RowsInOrder, OnWire, Waiting, Row
<1>7. ClipSentOnce'
  BY <1>0, <1>3 DEF IInv, ClipSentOnce, IsVideo, OnWire, RowsInOrder, Row, TypeOK
<1>8. DuplicatesMarked'
  BY <1>0, <1>3 DEF IInv, DuplicatesMarked, ChannelOf, RowsInOrder, Row, TypeOK
<1>9. RecordAgrees'
  <2>1. ~dup[n] /\ \A q \in Row : q # n => dup'[q] = dup[q]
    BY <1>a, <1>c DEF RowsInOrder
  <2>2. record'[n] # "none" => record'[n] = MessageState(state'[n], dup'[n])
    BY <1>0, <2>1 DEF MessageState
  <2>3. ASSUME NEW q \in Row, q # n, record'[q] # "none"
        PROVE  Agrees(q, record[q], state[q], dup[q])'
    BY <1>0, <2>1, <2>3 DEF Agrees, Lags, MessageState
  <2> QED
    BY <2>2, <2>3 DEF RecordAgrees, Agrees, MessageState
<1> QED
  BY <1>1, <1>2, <1>4, <1>5, <1>6, <1>7, <1>8, <1>9 DEF IInv

\* Archiving rows of a turn writes messages only for rows that exist, and as their state
\* says.
LEMMA ArchivedAgrees ==
  ASSUME IInv, NEW t \in Turns, NEW rs \in SUBSET TurnRows(t)
  PROVE  /\ Archived(rs) \in [Row -> Records]
         /\ \A q \in Row : Archived(rs)[q] # "none" =>
              q <= last /\ Agrees(q, Archived(rs)[q], state[q], dup[q])
<1>1. TypeOK /\ RowsInOrder /\ RecordAgrees
  BY DEF IInv
<1>2. ASSUME NEW q \in Row, q > last PROVE q \notin rs /\ record[q] = "none"
  BY <1>1, <1>2, NilAssumption DEF RowsInOrder, TurnRows
<1>3. ASSUME NEW q \in Row PROVE Archived(rs)[q] \in Records
  BY <1>1, RecordTyped DEF Archived, TypeOK, Records
<1>4. ASSUME NEW q \in Row, Archived(rs)[q] # "none"
      PROVE  q <= last /\ Agrees(q, Archived(rs)[q], state[q], dup[q])
  <2>1. q <= last
    BY <1>1, <1>2, <1>4, BoundAssumption DEF Archived, Row, TypeOK
  <2>2. Agrees(q, Archived(rs)[q], state[q], dup[q])
    BY <1>1, <1>4 DEF Archived, RecordAgrees, Agrees
  <2> QED
    BY <2>1, <2>2
<1>5. Archived(rs) \in [Row -> Records]
  BY <1>3 DEF Archived
<1> QED
  BY <1>4, <1>5

\* A turn's progress rows are among its rows.
LEMMA ProgressOfTurn == \A t : ProgressRows(t) \subseteq TurnRows(t)
  BY DEF ProgressRows

\* A commit that inserts no row: only the dialogue is written.
LEMMA CommitKeeps ==
  ASSUME IInv, NEW t \in Turns, NEW rs \in SUBSET TurnRows(t),
         record' = Archived(rs),
         committed' \subseteq Turns, ended' \subseteq HeartbeatTurns,
         asking' \subseteq HeartbeatTurns,
         UNCHANGED <<last, bubble, state, attempts, dup, mediaError>>,
         UNCHANGED <<cooling, configured, workerVars, notices, restarts, historyVars>>
  PROVE  IInv'
<1> USE DEF workerVars, historyVars
<1>0. TypeOK /\ RowsInOrder /\ record' \in [Row -> Records]
      /\ \A q \in Row : record'[q] # "none" => q <= last /\ Agrees(q, record'[q], state[q], dup[q])
  BY ArchivedAgrees DEF IInv
<1>1. TypeOK'
  BY <1>0 DEF TypeOK, Records
<1>2. RowsInOrder'
  BY <1>0, BoundAssumption DEF RowsInOrder, Row, TypeOK
<1>3. RecordAgrees'
  BY <1>0 DEF RecordAgrees, Agrees, Lags, MessageState
<1>4. WorkerHolds' /\ WorkerHoldsHeads' /\ CopiesCounted' /\ ClipSentOnce' /\ DuplicatesMarked'
  BY DEF IInv, WorkerHolds, WorkerHoldsHeads, CopiesCounted, ClipSentOnce, DuplicatesMarked,
         AtHead, OnWire, ChannelOf, InTheWay, UncertainVideo, IsVideo
<1> QED
  BY <1>1, <1>2, <1>3, <1>4 DEF IInv

\* A heartbeat that ends without a commit changes which rows are contacts, and no more.
LEMMA EndHeartbeatKeeps ==
  ASSUME IInv, NEW t \in Turns, EndHeartbeat(t) PROVE IInv'
<1> USE DEF EndHeartbeat, workerVars, historyVars
<1>1. TypeOK'
  BY DEF IInv, TypeOK
<1>2. RowsInOrder' /\ RecordAgrees'
  BY DEF IInv, RowsInOrder, RecordAgrees, Agrees, Lags, MessageState
<1>3. WorkerHolds' /\ WorkerHoldsHeads' /\ CopiesCounted' /\ ClipSentOnce' /\ DuplicatesMarked'
  BY DEF IInv, WorkerHolds, WorkerHoldsHeads, CopiesCounted, ClipSentOnce, DuplicatesMarked,
         AtHead, OnWire, ChannelOf, InTheWay, UncertainVideo, IsVideo
<1> QED
  BY <1>1, <1>2, <1>3 DEF IInv

\* Turns that queue bubbles or write the record keep the invariant.
LEMMA SpeakKeeps == IInv /\ Speak => IInv'
<1> SUFFICES ASSUME IInv, Speak PROVE IInv'
  OBVIOUS
<1>0. /\ record \in [Row -> Records]
      /\ \A q \in Row : record[q] # "none" => q <= last /\ Agrees(q, record[q], state[q], dup[q])
      /\ committed \subseteq Turns /\ ended \subseteq HeartbeatTurns
      /\ asking \subseteq HeartbeatTurns
  BY BoundAssumption DEF IInv, TypeOK, RecordAgrees, RowsInOrder, Records, Row
<1>1. ASSUME NEW t \in Turns, NEW c \in Channels, NEW k \in Kinds, QueueProgress(t, c, k) PROVE IInv'
  BY <1>0, <1>1, InsertKeeps, KindAssumption DEF QueueProgress
<1>2. ASSUME NEW t \in Turns, NEW c \in Channels, NEW k \in Kinds, CommitTurnWith(t, c, k) PROVE IInv'
  BY <1>0, <1>2, InsertKeeps, ArchivedAgrees, ProgressOfTurn, KindAssumption DEF CommitTurnWith
<1>3. ASSUME NEW t \in Turns, NEW c \in Channels, NEW k \in Kinds, QueueNotification(t, c, k) PROVE IInv'
  BY <1>0, <1>3, InsertKeeps, KindAssumption DEF QueueNotification
<1>4. ASSUME NEW t \in Turns, NEW c \in Channels, QueueVideo(t, c) PROVE IInv'
  BY <1>0, <1>4, InsertKeeps, TurnAssumption DEF QueueVideo, AllKinds
<1>5. ASSUME NEW t \in Turns, AskReconciliation(t) PROVE IInv'
  BY <1>0, <1>5, CommitKeeps DEF AskReconciliation
<1>6. ASSUME NEW t \in Turns, CommitTurn(t) PROVE IInv'
  BY <1>0, <1>6, CommitKeeps, ProgressOfTurn DEF CommitTurn
<1> QED
  BY <1>1, <1>2, <1>3, <1>4, <1>5, <1>6, EndHeartbeatKeeps DEF Speak

-----------------------------------------------------------------------------
(***************************************************************************)
(* Withdrawing rows.                                                       *)
(***************************************************************************)
LEMMA WithdrawKeeps ==
  ASSUME IInv, Yielded,
         NEW st2 \in [Row -> States], NEW rec2 \in [Row -> Records],
         \A q \in Row : \/ st2[q] = state[q]
                        \/ /\ state[q] \in Waiting /\ st2[q] = "superseded"
                           /\ ChannelOf(q) \in configured \/ IsContact(q),
         \A q \in Row : rec2[q] # "none" => record[q] # "none" /\ Agrees(q, rec2[q], st2[q], dup[q]),
         Withdraw(st2, rec2)
  PROVE  IInv'
<1> USE DEF Withdraw, workerVars, historyVars
<1>0. TypeOK /\ RowsInOrder
  BY DEF IInv
<1>1. TypeOK'
  BY <1>0 DEF TypeOK, Records, States
<1>2. RowsInOrder'
  BY <1>0 DEF RowsInOrder, Waiting
<1>3. WorkerHolds'
  <2>1. \A q \in Row : /\ state'[q] = "sending" <=> state[q] = "sending"
                       /\ state'[q] \in {state[q], "superseded"}
    BY DEF Waiting
  <2>2. \A q \in Row : OnWire(q)' = OnWire(q) /\ (AtHead(q)' <=> AtHead(q))
    BY <2>1 DEF OnWire, AtHead
  <2> QED
    BY <1>0, <2>1, <2>2 DEF IInv, WorkerHolds, TypeOK
<1>4. WorkerHoldsHeads'
  BY DEF IInv, WorkerHoldsHeads, ChannelOf, InTheWay, UncertainVideo, IsVideo, Waiting, Open
<1>5. CopiesCounted'
  BY <1>0 DEF IInv, CopiesCounted, OnWire, Waiting
<1>6. ClipSentOnce'
  BY DEF IInv, ClipSentOnce, IsVideo, OnWire, Waiting
<1>7. DuplicatesMarked'
  BY DEF IInv, DuplicatesMarked, ChannelOf, IsContact, Waiting, Open
<1>8. RecordAgrees'
  BY DEF RecordAgrees, Agrees, Lags, MessageState
<1> QED
  BY <1>1, <1>2, <1>3, <1>4, <1>5, <1>6, <1>7, <1>8 DEF IInv

\* Every cancellation of a configured channel's rows is such a withdrawal.
LEMMA CancelFits ==
  ASSUME IInv, NEW st \in [Row -> States], NEW rec \in [Row -> Records], NEW rs,
         \A q \in Row : rec[q] # "none" => Agrees(q, rec[q], st[q], dup[q])
  PROVE  /\ CancelState(st, rs) \in [Row -> States]
         /\ CancelRecord(st, rec, rs) \in [Row -> Records]
         /\ \A q \in Row : CancelState(st, rs)[q] = st[q]
              \/ (q \in rs /\ st[q] \in Waiting /\ CancelState(st, rs)[q] = "superseded")
         /\ \A q \in Row : CancelRecord(st, rec, rs)[q] # "none" =>
              rec[q] # "none" /\ Agrees(q, CancelRecord(st, rec, rs)[q], CancelState(st, rs)[q], dup[q])
<1>1. CancelState(st, rs) \in [Row -> States]
  BY DEF CancelState, States, Settled
<1>2. CancelRecord(st, rec, rs) \in [Row -> Records]
  <2>1. \A q \in Row : Sync(rec[q], "superseded", dup[q]) \in Records
    BY RecordTyped
  <2> QED
    BY <2>1 DEF CancelRecord
<1>3. ASSUME NEW q \in Row
      PROVE  /\ CancelState(st, rs)[q] = st[q]
                  \/ (q \in rs /\ st[q] \in Waiting /\ CancelState(st, rs)[q] = "superseded")
             /\ CancelRecord(st, rec, rs)[q] # "none" =>
                  rec[q] # "none" /\ Agrees(q, CancelRecord(st, rec, rs)[q], CancelState(st, rs)[q], dup[q])
  <2>1. CASE q \in rs /\ st[q] \in Waiting
    BY <2>1 DEF CancelState, CancelRecord, Sync, Agrees
  <2>2. CASE ~(q \in rs /\ st[q] \in Waiting)
    BY <2>2 DEF CancelState, CancelRecord
  <2> QED
    BY <2>1, <2>2
<1> QED
  BY <1>1, <1>2, <1>3

\* Superseding contacts leaves states and records in agreement.
LEMMA SupersedeFits ==
  ASSUME IInv, NEW st \in [Row -> States], NEW rec \in [Row -> Records],
         \A q \in Row : st[q] = "ambiguous" => dup[q],
         \A q \in Row : rec[q] # "none" => Agrees(q, rec[q], st[q], dup[q])
  PROVE  /\ SupersedeState(st) \in [Row -> States]
         /\ SupersedeRecord(st, rec) \in [Row -> Records]
         /\ \A q \in Row : SupersedeState(st)[q] = st[q]
              \/ (IsContact(q) /\ st[q] \in Waiting /\ SupersedeState(st)[q] = "superseded")
         /\ \A q \in Row : SupersedeRecord(st, rec)[q] # "none" =>
              rec[q] # "none" /\ Agrees(q, SupersedeRecord(st, rec)[q], SupersedeState(st)[q], dup[q])
<1>1. SupersedeState(st) \in [Row -> States]
  BY DEF SupersedeState, States, Settled
<1>2. SupersedeRecord(st, rec) \in [Row -> Records]
  <2>1. \A q \in Row : Sync(rec[q], "ambiguous", dup[q]) \in Records
    BY RecordTyped
  <2>2. "none" \in Records
    BY DEF Records
  <2> QED
    BY <2>1, <2>2 DEF SupersedeRecord
<1>3. ASSUME NEW q \in Row
      PROVE  SupersedeState(st)[q] = st[q]
              \/ (IsContact(q) /\ st[q] \in Waiting /\ SupersedeState(st)[q] = "superseded")
  <2>1. CASE q \in HeartbeatContacts(st)
    <3>1. IsContact(q) /\ st[q] \in Waiting
      BY <2>1 DEF HeartbeatContacts
    <3>2. SupersedeState(st)[q] = "superseded"
      BY <2>1 DEF SupersedeState
    <3> QED
      BY <3>1, <3>2
  <2>2. CASE q \notin HeartbeatContacts(st)
    BY <2>2 DEF SupersedeState
  <2> QED
    BY <2>1, <2>2
<1>4. ASSUME NEW q \in Row, SupersedeRecord(st, rec)[q] # "none"
      PROVE  rec[q] # "none" /\ Agrees(q, SupersedeRecord(st, rec)[q], SupersedeState(st)[q], dup[q])
  <2>1. CASE q \notin HeartbeatContacts(st)
    BY <1>4, <2>1 DEF SupersedeState, SupersedeRecord
  <2>2. CASE q \in HeartbeatContacts(st)
    <3>1. st[q] = "ambiguous" /\ rec[q] # "none" /\ dup[q]
      BY <1>4, <2>2 DEF SupersedeRecord, Sync
    <3>2. SupersedeRecord(st, rec)[q] = "uncertain" /\ SupersedeState(st)[q] = "superseded"
      BY <2>2, <3>1 DEF SupersedeState, SupersedeRecord, Sync, MessageState
    <3> QED
      BY <3>1, <3>2 DEF MessageState, Agrees
  <2> QED
    BY <2>1, <2>2
<1> QED
  BY <1>1, <1>2, <1>3, <1>4

\* Cancellations, recalls and superseding keep the invariant.
LEMMA SilenceKeeps == IInv /\ Silence => IInv'
<1> SUFFICES ASSUME IInv, Silence PROVE IInv'
  OBVIOUS
<1>0. /\ state \in [Row -> States] /\ record \in [Row -> Records]
      /\ \A q \in Row : record[q] # "none" => Agrees(q, record[q], state[q], dup[q])
      /\ \A q \in Row : state[q] = "ambiguous" => dup[q]
  <2>1. TypeOK /\ RecordAgrees /\ DuplicatesMarked
    BY DEF IInv
  <2>2. state \in [Row -> States] /\ record \in [Row -> Records]
    BY <2>1 DEF TypeOK, States, Records
  <2> QED
    BY <2>1, <2>2 DEF RecordAgrees, DuplicatesMarked
<1>1. ASSUME NEW c \in Channels, NEW rs, Yielded, c \in configured,
             \A q \in Row : q \in rs => ChannelOf(q) = c,
             Withdraw(CancelState(state, rs), CancelRecord(state, record, rs))
      PROVE  IInv'
  BY <1>0, <1>1, CancelFits, WithdrawKeeps
<1>2. ASSUME NEW c \in Channels, OwnerMessage(c) PROVE IInv'
  <2> DEFINE st == SupersedeState(state)
             rec == SupersedeRecord(state, record)
             on == {r \in Row : ChannelOf(r) = c}
  <2>1. Yielded /\ c \in configured /\ Withdraw(CancelState(st, on), CancelRecord(st, rec, on))
    BY <1>2 DEF OwnerMessage
  <2>2. /\ st \in [Row -> States] /\ rec \in [Row -> Records]
        /\ \A q \in Row : st[q] = state[q]
             \/ (IsContact(q) /\ state[q] \in Waiting /\ st[q] = "superseded")
        /\ \A q \in Row : rec[q] # "none" => record[q] # "none" /\ Agrees(q, rec[q], st[q], dup[q])
    BY <1>0, SupersedeFits
  <2>3. /\ CancelState(st, on) \in [Row -> States] /\ CancelRecord(st, rec, on) \in [Row -> Records]
        /\ \A q \in Row : CancelState(st, on)[q] = st[q]
             \/ (q \in on /\ st[q] \in Waiting /\ CancelState(st, on)[q] = "superseded")
        /\ \A q \in Row : CancelRecord(st, rec, on)[q] # "none" =>
             rec[q] # "none" /\ Agrees(q, CancelRecord(st, rec, on)[q], CancelState(st, on)[q], dup[q])
    BY <2>2, CancelFits
  <2>4. \A q \in Row : \/ CancelState(st, on)[q] = state[q]
                       \/ /\ state[q] \in Waiting /\ CancelState(st, on)[q] = "superseded"
                          /\ ChannelOf(q) \in configured \/ IsContact(q)
    BY <2>1, <2>2, <2>3 DEF Waiting
  <2> HIDE DEF st, rec, on
  <2> QED
    BY <2>1, <2>2, <2>3, <2>4, WithdrawKeeps
<1>3. ASSUME NEW c \in Channels, StopCommand(c) PROVE IInv'
  <2> DEFINE on == {r \in Row : ChannelOf(r) = c}
             st == CancelState(state, on)
             rec == CancelRecord(state, record, on)
  <2>1. Yielded /\ c \in configured /\ Withdraw(SupersedeState(st), SupersedeRecord(st, rec))
    BY <1>3 DEF StopCommand
  <2>2. /\ st \in [Row -> States] /\ rec \in [Row -> Records]
        /\ \A q \in Row : st[q] = state[q]
             \/ (q \in on /\ state[q] \in Waiting /\ st[q] = "superseded")
        /\ \A q \in Row : rec[q] # "none" => record[q] # "none" /\ Agrees(q, rec[q], st[q], dup[q])
    BY <1>0, CancelFits
  <2>3. \A q \in Row : st[q] = "ambiguous" => dup[q]
    BY <1>0, <2>2
  <2>4. /\ SupersedeState(st) \in [Row -> States] /\ SupersedeRecord(st, rec) \in [Row -> Records]
        /\ \A q \in Row : SupersedeState(st)[q] = st[q]
             \/ (IsContact(q) /\ st[q] \in Waiting /\ SupersedeState(st)[q] = "superseded")
        /\ \A q \in Row : SupersedeRecord(st, rec)[q] # "none" =>
             rec[q] # "none" /\ Agrees(q, SupersedeRecord(st, rec)[q], SupersedeState(st)[q], dup[q])
    BY <2>2, <2>3, SupersedeFits
  <2>5. \A q \in Row : \/ SupersedeState(st)[q] = state[q]
                       \/ /\ state[q] \in Waiting /\ SupersedeState(st)[q] = "superseded"
                          /\ ChannelOf(q) \in configured \/ IsContact(q)
    BY <2>1, <2>2, <2>4 DEF Waiting
  <2> HIDE DEF st, rec, on
  <2> QED
    BY <2>1, <2>2, <2>4, <2>5, WithdrawKeeps
<1>4. ASSUME NEW c \in Channels, CancelQueue(c) PROVE IInv'
  BY <1>1, <1>4 DEF CancelQueue
<1>5. ASSUME NEW t \in Turns, NEW c \in Channels, Recall(t, c) PROVE IInv'
  BY <1>1, <1>5 DEF Recall
<1> QED
  BY <1>2, <1>3, <1>4, <1>5 DEF Silence

-----------------------------------------------------------------------------
(***************************************************************************)
(* The worker.                                                             *)
(***************************************************************************)

\* What holds of the row the worker is at.
LEMMA AtHeadFacts ==
  ASSUME IInv, NEW r \in Row, AtHead(r)
  PROVE  /\ TypeOK /\ r \in batch /\ r <= last /\ pc # "idle"
         /\ state[r] \in {"pending", "ambiguous", "sending", "superseded"}
         /\ \A q \in Row : state[q] = "sending" <=> (pc = "send" /\ q = r)
         /\ \A q \in batch : q # r => ChannelOf(q) # ChannelOf(r)
<1>1. TypeOK /\ RowsInOrder /\ WorkerHolds /\ WorkerHoldsHeads /\ r \in batch /\ batch \subseteq Row
  BY DEF IInv, AtHead, TypeOK
<1>2. pc # "idle"
  BY <1>1 DEF WorkerHolds
<1>3. state[r] \in {"pending", "ambiguous", "sending", "superseded"} /\ r <= last
  BY <1>1 DEF WorkerHolds, RowsInOrder, Waiting
<1>4. ASSUME NEW q \in Row PROVE AtHead(q) <=> q = r
  BY <1>1 DEF AtHead, Row
<1>5. \A q \in Row : state[q] = "sending" <=> (pc = "send" /\ q = r)
  BY <1>1, <1>4 DEF WorkerHolds
<1>6. \A q \in batch : q # r => ChannelOf(q) # ChannelOf(r)
  BY <1>1 DEF WorkerHoldsHeads
<1> QED
  BY <1>1, <1>2, <1>3, <1>5, <1>6

\* A step that writes the columns of row r only.
OnlyRow(r) ==
  /\ \E x : state' = [state EXCEPT ![r] = x]
  /\ \E x : attempts' = [attempts EXCEPT ![r] = x]
  /\ \E x : dup' = [dup EXCEPT ![r] = x]
  /\ \E x : record' = [record EXCEPT ![r] = x]
  /\ \E x : copies' = [copies EXCEPT ![r] = x]
  /\ \E x : slack' = [slack EXCEPT ![r] = x]

\* When the worker leaves its row in a state other than "sending", the parts of the
\* invariant that are about the snapshot still hold.
LEMMA RowLeft ==
  ASSUME IInv, NEW r \in Row, AtHead(r), NextRow(r), OnlyRow(r),
         state'[r] \in {"pending", "ambiguous", "sent", "failed", "superseded"},
         attempts' \in [Row -> Nat],
         UNCHANGED <<last, bubble>>
  PROVE  /\ WorkerHolds' /\ WorkerHoldsHeads'
         /\ state' \in [Row -> States] /\ batch' \subseteq Row /\ seen' \in [Row -> Nat]
         /\ pc' \in {"idle", "row"} /\ r \notin batch'
         /\ \A q \in Row : q # r => state'[q] = state[q]
<1>0. /\ TypeOK /\ WorkerHolds /\ WorkerHoldsHeads /\ r \in batch
      /\ \A q \in Row : state[q] = "sending" <=> (pc = "send" /\ q = r)
      /\ \A q \in batch : q # r => ChannelOf(q) # ChannelOf(r)
  BY AtHeadFacts DEF IInv
<1>1. /\ state' \in [Row -> States]
      /\ \A q \in Row : q # r => state'[q] = state[q] /\ attempts'[q] = attempts[q]
  BY <1>0 DEF OnlyRow, TypeOK, States, Open, Waiting, Settled
<1>2. /\ batch' = batch \ {r} /\ batch' \subseteq Row /\ r \notin batch'
      /\ pc' \in {"idle", "row"} /\ (pc' = "idle" <=> batch = {r})
      /\ seen' \in [Row -> Nat] /\ \A q \in batch' : seen'[q] = seen[q]
  BY <1>0 DEF NextRow, TypeOK
<1>3. \A q \in Row : state'[q] # "sending"
  BY <1>0, <1>1
<1>4. WorkerHolds'
  <2>1. \A q \in batch' : q \in batch /\ q # r /\ OnWire(q) = 0 /\ OnWire(q)' = 0
    BY <1>0, <1>1, <1>2, <1>3 DEF OnWire, TypeOK
  <2>2. pc' = "idle" => batch' = {}
    BY <1>2
  <2>3. \A q \in batch' : attempts'[q] = seen'[q] + OnWire(q)'
    BY <1>0, <1>1, <1>2, <2>1 DEF WorkerHolds, TypeOK
  <2>4. \A q \in batch' : state'[q] \in Waiting \cup {"sending", "superseded"}
    BY <1>0, <1>1, <1>2, <2>1 DEF WorkerHolds
  <2> QED
    BY <1>2, <1>3, <2>2, <2>3, <2>4 DEF WorkerHolds
<1>5. WorkerHoldsHeads'
  BY <1>0, <1>1, <1>2 DEF WorkerHoldsHeads, ChannelOf, InTheWay, UncertainVideo, IsVideo, TypeOK
<1> QED
  BY <1>1, <1>2, <1>4, <1>5

\* A retry time or the time to give up that has come keeps the invariant.
LEMMA ClockKeeps == IInv /\ Clock => IInv'
<1> SUFFICES ASSUME IInv, NEW r \in Row, RetryDue(r) \/ GiveUpTime(r) PROVE IInv'
  BY DEF Clock
<1>0. TypeOK /\ UNCHANGED <<tableVars, configured, pc, batch, seen, copies, slack, last, restarts>>
  BY DEF IInv, RetryDue, GiveUpTime, workerVars, historyVars, tableVars
<1>1. TypeOK'
  BY <1>0 DEF RetryDue, GiveUpTime, TypeOK, workerVars, historyVars, tableVars
<1> QED
  BY <1>0, <1>1 DEF tableVars, IInv, RowsInOrder, WorkerHolds, WorkerHoldsHeads, CopiesCounted,
     ClipSentOnce, DuplicatesMarked, RecordAgrees, Agrees, Lags, MessageState, AtHead, OnWire,
     ChannelOf, InTheWay, UncertainVideo, IsVideo

\* A snapshot of the heads that are due keeps the invariant.
LEMMA SnapshotKeeps == IInv /\ Snapshot => IInv'
<1> SUFFICES ASSUME IInv, Snapshot PROVE IInv'
  OBVIOUS
<1> USE DEF Snapshot, tableVars, historyVars
<1>0. TypeOK /\ WorkerHolds
  BY DEF IInv
<1>1. TypeOK'
  BY <1>0 DEF TypeOK
<1>2. \A q \in batch' : /\ q \in Row /\ state[q] \in Waiting /\ state[q] # "sending"
                        /\ ~UncertainVideo(q, state) /\ seen'[q] = attempts[q]
                        /\ \A e \in Row : e < q /\ ChannelOf(e) = ChannelOf(q) => ~InTheWay(e, state)
  BY <1>0 DEF Due, Dispatchable, Waiting
<1>3. WorkerHolds'
  <2>1. \A q \in Row : state[q] # "sending"
    BY <1>0 DEF WorkerHolds
  <2>2. \A q \in batch' : attempts[q] = seen'[q] + OnWire(q)'
    BY <1>0, <1>2, <2>1 DEF OnWire, TypeOK
  <2> QED
    BY <1>2, <2>1, <2>2 DEF WorkerHolds
<1>4. WorkerHoldsHeads'
  <2>1. \A q \in batch' : InTheWay(q, state)
    BY <1>2 DEF InTheWay, Open
  <2> SUFFICES ASSUME NEW q \in batch', NEW e \in Row, ChannelOf(e) = ChannelOf(q), e # q
               PROVE  e \notin batch' /\ (e < q => ~InTheWay(e, state))
    BY DEF WorkerHoldsHeads, ChannelOf, InTheWay, UncertainVideo, IsVideo
  <2>2. e < q \/ q < e
    BY <1>2 DEF Row
  <2> QED
    BY <1>2, <2>1, <2>2
<1>5. ClipSentOnce'
  BY <1>0, <1>2 DEF IInv, ClipSentOnce, IsVideo, OnWire, UncertainVideo, Waiting
<1>6. DuplicatesMarked'
  BY <1>2 DEF IInv, DuplicatesMarked, ChannelOf, Waiting
<1>7. RowsInOrder' /\ CopiesCounted' /\ RecordAgrees'
  BY DEF IInv, RowsInOrder, CopiesCounted, RecordAgrees, Agrees, Lags, MessageState, OnWire
<1> QED
  BY <1>1, <1>3, <1>4, <1>5, <1>6, <1>7 DEF IInv

\* The worker leaves its row with columns that fit together: nine of its actions are
\* instances.
LEMMA LeaveKeeps ==
  ASSUME IInv, NEW r \in Row, AtHead(r), NextRow(r), RowStep, OnlyRow(r),
         state'[r] \in {"pending", "ambiguous", "sent", "failed", "superseded"},
         attempts'[r] \in Nat, dup'[r] \in BOOLEAN, copies'[r] \in Nat, slack'[r] \in Nat,
         record'[r] \in Records,
         record'[r] # "none" => Agrees(r, record'[r], state'[r], dup'[r]),
         attempts'[r] <= 2, copies'[r] <= attempts'[r] + slack'[r],
         state'[r] \in {"pending", "ambiguous", "superseded"} => attempts'[r] <= 1,
         IsVideo(r) => /\ copies'[r] <= 1 /\ mediaError' = mediaError
                       /\ state'[r] = "pending" => copies'[r] = 0 /\ attempts'[r] = 0,
         copies'[r] > 0 => dup'[r] \/ state'[r] = "sent",
         state'[r] = "sent" => copies'[r] > 0,
         state'[r] = "ambiguous" => dup'[r],
         mediaError' \subseteq mediaError \cup {r}, cooling' \subseteq Row,
         patience' \in [Row -> {"none", "waiting", "spent"}],
         abandoned' \subseteq Channels \cup {Nil}, notices' \subseteq Row
  PROVE  IInv'
<1> USE DEF RowStep
<1>0. /\ TypeOK /\ r \in batch /\ r <= last
      /\ \A q \in Row : q # r => state[q] # "sending"
  BY AtHeadFacts
<1>1. /\ attempts' \in [Row -> Nat] /\ dup' \in [Row -> BOOLEAN]
      /\ copies' \in [Row -> Nat] /\ slack' \in [Row -> Nat] /\ record' \in [Row -> Records]
  BY <1>0 DEF TypeOK, Records, OnlyRow
<1>2. \A q \in Row : q # r =>
        /\ attempts'[q] = attempts[q] /\ dup'[q] = dup[q] /\ copies'[q] = copies[q]
        /\ slack'[q] = slack[q] /\ record'[q] = record[q]
  BY <1>0 DEF TypeOK, OnlyRow
<1>3. /\ WorkerHolds' /\ WorkerHoldsHeads'
      /\ state' \in [Row -> States] /\ batch' \subseteq Row /\ seen' \in [Row -> Nat]
      /\ pc' \in {"idle", "row"} /\ r \notin batch'
      /\ \A q \in Row : q # r => state'[q] = state[q]
  BY <1>1, RowLeft
<1>4. batch' \subseteq batch
  BY DEF NextRow
<1>5. TypeOK'
  BY <1>0, <1>1, <1>3 DEF TypeOK, States, Records
<1>6. RowsInOrder'
  <2>1. ASSUME NEW q \in Row, q # r
        PROVE  /\ state'[q] # "absent" <=> q <= last
               /\ q > last => /\ attempts'[q] = 0 /\ copies'[q] = 0 /\ slack'[q] = 0
                              /\ ~dup'[q] /\ record'[q] = "none" /\ q \notin mediaError'
                              /\ bubble'[q].turn = Nil
    <3>1. q > last => q \notin mediaError' /\ UNCHANGED <<last, bubble>>
      BY <2>1 DEF IInv, RowsInOrder
    <3>2. UNCHANGED <<last, bubble>>
      OBVIOUS
    <3> QED
      BY <1>2, <1>3, <2>1, <3>1, <3>2 DEF IInv, RowsInOrder
  <2>2. state'[r] # "absent"
    OBVIOUS
  <2>3. r \in Int /\ last \in Int
    BY <1>0, BoundAssumption DEF TypeOK, Row
  <2>4. ~(r > last) /\ last' = last
    BY <1>0, <2>3
  <2> QED
    BY <1>0, <2>1, <2>2, <2>4 DEF RowsInOrder
<1>7. CopiesCounted'
  <2>1. ASSUME NEW q \in Row PROVE OnWire(q)' = IF q = r THEN 0 ELSE OnWire(q)
    BY <1>3 DEF OnWire
  <2>2. ASSUME NEW q \in Row, q # r
        PROVE  /\ copies'[q] + OnWire(q)' <= attempts'[q] + slack'[q]
               /\ attempts'[q] <= 2
               /\ state'[q] \in Waiting \cup {"superseded"} => attempts'[q] <= 1
    BY <1>2, <1>3, <2>1, <2>2 DEF IInv, CopiesCounted
  <2>3. /\ copies'[r] + OnWire(r)' <= attempts'[r] + slack'[r]
        /\ attempts'[r] <= 2
        /\ state'[r] \in Waiting \cup {"superseded"} => attempts'[r] <= 1
    BY <1>2, <1>3, <2>1 DEF Waiting
  <2> QED
    BY <2>2, <2>3 DEF CopiesCounted
<1>8. ClipSentOnce'
  <2>1. ASSUME NEW q \in Row, IsVideo(q), q # r
        PROVE  /\ copies'[q] <= 1
               /\ state'[q] \in {"pending", "sending"} \/ q \in batch' =>
                    copies'[q] = 0 /\ attempts'[q] = OnWire(q)'
               /\ q \notin mediaError' /\ bubble[q].turn \notin HeartbeatTurns
    BY <1>2, <1>3, <1>4, <2>1 DEF IInv, ClipSentOnce, OnWire
  <2>2. ASSUME IsVideo(r)
        PROVE  /\ copies'[r] <= 1
               /\ state'[r] \in {"pending", "sending"} \/ r \in batch' =>
                    copies'[r] = 0 /\ attempts'[r] = OnWire(r)'
               /\ r \notin mediaError' /\ bubble[r].turn \notin HeartbeatTurns
    BY <1>2, <1>3, <2>2 DEF IInv, ClipSentOnce, OnWire
  <2> QED
    BY <2>1, <2>2 DEF ClipSentOnce, IsVideo
<1>9. DuplicatesMarked'
  <2>1. ASSUME NEW q \in Row, q # r
        PROVE  /\ copies'[q] > 0 => dup'[q] \/ state'[q] = "sent"
               /\ state'[q] = "sent" => copies'[q] > 0
               /\ state'[q] = "ambiguous" => dup'[q]
               /\ ChannelOf(q) \notin configured /\ q \in batch' /\ state'[q] = "superseded" =>
                    bubble[q].turn \in HeartbeatTurns
    BY <1>2, <1>3, <1>4, <2>1 DEF IInv, DuplicatesMarked
  <2>2. /\ copies'[r] > 0 => dup'[r] \/ state'[r] = "sent"
        /\ state'[r] = "sent" => copies'[r] > 0
        /\ state'[r] = "ambiguous" => dup'[r]
    OBVIOUS
  <2> QED
    BY <1>3, <2>1, <2>2 DEF DuplicatesMarked, ChannelOf
<1>10. RecordAgrees'
  <2>1. ASSUME NEW q \in Row, q # r, record'[q] # "none"
        PROVE  Agrees(q, record'[q], state'[q], dup'[q])
    BY <1>2, <1>3, <2>1 DEF IInv, RecordAgrees
  <2> QED
    BY <2>1 DEF RecordAgrees, Agrees, Lags, MessageState
<1> QED
  BY <1>3, <1>5, <1>6, <1>7, <1>8, <1>9, <1>10 DEF IInv

\* A row the worker has not put on the wire was counted at most once, and what is known
\* of one on the wire.
LEMMA RowCounted ==
  ASSUME IInv, NEW r \in Row, AtHead(r)
  PROVE  /\ attempts[r] \in Nat /\ copies[r] \in Nat /\ slack[r] \in Nat /\ seen[r] \in Nat
         /\ dup[r] \in BOOLEAN
         /\ copies[r] + OnWire(r) <= attempts[r] + slack[r] /\ attempts[r] <= 2
         /\ state[r] # "sending" => attempts[r] <= 1
         /\ attempts[r] = seen[r] + OnWire(r)
         /\ copies[r] > 0 => dup[r]
         /\ state[r] = "ambiguous" => dup[r]
         /\ IsVideo(r) => copies[r] = 0 /\ attempts[r] = OnWire(r)
         /\ ChannelOf(r) \notin configured /\ state[r] = "superseded" =>
              bubble[r].turn \in HeartbeatTurns
         /\ record[r] \in Records
         /\ record[r] # "none" => Agrees(r, record[r], state[r], dup[r])
<1>1. TypeOK /\ r \in batch /\ state[r] \in {"pending", "ambiguous", "sending", "superseded"}
  BY AtHeadFacts
<1>2. /\ copies[r] + OnWire(r) <= attempts[r] + slack[r] /\ attempts[r] <= 2
      /\ state[r] # "sending" => attempts[r] <= 1
      /\ attempts[r] = seen[r] + OnWire(r)
  BY <1>1 DEF IInv, CopiesCounted, WorkerHolds, Waiting
<1>3. /\ copies[r] > 0 => dup[r]
      /\ state[r] = "ambiguous" => dup[r]
      /\ ChannelOf(r) \notin configured /\ state[r] = "superseded" =>
           bubble[r].turn \in HeartbeatTurns
  BY <1>1 DEF IInv, DuplicatesMarked
<1>4. IsVideo(r) => copies[r] = 0 /\ attempts[r] = OnWire(r)
  BY <1>1 DEF IInv, ClipSentOnce
<1>5. record[r] \in Records /\ (record[r] # "none" => Agrees(r, record[r], state[r], dup[r]))
  BY <1>1 DEF IInv, RecordAgrees, TypeOK, Records
<1> QED
  BY <1>1, <1>2, <1>3, <1>4, <1>5 DEF TypeOK

\* A synchronised message says what the row says.
LEMMA SyncFits ==
  ASSUME TypeOK, NEW r \in Row, NEW s, NEW d
  PROVE  /\ Sync(record[r], s, d) \in Records
         /\ Sync(record[r], s, d) # "none" => Agrees(r, Sync(record[r], s, d), s, d)
<1>1. Sync(record[r], s, d) \in Records
  BY RecordTyped DEF TypeOK, Records
<1> QED
  BY <1>1 DEF Sync, Agrees

\* Writing back what a function already holds changes nothing.
LEMMA SameAgain ==
  ASSUME TypeOK, NEW r \in Row
  PROVE  /\ state = [state EXCEPT ![r] = state[r]]
         /\ attempts = [attempts EXCEPT ![r] = attempts[r]]
         /\ dup = [dup EXCEPT ![r] = dup[r]]
         /\ record = [record EXCEPT ![r] = record[r]]
         /\ copies = [copies EXCEPT ![r] = copies[r]]
         /\ slack = [slack EXCEPT ![r] = slack[r]]
  BY DEF TypeOK

\* The worker's other variables keep their types in the actions that leave a row.
LEMMA WorkerTyped ==
  ASSUME TypeOK
  PROVE  /\ cooling \subseteq Row /\ patience \in [Row -> {"none", "waiting", "spent"}]
         /\ abandoned \subseteq Channels \cup {Nil} /\ notices \subseteq Row
         /\ bubble \in [Row -> [channel : Channels \cup {Nil}, kind : AllKinds \cup {Nil},
                                turn : Turns \cup {Nil}]]
  BY DEF TypeOK

\* A row put back because its channel is missing keeps the invariant.
LEMMA NotConfiguredKeeps ==
  ASSUME IInv, NEW r \in Row, NotConfigured(r) PROVE IInv'
<1>1. /\ TypeOK /\ AtHead(r) /\ NextRow(r) /\ RowStep
      /\ state[r] \in {"pending", "ambiguous", "superseded"}
      /\ UNCHANGED <<dup, record, mediaError, patience, abandoned, notices, copies>>
      /\ cooling' = cooling \cup {r}
      /\ state' = [state EXCEPT ![r] = "pending"]
  BY AtHeadFacts DEF NotConfigured, MarkNotDispatched
<1>2. OnlyRow(r) /\ state'[r] = "pending"
  <2>1. /\ \E x : slack' = [slack EXCEPT ![r] = x]
        /\ \E x : attempts' = [attempts EXCEPT ![r] = x]
    BY DEF NotConfigured, MarkNotDispatched
  <2>2. state'[r] = "pending"
    BY <1>1 DEF TypeOK
  <2> QED
    BY <1>1, <2>1, <2>2, SameAgain DEF OnlyRow
<1>3. /\ attempts'[r] = IF attempts[r] > 0 THEN attempts[r] - 1 ELSE 0
      /\ slack'[r] = slack[r] + attempts[r] - attempts'[r]
  BY <1>1 DEF NotConfigured, MarkNotDispatched, TypeOK
<1>4. /\ attempts'[r] \in Nat /\ slack'[r] \in Nat /\ attempts'[r] <= 1
      /\ copies[r] <= attempts'[r] + slack'[r]
      /\ IsVideo(r) => copies[r] = 0 /\ attempts'[r] = 0
      /\ copies[r] \in Nat /\ dup[r] \in BOOLEAN /\ (copies[r] > 0 => dup[r])
  BY <1>1, <1>3, RowCounted DEF OnWire
<1>5. record[r] \in Records /\ (record[r] # "none" => Agrees(r, record[r], "pending", dup[r]))
  <2>1. ASSUME record[r] # "none", dup[r] PROVE Agrees(r, record[r], "pending", dup[r])
    BY <1>1, <2>1, RowCounted DEF Agrees, Lags, MessageState
  <2>2. ASSUME record[r] # "none", ~dup[r] PROVE Agrees(r, record[r], "pending", dup[r])
    <3>1. state[r] # "ambiguous"
      BY <1>1, <2>2, RowCounted
    <3>2. state[r] = "superseded" => bubble[r].turn \in HeartbeatTurns
      BY <1>1, RowCounted DEF NotConfigured
    <3> QED
      BY <1>1, <2>2, <3>1, <3>2, RowCounted DEF Agrees, Lags, MessageState, Open, Waiting
  <2> QED
    BY <1>1, <1>4, <2>1, <2>2, RowCounted
<1>7. cooling' \subseteq Row
  BY <1>1, WorkerTyped
<1> QED
  BY <1>1, <1>2, <1>4, <1>5, <1>7, LeaveKeeps, WorkerTyped

\* Passing over a row that was withdrawn meanwhile keeps the invariant.
LEMMA DropWithdrawnKeeps ==
  ASSUME IInv, NEW r \in Row, DropWithdrawn(r) PROVE IInv'
<1>1. /\ TypeOK /\ AtHead(r) /\ NextRow(r) /\ RowStep
      /\ state[r] \in {"ambiguous", "superseded"}
      /\ UNCHANGED <<state, attempts, dup, record, mediaError, cooling, patience, abandoned,
                     notices, copies, slack>>
  BY AtHeadFacts DEF DropWithdrawn, AtDispatch, Dispatchable, UncertainVideo, Waiting
<1>2. OnlyRow(r)
  BY <1>1, SameAgain DEF OnlyRow
<1>3. /\ attempts[r] <= 1 /\ copies[r] <= attempts[r] + slack[r]
      /\ attempts[r] \in Nat /\ copies[r] \in Nat /\ slack[r] \in Nat /\ dup[r] \in BOOLEAN
      /\ (copies[r] > 0 => dup[r]) /\ (state[r] = "ambiguous" => dup[r])
      /\ (IsVideo(r) => copies[r] = 0)
      /\ record[r] \in Records /\ (record[r] # "none" => Agrees(r, record[r], state[r], dup[r]))
  BY <1>1, RowCounted DEF OnWire
<1> QED
  BY <1>1, <1>2, <1>3, LeaveKeeps, WorkerTyped

\* A row dropped because its call has ended keeps the invariant.
LEMMA ContextExpiredKeeps ==
  ASSUME IInv, NEW r \in Row, ContextExpired(r) PROVE IInv'
<1>1. /\ TypeOK /\ AtHead(r) /\ NextRow(r) /\ RowStep
      /\ state[r] \in Waiting
      /\ UNCHANGED <<attempts, dup, mediaError, cooling, patience, abandoned, notices,
                     copies, slack>>
      /\ state' = [state EXCEPT ![r] = "failed"]
      /\ record' = [record EXCEPT ![r] = Sync(@, "failed", dup[r])]
  BY AtHeadFacts DEF ContextExpired, MarkFailed, AtDispatch, Dispatchable
<1>2. OnlyRow(r) /\ state'[r] = "failed" /\ record'[r] = Sync(record[r], "failed", dup[r])
  BY <1>1, SameAgain DEF OnlyRow, TypeOK
<1>3. /\ attempts[r] <= 2 /\ copies[r] <= attempts[r] + slack[r]
      /\ attempts[r] \in Nat /\ copies[r] \in Nat /\ slack[r] \in Nat /\ dup[r] \in BOOLEAN
      /\ (copies[r] > 0 => dup[r])
      /\ (IsVideo(r) => copies[r] = 0)
  BY <1>1, RowCounted DEF OnWire, Waiting
<1>R. record'[r] \in Records /\ (record'[r] # "none" => Agrees(r, record'[r], state'[r], dup'[r]))
  BY <1>1, <1>2, SyncFits
<1> QED
  BY <1>1, <1>2, <1>3, <1>R, LeaveKeeps, WorkerTyped

\* A failed synthesis keeps the invariant.
LEMMA SynthesisFailsKeeps ==
  ASSUME IInv, NEW r \in Row, SynthesisFails(r) PROVE IInv'
<1>1. /\ TypeOK /\ AtHead(r) /\ NextRow(r) /\ RowStep
      /\ state[r] \in Waiting /\ ~IsVideo(r)
      /\ UNCHANGED <<dup, mediaError, cooling, patience, abandoned, notices, copies, slack>>
      /\ state' = [state EXCEPT ![r] = "failed"]
      /\ attempts' = [attempts EXCEPT ![r] = @ + 1]
      /\ record' = [record EXCEPT ![r] = Sync(@, "failed", dup[r])]
  BY AtHeadFacts DEF SynthesisFails, ReadyToSend, AtDispatch, Dispatchable, IsVideo
<1>2. /\ OnlyRow(r) /\ state'[r] = "failed" /\ record'[r] = Sync(record[r], "failed", dup[r])
      /\ attempts'[r] = attempts[r] + 1
  BY <1>1, SameAgain DEF OnlyRow, TypeOK
<1>3. /\ attempts'[r] <= 2 /\ copies[r] <= attempts'[r] + slack[r]
      /\ attempts'[r] \in Nat /\ copies[r] \in Nat /\ slack[r] \in Nat /\ dup[r] \in BOOLEAN
      /\ (copies[r] > 0 => dup[r])
  BY <1>1, <1>2, RowCounted DEF OnWire, Waiting
<1>R. record'[r] \in Records /\ (record'[r] # "none" => Agrees(r, record'[r], state'[r], dup'[r]))
  BY <1>1, <1>2, SyncFits
<1> QED
  BY <1>1, <1>2, <1>3, <1>R, LeaveKeeps, WorkerTyped

\* What the worker knows when the channel answers.
LEMMA AnswerFacts ==
  ASSUME IInv, NEW r \in Row, Sending(r)
  PROVE  /\ TypeOK /\ AtHead(r) /\ state[r] = "sending" /\ OnWire(r) = 1
         /\ attempts[r] \in Nat /\ copies[r] \in Nat /\ slack[r] \in Nat /\ seen[r] \in Nat
         /\ dup[r] \in BOOLEAN
         /\ attempts[r] = seen[r] + 1 /\ attempts[r] >= 1 /\ attempts[r] <= 2
         /\ copies[r] + 1 <= attempts[r] + slack[r]
         /\ copies[r] > 0 => dup[r]
         /\ IsVideo(r) => copies[r] = 0 /\ attempts[r] = 1
         /\ record[r] \in Records
         /\ record[r] # "none" => Agrees(r, record[r], "pending", dup[r])
<1>1. TypeOK /\ AtHead(r) /\ state[r] = "sending" /\ OnWire(r) = 1
  BY AtHeadFacts DEF Sending, OnWire
<1>2. record[r] \in Records /\ (record[r] # "none" => Agrees(r, record[r], "pending", dup[r]))
  BY <1>1, RowCounted DEF Agrees, Lags, MessageState, Open, Waiting
<1> QED
  BY <1>1, <1>2, RowCounted

\* A refusal that is tried again later keeps the invariant.
LEMMA RefusedRetryKeeps ==
  ASSUME IInv, NEW r \in Row, RefusedRetry(r) PROVE IInv'
<1>1. /\ TypeOK /\ AtHead(r) /\ Sending(r) /\ NextRow(r) /\ RowStep
      /\ UNCHANGED <<dup, record, mediaError, abandoned, notices, copies, slack>>
      /\ state' = [state EXCEPT ![r] = "pending"]
      /\ attempts' = [attempts EXCEPT ![r] = IF @ > 0 THEN @ - 1 ELSE 0]
      /\ cooling' = cooling \cup {r}
      /\ patience' = [patience EXCEPT ![r] = "waiting"]
  BY AnswerFacts DEF RefusedRetry, MarkNotDispatched
<1>2. OnlyRow(r) /\ state'[r] = "pending"
  BY <1>1, SameAgain DEF OnlyRow, TypeOK
<1>3. attempts'[r] = attempts[r] - 1
  BY <1>1, AnswerFacts DEF TypeOK
<1>4. /\ attempts'[r] \in Nat /\ attempts'[r] <= 1 /\ copies[r] <= attempts'[r] + slack[r]
      /\ copies[r] \in Nat /\ slack[r] \in Nat /\ dup[r] \in BOOLEAN
      /\ (copies[r] > 0 => dup[r])
      /\ (IsVideo(r) => copies[r] = 0 /\ attempts'[r] = 0)
      /\ record[r] \in Records /\ (record[r] # "none" => Agrees(r, record[r], "pending", dup[r]))
  BY <1>1, <1>3, AnswerFacts
<1>5. cooling' \subseteq Row /\ patience' \in [Row -> {"none", "waiting", "spent"}]
  BY <1>1, WorkerTyped
<1> QED
  BY <1>1, <1>2, <1>4, <1>5, LeaveKeeps, WorkerTyped

\* A refusal that is the last one keeps the invariant.
LEMMA RefusedGiveUpKeeps ==
  ASSUME IInv, NEW r \in Row, RefusedGiveUp(r) PROVE IInv'
<1>1. /\ TypeOK /\ AtHead(r) /\ Sending(r) /\ NextRow(r) /\ RowStep
      /\ UNCHANGED <<attempts, dup, mediaError, cooling, copies, slack>>
      /\ state' = [state EXCEPT ![r] = "failed"]
      /\ record' = [record EXCEPT ![r] = Sync(@, "failed", dup[r])]
      /\ patience' = [patience EXCEPT ![r] = "none"]
      /\ notices' \in {notices, notices \cup {r}}
      /\ abandoned' = abandoned \cup {ChannelOf(r)}
  BY AnswerFacts DEF RefusedGiveUp, MarkFailed
<1>2. OnlyRow(r) /\ state'[r] = "failed" /\ record'[r] = Sync(record[r], "failed", dup[r])
  BY <1>1, SameAgain DEF OnlyRow, TypeOK
<1>3. /\ attempts[r] \in Nat /\ attempts[r] <= 2 /\ copies[r] <= attempts[r] + slack[r]
      /\ copies[r] \in Nat /\ slack[r] \in Nat /\ dup[r] \in BOOLEAN
      /\ (copies[r] > 0 => dup[r])
      /\ (IsVideo(r) => copies[r] = 0)
  BY <1>1, AnswerFacts
<1>4. /\ patience' \in [Row -> {"none", "waiting", "spent"}] /\ notices' \subseteq Row
      /\ ChannelOf(r) \in Channels \cup {Nil} /\ cooling' \subseteq Row
  BY <1>1, WorkerTyped DEF ChannelOf
<1>5. abandoned' \subseteq Channels \cup {Nil}
  BY <1>1, <1>4, WorkerTyped
<1>R. record'[r] \in Records /\ (record'[r] # "none" => Agrees(r, record'[r], state'[r], dup'[r]))
  BY <1>1, <1>2, SyncFits
<1> QED
  BY <1>1, <1>2, <1>3, <1>4, <1>5, <1>R, LeaveKeeps

\* An uncertain answer keeps the invariant.
LEMMA SendAmbiguousKeeps ==
  ASSUME IInv, NEW r \in Row, SendAmbiguous(r) PROVE IInv'
<1> DEFINE s == IF seen[r] + 1 < 2 \/ IsVideo(r) THEN "ambiguous" ELSE "failed"
<1>1. /\ TypeOK /\ AtHead(r) /\ Sending(r) /\ NextRow(r) /\ RowStep
      /\ UNCHANGED <<attempts, mediaError, patience, abandoned, notices, slack>>
      /\ state' = [state EXCEPT ![r] = s]
      /\ dup' = [dup EXCEPT ![r] = TRUE]
      /\ record' = [record EXCEPT ![r] = Sync(@, s, TRUE)]
      /\ copies' = [copies EXCEPT ![r] = @ + 1]
      /\ cooling' = cooling \cup {r}
  BY AnswerFacts DEF SendAmbiguous, MarkAmbiguous, Reaches
<1>2. s \in {"ambiguous", "failed"}
  OBVIOUS
<1>3. s = "ambiguous" => attempts[r] <= 1
  BY <1>1, AnswerFacts
<1> HIDE DEF s
<1>4. /\ OnlyRow(r) /\ state'[r] = s /\ record'[r] = Sync(record[r], s, TRUE)
      /\ dup'[r] = TRUE /\ copies'[r] = copies[r] + 1
  BY <1>1, SameAgain DEF OnlyRow, TypeOK
<1>5. /\ attempts[r] \in Nat /\ attempts[r] <= 2 /\ copies'[r] <= attempts[r] + slack[r]
      /\ copies'[r] \in Nat /\ slack[r] \in Nat
      /\ (IsVideo(r) => copies'[r] <= 1)
  BY <1>1, <1>4, AnswerFacts
<1>6. cooling' \subseteq Row
  BY <1>1, WorkerTyped
<1>R. record'[r] \in Records /\ (record'[r] # "none" => Agrees(r, record'[r], state'[r], dup'[r]))
  <2>1. /\ Sync(record[r], s, TRUE) \in Records
        /\ Sync(record[r], s, TRUE) # "none" => Agrees(r, Sync(record[r], s, TRUE), s, TRUE)
    BY <1>1, SyncFits
  <2> QED
    BY <1>4, <2>1, Zenon
<1> QED
  BY <1>1, <1>2, <1>3, <1>4, <1>5, <1>6, <1>R, LeaveKeeps, WorkerTyped

\* A send that failed for good keeps the invariant.
LEMMA SendFailedKeeps ==
  ASSUME IInv, NEW r \in Row, SendFailed(r) PROVE IInv'
<1>1. /\ TypeOK /\ AtHead(r) /\ Sending(r) /\ NextRow(r) /\ RowStep
      /\ UNCHANGED <<attempts, dup, cooling, patience, abandoned, notices, copies, slack>>
      /\ state' = [state EXCEPT ![r] = "failed"]
      /\ record' = [record EXCEPT ![r] = Sync(@, "failed", dup[r])]
      /\ mediaError' \subseteq mediaError \cup {r}
      /\ (IsVideo(r) => mediaError' = mediaError)
  BY AnswerFacts DEF SendFailed, MarkFailed, IsVideo
<1>2. OnlyRow(r) /\ state'[r] = "failed" /\ record'[r] = Sync(record[r], "failed", dup[r])
  BY <1>1, SameAgain DEF OnlyRow, TypeOK
<1>3. /\ attempts[r] \in Nat /\ attempts[r] <= 2 /\ copies[r] <= attempts[r] + slack[r]
      /\ copies[r] \in Nat /\ slack[r] \in Nat /\ dup[r] \in BOOLEAN
      /\ (copies[r] > 0 => dup[r])
      /\ (IsVideo(r) => copies[r] = 0)
  BY <1>1, AnswerFacts
<1>R. record'[r] \in Records /\ (record'[r] # "none" => Agrees(r, record'[r], state'[r], dup'[r]))
  BY <1>1, <1>2, SyncFits
<1> QED
  BY <1>1, <1>2, <1>3, <1>R, LeaveKeeps, WorkerTyped

\* A send that succeeded keeps the invariant.
LEMMA SendSucceedsKeeps ==
  ASSUME IInv, NEW r \in Row, SendSucceeds(r) PROVE IInv'
<1>1. /\ TypeOK /\ AtHead(r) /\ Sending(r) /\ NextRow(r) /\ RowStep
      /\ UNCHANGED <<attempts, dup, mediaError, cooling, notices, slack>>
      /\ state' = [state EXCEPT ![r] = "sent"]
      /\ record' = [record EXCEPT ![r] = Sync(@, "sent", dup[r])]
      /\ copies' = [copies EXCEPT ![r] = @ + 1]
      /\ patience' = [patience EXCEPT ![r] = "none"]
      /\ abandoned' \subseteq abandoned
  BY AnswerFacts DEF SendSucceeds, MarkSent, Reaches
<1>2. /\ OnlyRow(r) /\ state'[r] = "sent" /\ record'[r] = Sync(record[r], "sent", dup[r])
      /\ copies'[r] = copies[r] + 1
  BY <1>1, SameAgain DEF OnlyRow, TypeOK
<1>3. /\ attempts[r] \in Nat /\ attempts[r] <= 2 /\ copies'[r] <= attempts[r] + slack[r]
      /\ copies'[r] \in Nat /\ copies'[r] > 0 /\ slack[r] \in Nat /\ dup[r] \in BOOLEAN
      /\ (IsVideo(r) => copies'[r] <= 1)
  BY <1>1, <1>2, AnswerFacts
<1>4. /\ patience' \in [Row -> {"none", "waiting", "spent"}]
      /\ abandoned' \subseteq Channels \cup {Nil}
  BY <1>1, WorkerTyped
<1>R. record'[r] \in Records /\ (record'[r] # "none" => Agrees(r, record'[r], state'[r], dup'[r]))
  BY <1>1, <1>2, SyncFits
<1> QED
  BY <1>1, <1>2, <1>3, <1>4, <1>R, LeaveKeeps, WorkerTyped

\* Waiting for the gap or for the provider changes no row.
LEMMA PauseKeeps ==
  ASSUME IInv, NEW r \in Row, BeginGap(r) \/ BeginSynthesis(r) PROVE IInv'
<1>1. /\ TypeOK /\ AtHead(r) /\ pc \notin {"idle", "send"} /\ pc' \in {"gap", "synth"}
      /\ UNCHANGED <<last, bubble, state, attempts, dup, mediaError, record, committed, ended, asking>>
      /\ UNCHANGED <<cooling, configured, batch, seen, patience, abandoned, notices,
                     restarts, copies, slack>>
  BY AtHeadFacts DEF BeginGap, BeginSynthesis, AtDispatch, tableVars, historyVars
<1>2. TypeOK'
  BY <1>1 DEF TypeOK
<1>3. WorkerHolds'
  <2>1. \A q \in Row : state[q] # "sending"
    BY <1>1, AtHeadFacts
  <2> QED
    BY <1>1, <2>1 DEF IInv, WorkerHolds, AtHead, OnWire
<1>4. RowsInOrder' /\ WorkerHoldsHeads' /\ CopiesCounted' /\ RecordAgrees'
  BY <1>1 DEF IInv, RowsInOrder, WorkerHoldsHeads, CopiesCounted, RecordAgrees, Agrees, Lags,
              MessageState, OnWire, ChannelOf, InTheWay, UncertainVideo, IsVideo
<1>5. ClipSentOnce' /\ DuplicatesMarked'
  BY <1>1 DEF IInv, ClipSentOnce, DuplicatesMarked, OnWire, ChannelOf, IsVideo
<1> QED
  BY <1>2, <1>3, <1>4, <1>5 DEF IInv

\* Taking the head of the snapshot to the wire keeps the invariant.
LEMMA BeginSendKeeps ==
  ASSUME IInv, NEW r \in Row, BeginSend(r) PROVE IInv'
<1>1. /\ TypeOK /\ AtHead(r) /\ r \in batch /\ state[r] \in Waiting /\ pc # "send"
      /\ ~UncertainVideo(r, state)
      /\ UNCHANGED <<dup, record, cooling, last, bubble, committed, ended, asking, configured, restarts,
                     mediaError, batch, seen, patience, abandoned, notices, copies, slack>>
      /\ state' = [state EXCEPT ![r] = "sending"]
      /\ attempts' = [attempts EXCEPT ![r] = @ + 1]
      /\ pc' = "send"
  BY AtHeadFacts DEF BeginSend, ReadyToSend, AtDispatch, MarkSending, RowStep, Dispatchable
<1>2. /\ state' \in [Row -> States] /\ attempts' \in [Row -> Nat]
      /\ state'[r] = "sending" /\ attempts'[r] = attempts[r] + 1
      /\ \A q \in Row : q # r => state'[q] = state[q] /\ attempts'[q] = attempts[q]
      /\ \A q \in Row : state[q] # "sending"
  <2>1. \A q \in Row : state[q] # "sending"
    BY <1>1, AtHeadFacts
  <2> QED
    BY <1>1, <2>1 DEF TypeOK, States, Open, Waiting
<1>3. TypeOK'
  BY <1>1, <1>2 DEF TypeOK, States
<1>4. RowsInOrder'
  <2>1. state[r] # "absent"
    BY <1>1 DEF Waiting
  <2>2. r <= last
    BY <1>1, <2>1 DEF IInv, RowsInOrder
  <2>3. r \in Int /\ last \in Int
    BY <1>1, BoundAssumption DEF TypeOK, Row
  <2>4. ~(r > last)
    BY <2>2, <2>3
  <2> QED
    BY <1>1, <1>2, <2>2, <2>4 DEF IInv, RowsInOrder
<1>5. \A q \in Row : /\ OnWire(q) = 0
                     /\ OnWire(q)' = IF q = r THEN 1 ELSE 0
                     /\ (AtHead(q)' <=> q = r)
  <2>1. \A q \in Row : OnWire(q) = 0 /\ OnWire(q)' = IF q = r THEN 1 ELSE 0
    BY <1>2 DEF OnWire
  <2>2. batch \subseteq Row
    BY <1>1 DEF TypeOK
  <2>3. \A q \in Row : AtHead(q)' <=> q = r
    BY <1>1, <2>2, BoundAssumption DEF AtHead, Row
  <2> QED
    BY <2>1, <2>3
<1>6. WorkerHolds'
  <2>1. \A q \in Row : state'[q] = "sending" <=> q = r
    BY <1>2
  <2>2. \A q \in batch : q \in Row /\ attempts[q] = seen[q] /\ seen[q] \in Nat
                         /\ state[q] \in Waiting \cup {"sending", "superseded"}
    BY <1>1, <1>5 DEF IInv, WorkerHolds, TypeOK
  <2>3. \A q \in batch : attempts'[q] = seen[q] + OnWire(q)'
    BY <1>2, <1>5, <2>2
  <2> QED
    BY <1>1, <1>2, <1>5, <2>1, <2>2, <2>3 DEF WorkerHolds
<1>7. WorkerHoldsHeads'
  BY <1>1, <1>2 DEF IInv, WorkerHoldsHeads, ChannelOf, InTheWay, UncertainVideo, IsVideo, Open
<1>8. CopiesCounted'
  <2>1. ASSUME NEW q \in Row
        PROVE  /\ copies[q] + OnWire(q)' <= attempts'[q] + slack[q]
               /\ attempts'[q] <= 2
               /\ state'[q] \in Waiting \cup {"superseded"} => attempts'[q] <= 1
    <3>1. /\ copies[q] + 0 <= attempts[q] + slack[q] /\ attempts[q] <= 2
          /\ state[q] \in Waiting \cup {"superseded"} => attempts[q] <= 1
          /\ copies[q] \in Nat /\ attempts[q] \in Nat /\ slack[q] \in Nat
      BY <1>1, <1>5 DEF IInv, CopiesCounted, TypeOK
    <3>2. CASE q = r
      BY <1>1, <1>2, <1>5, <3>1, <3>2 DEF Waiting
    <3>3. CASE q # r
      BY <1>2, <1>5, <3>1, <3>3
    <3> QED
      BY <3>2, <3>3
  <2> QED
    BY <1>1, <2>1 DEF CopiesCounted
<1>9. ClipSentOnce'
  <2>1. ASSUME NEW q \in Row, IsVideo(q)
        PROVE  /\ copies[q] <= 1 /\ q \notin mediaError /\ bubble[q].turn \notin HeartbeatTurns
               /\ state'[q] \in {"pending", "sending"} \/ q \in batch =>
                    copies[q] = 0 /\ attempts'[q] = OnWire(q)'
    BY <1>1, <1>2, <1>5, <2>1 DEF IInv, ClipSentOnce, TypeOK
  <2> QED
    BY <1>1, <2>1 DEF ClipSentOnce, IsVideo
<1>10. DuplicatesMarked'
  BY <1>1, <1>2 DEF IInv, DuplicatesMarked, ChannelOf, Waiting
<1>11. RecordAgrees'
  <2>1. state[r] = "ambiguous" => dup[r]
    BY DEF IInv, DuplicatesMarked
  <2>2. ASSUME NEW q \in Row, record[q] # "none" PROVE Agrees(q, record[q], state'[q], dup[q])
    BY <1>1, <1>2, <2>1, <2>2 DEF IInv, RecordAgrees, Agrees, Lags, MessageState, Open, Waiting
  <2> QED
    BY <1>1, <2>2 DEF RecordAgrees, Agrees, Lags, MessageState
<1> QED
  BY <1>3, <1>4, <1>6, <1>7, <1>8, <1>9, <1>10, <1>11 DEF IInv

\* Every step of the worker keeps the invariant.
LEMMA WorkKeeps == IInv /\ Work => IInv'
<1> SUFFICES ASSUME IInv, NEW r \in Row, WorkRow(r) PROVE IInv'
  BY SnapshotKeeps DEF Work
<1> QED
  BY NotConfiguredKeeps, PauseKeeps, DropWithdrawnKeeps, ContextExpiredKeeps,
     SynthesisFailsKeeps, BeginSendKeeps, RefusedRetryKeeps, RefusedGiveUpKeeps,
     SendAmbiguousKeeps, SendFailedKeeps, SendSucceedsKeeps
  DEF WorkRow

-----------------------------------------------------------------------------
(***************************************************************************)
(* Restarting.                                                             *)
(***************************************************************************)
LEMMA RestartKeeps ==
  ASSUME IInv, NEW cfg \in ConfigChoices, NEW revived \in SUBSET Row, Restart(cfg, revived)
  PROVE  IInv'
<1> DEFINE st1 == SupersedeState(state)
           rec1 == SupersedeRecord(state, record)
           back(q) == RecoveredState(q, attempts[q])
<1>0. TypeOK /\ RowsInOrder /\ RecordAgrees /\ DuplicatesMarked /\ CopiesCounted /\ ClipSentOnce
  BY DEF IInv
<1>1. /\ st1 \in [Row -> States] /\ rec1 \in [Row -> Records]
      /\ \A q \in Row : \/ st1[q] = state[q]
                        \/ IsContact(q) /\ state[q] \in Waiting /\ st1[q] = "superseded"
      /\ \A q \in Row : rec1[q] # "none" =>
           record[q] # "none" /\ Agrees(q, rec1[q], st1[q], dup[q])
  <2>1. /\ state \in [Row -> States] /\ record \in [Row -> Records]
        /\ \A q \in Row : state[q] = "ambiguous" => dup[q]
        /\ \A q \in Row : record[q] # "none" => Agrees(q, record[q], state[q], dup[q])
    BY <1>0 DEF TypeOK, States, Records, DuplicatesMarked, RecordAgrees
  <2> QED
    BY <2>1, SupersedeFits
<1>3. \A q \in Row : state[q] = "sending" => /\ back(q) \in {"ambiguous", "failed"}
                                             /\ back(q) = "ambiguous" => attempts[q] <= 1
                                             /\ back(q) = "failed" => ~IsVideo(q)
                                             /\ st1[q] = "sending"
  <2>1. ASSUME NEW q \in Row, state[q] = "sending", IsVideo(q) PROVE attempts[q] <= 1
    BY <1>0, <2>1 DEF ClipSentOnce, OnWire
  <2>2. ASSUME NEW q \in Row, state[q] = "sending", back(q) = "ambiguous" PROVE attempts[q] <= 1
    BY <1>0, <2>1, <2>2 DEF RecoveredState, TypeOK
  <2> QED
    BY <1>1, <2>2 DEF RecoveredState, Waiting
<1> HIDE DEF st1, rec1, back
<1>4. /\ \A q \in Row : state'[q] = IF state[q] = "sending" THEN back(q)
                                    ELSE IF q \in revived THEN "pending" ELSE st1[q]
      /\ \A q \in Row : dup'[q] = (dup[q] \/ state[q] = "sending")
      /\ \A q \in Row : record'[q] =
           IF state[q] = "sending" THEN Sync(rec1[q], back(q), TRUE)
           ELSE IF q \in revived THEN Sync(rec1[q], "pending", dup[q]) ELSE rec1[q]
      /\ \A q \in Row : copies'[q] = IF state[q] = "sending" THEN copies[q] + 1 ELSE copies[q]
      /\ \A q \in Row : attempts'[q] = IF q \in revived THEN 0 ELSE attempts[q]
      /\ \A q \in Row : slack'[q] = IF q \in revived THEN slack[q] + attempts[q] ELSE slack[q]
  BY DEF Restart, st1, rec1, back
<1>5. /\ \A q \in revived : q \in mediaError /\ state[q] = "failed"
      /\ restarts' \in 0 .. MaxRestarts
      /\ mediaError' = mediaError \ revived /\ configured' = cfg
      /\ pc' = "idle" /\ batch' = {} /\ seen' = [q \in Row |-> 0]
      /\ patience' = [q \in Row |-> "none"] /\ abandoned' = {}
      /\ cooling' \subseteq cooling
      /\ UNCHANGED <<last, bubble, committed, ended, asking, notices>>
  BY <1>0, BoundAssumption DEF Restart, TypeOK
<1>6. TypeOK'
  <2>1. state' \in [Row -> States]
    <3>1. \A q \in Row : state'[q] \in States
      BY <1>1, <1>3, <1>4 DEF States, Open, Waiting, Settled
    <3> QED
      BY <3>1 DEF Restart
  <2>2. record' \in [Row -> Records]
    <3>1. \A q \in Row : record'[q] \in Records
      <4>1. \A q \in Row : rec1[q] \in Records
        BY <1>1
      <4>2. \A q \in Row : Sync(rec1[q], back(q), TRUE) \in Records
        BY <4>1, RecordTyped
      <4>3. \A q \in Row : Sync(rec1[q], "pending", dup[q]) \in Records
        BY <4>1, RecordTyped
      <4> QED
        BY <1>4, <4>1, <4>2, <4>3
    <3> QED
      BY <3>1 DEF Restart
  <2>3. /\ dup' \in [Row -> BOOLEAN] /\ copies' \in [Row -> Nat]
        /\ attempts' \in [Row -> Nat] /\ slack' \in [Row -> Nat]
    BY <1>0 DEF Restart, TypeOK
  <2>4. cfg \subseteq Channels
    BY ChannelAssumption
  <2> QED
    BY <1>0, <1>5, <2>1, <2>2, <2>3, <2>4 DEF TypeOK, States, Records
<1>7. RowsInOrder'
  <2>1. ASSUME NEW q \in Row PROVE state'[q] = "absent" <=> state[q] = "absent"
    BY <1>1, <1>3, <1>4, <1>5 DEF Waiting
  <2>2. ASSUME NEW q \in Row, q > last
        PROVE  state[q] = "absent" /\ q \notin revived /\ record[q] = "none" /\ rec1[q] = "none"
    <3>1. state[q] = "absent" /\ record[q] = "none"
      <4>1. q \in Int /\ last \in Int
        BY <1>0, BoundAssumption DEF TypeOK, Row
      <4> QED
        BY <1>0, <2>2, <4>1 DEF RowsInOrder
    <3> QED
      BY <1>1, <1>5, <3>1
  <2>3. ASSUME NEW q \in Row, q > last
        PROVE  /\ attempts'[q] = 0 /\ copies'[q] = 0 /\ slack'[q] = 0
               /\ ~dup'[q] /\ record'[q] = "none" /\ q \notin mediaError' /\ bubble'[q].turn = Nil
    BY <1>0, <1>4, <1>5, <2>2, <2>3 DEF RowsInOrder
  <2> QED
    BY <1>0, <1>5, <2>1, <2>3 DEF RowsInOrder
<1>8. \A q \in Row : state'[q] # "sending"
  BY <1>1, <1>3, <1>4 DEF Waiting
<1>9. WorkerHolds' /\ WorkerHoldsHeads'
  BY <1>5, <1>8 DEF WorkerHolds, WorkerHoldsHeads
<1>10. CopiesCounted'
  <2>1. ASSUME NEW q \in Row
        PROVE  /\ copies'[q] <= attempts'[q] + slack'[q]
               /\ attempts'[q] <= 2
               /\ state'[q] \in Waiting \cup {"superseded"} => attempts'[q] <= 1
    <3>1. /\ copies[q] + OnWire(q) <= attempts[q] + slack[q] /\ attempts[q] <= 2
          /\ state[q] \in Waiting \cup {"superseded"} => attempts[q] <= 1
          /\ copies[q] \in Nat /\ attempts[q] \in Nat /\ slack[q] \in Nat
      BY <1>0 DEF CopiesCounted, TypeOK
    <3>2. CASE state[q] = "sending"
      BY <1>3, <1>4, <1>5, <3>1, <3>2 DEF OnWire, Waiting
    <3>3. CASE state[q] # "sending" /\ q \in revived
      BY <1>4, <3>1, <3>3 DEF OnWire
    <3>4. CASE state[q] # "sending" /\ q \notin revived
      BY <1>1, <1>4, <3>1, <3>4 DEF OnWire
    <3> QED
      BY <3>2, <3>3, <3>4
  <2>2. ASSUME NEW q \in Row PROVE OnWire(q)' = 0
    BY <1>8 DEF OnWire
  <2>3. copies' \in [Row -> Nat]
    BY <1>6 DEF TypeOK
  <2> QED
    BY <2>1, <2>2, <2>3 DEF CopiesCounted
<1>11. ClipSentOnce'
  <2>1. ASSUME NEW q \in Row, IsVideo(q)
        PROVE  /\ copies'[q] <= 1 /\ q \notin mediaError' /\ bubble[q].turn \notin HeartbeatTurns
               /\ state'[q] = "pending" => copies'[q] = 0 /\ attempts'[q] = 0
    <3>1. /\ copies[q] <= 1 /\ q \notin mediaError /\ bubble[q].turn \notin HeartbeatTurns
          /\ copies[q] \in Nat
          /\ state[q] \in {"pending", "sending"} => copies[q] = 0 /\ attempts[q] = OnWire(q)
      BY <1>0, <2>1 DEF ClipSentOnce, TypeOK
    <3>2. CASE state[q] = "sending"
      BY <1>3, <1>4, <3>1, <3>2, <1>5
    <3>3. CASE state[q] # "sending"
      BY <1>1, <1>4, <1>5, <3>1, <3>3 DEF OnWire
    <3> QED
      BY <3>2, <3>3
  <2>2. ASSUME NEW q \in Row PROVE OnWire(q)' = 0
    BY <1>8 DEF OnWire
  <2> QED
    BY <1>5, <1>8, <2>1, <2>2 DEF ClipSentOnce, IsVideo
<1>12. DuplicatesMarked'
  <2>1. ASSUME NEW q \in Row
        PROVE  /\ copies'[q] > 0 => dup'[q] \/ state'[q] = "sent"
               /\ state'[q] = "sent" => copies'[q] > 0
               /\ state'[q] = "ambiguous" => dup'[q]
    <3>1. /\ copies[q] > 0 => dup[q] \/ state[q] = "sent"
          /\ state[q] = "sent" => copies[q] > 0
          /\ state[q] = "ambiguous" => dup[q]
      BY <1>0 DEF DuplicatesMarked
    <3>2. CASE state[q] = "sending"
      BY <1>3, <1>4, <3>2
    <3>3. CASE state[q] # "sending" /\ q \in revived
      <4>1. state'[q] = "pending" /\ state[q] = "failed" /\ dup'[q] = dup[q] /\ copies'[q] = copies[q]
        BY <1>0, <1>4, <1>5, <3>3 DEF TypeOK
      <4> QED
        BY <3>1, <4>1
    <3>4. CASE state[q] # "sending" /\ q \notin revived
      <4>1. state'[q] = st1[q] /\ dup'[q] = dup[q] /\ copies'[q] = copies[q]
        BY <1>0, <1>4, <3>4 DEF TypeOK
      <4> QED
        BY <1>1, <3>1, <3>4, <4>1 DEF Waiting
    <3> QED
      BY <3>2, <3>3, <3>4
  <2> QED
    BY <1>5, <2>1 DEF DuplicatesMarked, ChannelOf
<1>13. RecordAgrees'
  <2>1. ASSUME NEW q \in Row, record'[q] # "none" PROVE Agrees(q, record'[q], state'[q], dup'[q])
    <3>1. CASE state[q] = "sending"
      BY <1>4, <2>1, <3>1 DEF Sync, Agrees
    <3>2. CASE state[q] # "sending" /\ q \in revived
      <4>1. dup[q] \in BOOLEAN
        BY <1>0 DEF TypeOK
      <4> QED
        BY <1>4, <2>1, <3>2, <4>1 DEF Sync, Agrees
    <3>3. CASE state[q] # "sending" /\ q \notin revived
      <4>1. dup[q] \in BOOLEAN /\ dup'[q] = dup[q]
        BY <1>0, <1>4, <3>3 DEF TypeOK
      <4> QED
        BY <1>1, <1>4, <2>1, <3>3, <4>1
    <3> QED
      BY <3>1, <3>2, <3>3
  <2> QED
    BY <1>5, <2>1 DEF RecordAgrees, Agrees, Lags, MessageState
<1> QED
  BY <1>6, <1>7, <1>9, <1>10, <1>11, <1>12, <1>13 DEF IInv

\* A crash and the recovery of a start keep the invariant.
LEMMA RecoverKeeps == IInv /\ Recover => IInv'
  BY RestartKeeps DEF Recover

-----------------------------------------------------------------------------
(***************************************************************************)
(* The theorems.                                                           *)
(***************************************************************************)

\* Steps that change nothing keep the invariant.
LEMMA StutterKeeps == IInv /\ UNCHANGED vars => IInv'
<1> SUFFICES ASSUME IInv, UNCHANGED vars PROVE IInv'
  OBVIOUS
<1> USE DEF vars, tableVars, workerVars, historyVars
<1>1. TypeOK'
  BY DEF IInv, TypeOK
<1>2. RowsInOrder' /\ RecordAgrees' /\ CopiesCounted'
  BY DEF IInv, RowsInOrder, RecordAgrees, CopiesCounted, Agrees, Lags, MessageState, OnWire
<1>3. WorkerHolds' /\ WorkerHoldsHeads' /\ ClipSentOnce' /\ DuplicatesMarked'
  BY DEF IInv, WorkerHolds, WorkerHoldsHeads, ClipSentOnce, DuplicatesMarked,
         AtHead, OnWire, ChannelOf, InTheWay, UncertainVideo, IsVideo
<1> QED
  BY <1>1, <1>2, <1>3 DEF IInv

\* Every step keeps the invariant.
LEMMA StepKeeps == IInv /\ [Next]_vars => IInv'
  BY SpeakKeeps, SilenceKeeps, ClockKeeps, WorkKeeps, RecoverKeeps, StutterKeeps DEF Next

\* The invariant of the outbox: ids in order, the worker's snapshot consistent with the
\* table, attempts counting dispatches, marks of possible duplicates where needed.
THEOREM Inductive == Spec => []IInv
<1>1. Init => IInv
  BY InitKeeps
<1>2. IInv /\ [Next]_vars => IInv'
  BY StepKeeps
<1> QED
  BY <1>1, <1>2, PTL DEF Spec

\* Every column and every worker variable of every reachable state has its type.
THEOREM TypeCorrect == Spec => []TypeOK
<1>1. IInv => TypeOK
  BY DEF IInv
<1> QED
  BY <1>1, Inductive, PTL

\* A bubble may reach the owner at most twice and a clip at most once, up to the
\* dispatches that other parts of the code took off its attempts.
THEOREM CopiesAreBounded == Spec => []BoundedCopies
<1>1. IInv => BoundedCopies
  <2> SUFFICES ASSUME IInv, NEW r \in Row
               PROVE  copies[r] <= 2 + slack[r] /\ (IsVideo(r) => copies[r] <= 1)
    BY DEF BoundedCopies
  <2>1. /\ copies[r] \in Nat /\ attempts[r] \in Nat /\ slack[r] \in Nat
        /\ OnWire(r) \in {0, 1}
    BY DEF IInv, TypeOK, OnWire
  <2>2. copies[r] + OnWire(r) <= attempts[r] + slack[r] /\ attempts[r] <= 2
    BY DEF IInv, CopiesCounted
  <2>3. IsVideo(r) => copies[r] <= 1
    BY DEF IInv, ClipSentOnce
  <2> QED
    BY <2>1, <2>2, <2>3
<1> QED
  BY <1>1, Inductive, PTL

\* A bubble on the wire has nothing of its channel before it that is not out of the way.
THEOREM OrderIsKept == Spec => []ChannelOrder
<1>1. IInv => ChannelOrder
  <2> SUFFICES ASSUME IInv, NEW r \in Row, state[r] = "sending",
                      NEW e \in Row, e < r, ChannelOf(e) = ChannelOf(r)
               PROVE  ~InTheWay(e, state)
    BY DEF ChannelOrder
  <2>1. r \in batch /\ e # r
    BY DEF IInv, WorkerHolds, AtHead, Row
  <2> QED
    BY <2>1 DEF IInv, WorkerHoldsHeads
<1> QED
  BY <1>1, Inductive, PTL

\* The dialogue record says what the row says, in every reachable state.
THEOREM RecordIsKept == Spec => []RecordAgrees
<1>1. IInv => RecordAgrees
  BY DEF IInv
<1> QED
  BY <1>1, Inductive, PTL

\* What may have been seen is recorded as delivered or uncertain, never otherwise, and
\* only a send that succeeded is recorded as delivered.
THEOREM RecordIsHonest == Spec => []HonestRecord
<1>1. IInv => HonestRecord
  <2> SUFFICES ASSUME IInv, NEW r \in Row, record[r] # "none"
               PROVE  /\ copies[r] > 0 => record[r] \in {"delivered", "uncertain"}
                      /\ record[r] = "delivered" => copies[r] > 0
    BY DEF HonestRecord
  <2>1. /\ Agrees(r, record[r], state[r], dup[r])
        /\ copies[r] > 0 => dup[r] \/ state[r] = "sent"
        /\ state[r] = "sent" => copies[r] > 0
    BY DEF IInv, RecordAgrees, DuplicatesMarked
  <2>2. ASSUME copies[r] > 0 PROVE record[r] \in {"delivered", "uncertain"}
    <3>1. ~Lags(r, record[r], state[r], dup[r])
      BY <2>1, <2>2 DEF Lags, Open, Waiting
    <3> QED
      BY <2>1, <2>2, <3>1 DEF Agrees, MessageState
  <2>3. ASSUME record[r] = "delivered" PROVE copies[r] > 0
    <3>1. state[r] = "sent"
      BY <2>1, <2>3 DEF Agrees, Lags, MessageState
    <3> QED
      BY <2>1, <3>1
  <2> QED
    BY <2>2, <2>3
<1> QED
  BY <1>1, Inductive, PTL

\* No step takes a row out of "sent" or lets a sent bubble reach the owner again.
THEOREM DeliveryIsFinal == Spec => DeliveredIsFinal
<1> DEFINE Final == \A r \in Row : state[r] = "sent" => state'[r] = "sent" /\ copies'[r] = copies[r]
<1>1. IInv /\ [Next]_vars => [Final]_vars
  <2> SUFFICES ASSUME IInv, Next, NEW q \in Row, state[q] = "sent"
               PROVE  state'[q] = "sent" /\ copies'[q] = copies[q]
    BY DEF vars
  <2>0. TypeOK /\ RowsInOrder
    BY DEF IInv
  <2>1. CASE Speak
    <3>1. ASSUME NEW t, NEW c, NEW k, NEW rec, Insert(c, k, t, rec), copies' = copies
          PROVE  state'[q] = "sent" /\ copies'[q] = copies[q]
      <4>1. q # last + 1
        BY <2>0, BoundAssumption DEF RowsInOrder, TypeOK, Row
      <4> QED
        BY <2>0, <3>1, <4>1 DEF Insert, TypeOK
    <3> QED
      BY <2>1, <3>1 DEF Speak, QueueProgress, CommitTurn, CommitTurnWith, EndHeartbeat,
         AskReconciliation, QueueNotification, QueueVideo, historyVars
  <2>2. CASE Silence
    <3>1. \A st, rs : st[q] = "sent" => CancelState(st, rs)[q] = "sent"
      BY DEF CancelState, Waiting
    <3>2. \A st : st[q] = "sent" => SupersedeState(st)[q] = "sent"
      BY DEF SupersedeState, HeartbeatContacts, Waiting
    <3>3. ASSUME NEW st, NEW rec, Withdraw(st, rec), st[q] = "sent"
          PROVE  state'[q] = "sent" /\ copies'[q] = copies[q]
      BY <3>3 DEF Withdraw, historyVars
    <3>4. ASSUME NEW c \in Channels, OwnerMessage(c) PROVE state'[q] = "sent" /\ copies'[q] = copies[q]
      BY <3>1, <3>2, <3>3, <3>4 DEF OwnerMessage
    <3>5. ASSUME NEW c \in Channels, StopCommand(c) PROVE state'[q] = "sent" /\ copies'[q] = copies[q]
      BY <3>1, <3>2, <3>3, <3>5 DEF StopCommand
    <3>6. ASSUME NEW c \in Channels, CancelQueue(c) PROVE state'[q] = "sent" /\ copies'[q] = copies[q]
      BY <3>1, <3>3, <3>6 DEF CancelQueue
    <3>7. ASSUME NEW c \in Channels, NEW t \in Turns, Recall(t, c)
          PROVE  state'[q] = "sent" /\ copies'[q] = copies[q]
      BY <3>1, <3>3, <3>7 DEF Recall
    <3> QED
      BY <2>2, <3>4, <3>5, <3>6, <3>7 DEF Silence
  <2>3. CASE Clock
    BY <2>3 DEF Clock, RetryDue, GiveUpTime, tableVars, historyVars
  <2>4. CASE Snapshot
    BY <2>4 DEF Snapshot, tableVars, historyVars
  <2>5. ASSUME NEW r \in Row, WorkRow(r) PROVE state'[q] = "sent" /\ copies'[q] = copies[q]
    <3>1. AtHead(r)
      BY <2>5 DEF WorkRow, NotConfigured, BeginGap, DropWithdrawn, ContextExpired, BeginSynthesis,
         SynthesisFails, BeginSend, RefusedRetry, RefusedGiveUp, SendAmbiguous, SendFailed,
         SendSucceeds, AtDispatch, ReadyToSend, Sending
    <3>2. q # r
      BY <3>1, AtHeadFacts
    <3>3. (\E s : state' = [state EXCEPT ![r] = s]) \/ state' = state
      BY <2>5 DEF WorkRow, NotConfigured, BeginGap, DropWithdrawn, ContextExpired, BeginSynthesis,
         SynthesisFails, BeginSend, RefusedRetry, RefusedGiveUp, SendAmbiguous, SendFailed,
         SendSucceeds, MarkSending, MarkNotDispatched, MarkAmbiguous, MarkFailed, MarkSent,
         tableVars
    <3>4. (\E n : copies' = [copies EXCEPT ![r] = n]) \/ copies' = copies
      BY <2>5 DEF WorkRow, NotConfigured, BeginGap, DropWithdrawn, ContextExpired, BeginSynthesis,
         SynthesisFails, BeginSend, RefusedRetry, RefusedGiveUp, SendAmbiguous, SendFailed,
         SendSucceeds, Reaches, historyVars
    <3> QED
      BY <2>0, <3>2, <3>3, <3>4 DEF TypeOK
  <2>6. CASE Recover
    <3>1. PICK cfg \in ConfigChoices, revived \in SUBSET Row : Restart(cfg, revived)
      BY <2>6 DEF Recover
    <3>2. q \notin revived /\ SupersedeState(state)[q] = "sent"
      BY <3>1 DEF Restart, SupersedeState, HeartbeatContacts, Waiting
    <3> QED
      BY <3>1, <3>2 DEF Restart
  <2> QED
    BY <2>1, <2>2, <2>3, <2>4, <2>5, <2>6 DEF Next, Work
<1> QED
  BY <1>1, Inductive, PTL DEF Spec, DeliveredIsFinal

\* No step of a process takes a withdrawn row up again, unless its channel is missing.
THEOREM WithdrawalHolds == Spec => WithdrawnNeverSent
<1> DEFINE Kept(q) == \/ state'[q] = "superseded"
                      \/ state'[q] = "pending" /\ ChannelOf(q) \notin configured'
<1>1. IInv /\ [Next]_vars => [StaysWithdrawn]_vars
  <2> SUFFICES ASSUME IInv, Next, NEW q \in Row, state[q] = "superseded", restarts' = restarts
               PROVE  Kept(q)
    BY DEF vars, StaysWithdrawn
  <2>0. TypeOK /\ RowsInOrder
    BY DEF IInv
  <2>1. CASE Speak
    <3>1. ASSUME NEW t, NEW c, NEW k, NEW rec, Insert(c, k, t, rec)
          PROVE  state'[q] = "superseded"
      <4>1. q # last + 1
        BY <2>0, BoundAssumption DEF RowsInOrder, TypeOK, Row
      <4> QED
        BY <2>0, <3>1, <4>1 DEF Insert, TypeOK
    <3> QED
      BY <2>1, <3>1 DEF Speak, QueueProgress, CommitTurn, CommitTurnWith, EndHeartbeat,
         AskReconciliation, QueueNotification, QueueVideo, historyVars
  <2>2. CASE Silence
    <3>1. \A st, rs : st[q] = "superseded" => CancelState(st, rs)[q] = "superseded"
      BY DEF CancelState
    <3>2. \A st : st[q] = "superseded" => SupersedeState(st)[q] = "superseded"
      BY DEF SupersedeState
    <3>3. ASSUME NEW st, NEW rec, Withdraw(st, rec), st[q] = "superseded"
          PROVE  state'[q] = "superseded"
      BY <3>3 DEF Withdraw
    <3>4. ASSUME NEW c \in Channels, OwnerMessage(c) PROVE state'[q] = "superseded"
      BY <3>1, <3>2, <3>3, <3>4 DEF OwnerMessage
    <3>5. ASSUME NEW c \in Channels, StopCommand(c) PROVE state'[q] = "superseded"
      BY <3>1, <3>2, <3>3, <3>5 DEF StopCommand
    <3>6. ASSUME NEW c \in Channels, CancelQueue(c) PROVE state'[q] = "superseded"
      BY <3>1, <3>3, <3>6 DEF CancelQueue
    <3>7. ASSUME NEW c \in Channels, NEW t \in Turns, Recall(t, c) PROVE state'[q] = "superseded"
      BY <3>1, <3>3, <3>7 DEF Recall
    <3> QED
      BY <2>2, <3>4, <3>5, <3>6, <3>7 DEF Silence
  <2>3. CASE Clock
    BY <2>3 DEF Clock, RetryDue, GiveUpTime, tableVars
  <2>4. CASE Snapshot
    BY <2>4 DEF Snapshot, tableVars
  <2>5. ASSUME NEW r \in Row, WorkRow(r) PROVE Kept(q)
    <3>1. CASE q # r
      <4>1. (\E s : state' = [state EXCEPT ![r] = s]) \/ state' = state
        BY <2>5 DEF WorkRow, NotConfigured, BeginGap, DropWithdrawn, ContextExpired,
           BeginSynthesis, SynthesisFails, BeginSend, RefusedRetry, RefusedGiveUp,
           SendAmbiguous, SendFailed, SendSucceeds, MarkSending, MarkNotDispatched,
           MarkAmbiguous, MarkFailed, MarkSent, tableVars
      <4> QED
        BY <2>0, <3>1, <4>1 DEF TypeOK
    <3>2. CASE q = r
      <4>1. ~Dispatchable(r) /\ ~Sending(r)
        BY <3>2 DEF Dispatchable, Waiting, Sending, IInv, WorkerHolds
      <4>2. CASE NotConfigured(r)
        BY <2>0, <3>2, <4>2 DEF NotConfigured, TypeOK, MarkNotDispatched, ChannelOf, RowStep
      <4>3. CASE BeginGap(r) \/ DropWithdrawn(r)
        BY <3>2, <4>3 DEF BeginGap, DropWithdrawn, tableVars
      <4> QED
        BY <2>5, <4>1, <4>2, <4>3 DEF WorkRow, ContextExpired, BeginSynthesis, SynthesisFails,
           BeginSend, ReadyToSend, RefusedRetry, RefusedGiveUp, SendAmbiguous, SendFailed,
           SendSucceeds
    <3> QED
      BY <3>1, <3>2
  <2>6. CASE Recover
    BY <2>0, <2>6 DEF Recover, Restart, TypeOK
  <2> QED
    BY <2>1, <2>2, <2>3, <2>4, <2>5, <2>6 DEF Next, Work
<1> QED
  BY <1>1, Inductive, PTL DEF Spec, WithdrawnNeverSent
=============================================================================
