--------------------------- MODULE StoreTxProofs ---------------------------
(***************************************************************************)
(* The statements inside the SQL transactions implement the one-step       *)
(* operations, for every set of transactions and resources and every       *)
(* length of a list.                                                       *)
(*                                                                         *)
(* ConnOK says, statement by statement, what the open SQL transaction has  *)
(* made of the tables.  It relates draft to the committed tables, which    *)
(* stay as they are while the connection is taken; when Commit copies      *)
(* draft to them, what it says of "commit" is the operation's action.      *)
(***************************************************************************)
EXTENDS StoreTx, TxnStoreProofs, SequenceTheorems

USE DEF Absent, NULL, Votes, Decisions, Finals, NonTerminal, Terminal

\* The tables as a record of columns.
DraftType ==
  [resVote : [Resources -> Votes \cup {Absent}],
   committedCount : [Resources -> Nat],
   abortedCount : [Resources -> Nat],
   txnState : [Txns -> NonTerminal \cup Terminal \cup {Absent}],
   txnDecision : [Txns -> Decisions \cup {NULL}],
   partVote : [Txns -> [Resources -> Votes \cup {NULL}]],
   partFinal : [Txns -> [Resources -> Finals \cup {NULL, Absent}]],
   decisions : [Txns -> Decisions \cup {NULL}],
   ledger : SUBSET (Resources \X Txns)]

ResKept == /\ draft.resVote = resVote
           /\ draft.committedCount = committedCount
           /\ draft.abortedCount = abortedCount

RowKept == draft.txnState = txnState /\ draft.txnDecision = txnDecision

DeleteResourceOK ==
  /\ conn \in [op : {"deleteResource"}, res : Resources, next : {"row", "commit"}]
  /\ resVote[conn.res] # Absent
  /\ ActiveTxns(conn.res) = {}
  /\ RowKept
  /\ draft.partVote = partVote /\ draft.partFinal = partFinal
  /\ draft.decisions = decisions /\ draft.ledger = ledger
  /\ conn.next = "row" => ResKept
  /\ conn.next = "commit" =>
       /\ draft.resVote = [resVote EXCEPT ![conn.res] = Absent]
       /\ draft.committedCount = [committedCount EXCEPT ![conn.res] = 0]
       /\ draft.abortedCount = [abortedCount EXCEPT ![conn.res] = 0]

\* The names whose participant is inserted.
Listed == {conn.names[i] : i \in 1..(conn.at - 1)}

BeginOK ==
  /\ conn \in [op : {"begin"}, txn : Txns, names : Seq(Resources), at : Nat \ {0},
               next : {"row", "participant", "commit"}]
  /\ \A r \in Range(conn.names) : resVote[r] # Absent
  /\ \A r \in Range(conn.names) : committedCount[r] + abortedCount[r] < MaxEffects
  /\ ResKept
  /\ draft.txnDecision = txnDecision /\ draft.partVote = partVote
  /\ draft.decisions = decisions /\ draft.ledger = ledger
  /\ conn.next = "row" => RowKept /\ draft.partFinal = partFinal /\ conn.at = 1
  /\ conn.next # "row" =>
       /\ txnState[conn.txn] = Absent
       /\ draft.txnState = [txnState EXCEPT ![conn.txn] = "PREPARING"]
       /\ draft.partFinal = [partFinal EXCEPT ![conn.txn] =
                               [r \in Resources |-> IF r \in Listed THEN NULL ELSE Absent]]
  /\ conn.next = "participant" => conn.at <= Len(conn.names)
  /\ conn.next = "commit" => conn.at = Len(conn.names) + 1
  /\ \A i, j \in 1..(conn.at - 1) : conn.names[i] = conn.names[j] => i = j

\* The vote columns of the transaction when some votes are left to write.
VotesWritten ==
  [r \in Resources |-> IF r \in Members(conn.txn) /\ conn.votes[r] # NULL /\ r \notin conn.left
                       THEN conn.votes[r] ELSE partVote[conn.txn][r]]

RecordOK ==
  /\ conn \in [op : {"record"}, txn : Txns, votes : [Resources -> Votes \cup {NULL}],
               decision : Decisions, left : SUBSET Resources,
               next : {"votes", "state", "commit"}]
  /\ txnState[conn.txn] = "PREPARING"
  /\ ResKept
  /\ draft.partFinal = partFinal /\ draft.ledger = ledger
  /\ conn.left \subseteq {r \in Resources : conn.votes[r] # NULL}
  /\ draft.partVote = [partVote EXCEPT ![conn.txn] = VotesWritten]
  /\ conn.next = "votes" => draft.decisions = decisions
  /\ conn.next # "votes" =>
       /\ conn.left = {} /\ decisions[conn.txn] = NULL
       /\ draft.decisions = [decisions EXCEPT ![conn.txn] = conn.decision]
  /\ conn.next # "commit" => RowKept
  /\ conn.next = "commit" =>
       /\ draft.txnState = [txnState EXCEPT ![conn.txn] =
                              IF conn.decision = "abort" THEN "ABORTING" ELSE "COMMITTING"]
       /\ draft.txnDecision = [txnDecision EXCEPT ![conn.txn] = conn.decision]

\* The ledger and the counters as the operation leaves them.
Effects(r, t, f) ==
  /\ draft.ledger = IF f = "committed" THEN ledger \cup {<<r, t>>} ELSE ledger
  /\ draft.resVote = resVote
  /\ draft.committedCount = IF f = "committed" /\ resVote[r] # Absent
                            THEN [committedCount EXCEPT ![r] = @ + 1] ELSE committedCount
  /\ draft.abortedCount = IF f = "aborted" /\ resVote[r] # Absent
                          THEN [abortedCount EXCEPT ![r] = @ + 1] ELSE abortedCount

FinalizeOK ==
  /\ conn \in [op : {"finalize"}, txn : Txns, res : Resources, final : Finals,
               next : {"final", "ledger", "count", "commit"}]
  /\ RowKept /\ draft.partVote = partVote /\ draft.decisions = decisions
  /\ conn.next # "commit" => ResKept /\ partFinal[conn.txn][conn.res] = NULL
  /\ conn.next = "final" => draft.partFinal = partFinal
  /\ conn.next \in {"ledger", "count"} =>
       draft.partFinal = [partFinal EXCEPT ![conn.txn][conn.res] = conn.final]
  /\ conn.next \in {"final", "ledger"} => draft.ledger = ledger
  /\ conn.next = "ledger" => conn.final = "committed"
  /\ conn.next = "count" =>
       draft.ledger = IF conn.final = "committed" THEN ledger \cup {<<conn.res, conn.txn>>}
                      ELSE ledger
  /\ conn.next = "commit" =>
       \/ ResKept /\ draft.partFinal = partFinal /\ draft.ledger = ledger
       \/ /\ partFinal[conn.txn][conn.res] = NULL
          /\ draft.partFinal = [partFinal EXCEPT ![conn.txn][conn.res] = conn.final]
          /\ Effects(conn.res, conn.txn, conn.final)

DeleteTxnOK ==
  /\ conn \in [op : {"deleteTxn"}, txn : Txns,
               next : {"participants", "decisions", "ledger", "row", "commit"}]
  /\ txnState[conn.txn] \in Terminal
  /\ ResKept
  /\ conn.next = "participants" => draft.partVote = partVote /\ draft.partFinal = partFinal
  /\ conn.next # "participants" =>
       /\ draft.partVote = [partVote EXCEPT ![conn.txn] = [r \in Resources |-> NULL]]
       /\ draft.partFinal = [partFinal EXCEPT ![conn.txn] = [r \in Resources |-> Absent]]
  /\ conn.next \in {"participants", "decisions"} => draft.decisions = decisions
  /\ conn.next \notin {"participants", "decisions"} =>
       draft.decisions = [decisions EXCEPT ![conn.txn] = NULL]
  /\ conn.next \in {"participants", "decisions", "ledger"} => draft.ledger = ledger
  /\ conn.next \in {"row", "commit"} => draft.ledger = {e \in ledger : e[2] # conn.txn}
  /\ conn.next # "commit" => RowKept
  /\ conn.next = "commit" =>
       /\ draft.txnState = [txnState EXCEPT ![conn.txn] = Absent]
       /\ draft.txnDecision = [txnDecision EXCEPT ![conn.txn] = NULL]

ConnOK ==
  \/ conn = NoTx
  \/ draft \in DraftType /\ (DeleteResourceOK \/ BeginOK \/ RecordOK \/ FinalizeOK \/ DeleteTxnOK)

StoreTxInv == StoreIInv /\ ConnOK

-----------------------------------------------------------------------------
(* An operation opens. *)

LEMMA CommittedType == StoreTypeOK => Committed \in DraftType
BY DEF StoreTypeOK, Committed, DraftType

\* What a fresh SQL transaction sees is what is committed.
LEMMA OpenKeeps ==
  ASSUME NEW c, StoreTypeOK, Open(c)
  PROVE  /\ conn' = c /\ (draft \in DraftType)'
         /\ UNCHANGED tables
         /\ ResKept' /\ RowKept'
         /\ draft'.partVote = partVote' /\ draft'.partFinal = partFinal'
         /\ draft'.decisions = decisions' /\ draft'.ledger = ledger'
<1>1. conn' = c /\ draft' = Committed /\ UNCHANGED tables
  BY DEF Open
<1>2. draft' \in DraftType
  BY <1>1, CommittedType
<1>3. (draft \in DraftType)'
  BY <1>2 DEF DraftType
<1> QED BY <1>1, <1>3 DEF Committed, tables, ResKept, RowKept

LEMMA CallOK ==
  ASSUME StoreIInv, Call
  PROVE  ConnOK' /\ UNCHANGED tables
<1>0. StoreTypeOK
  BY DEF StoreIInv
<1>1. ASSUME NEW r \in Resources, OpenDeleteResource(r)
      PROVE  ConnOK' /\ UNCHANGED tables
  <2>1. resVote[r] # Absent /\ ActiveTxns(r) = {}
        /\ Open([op |-> "deleteResource", res |-> r, next |-> "row"])
    BY <1>1 DEF OpenDeleteResource
  <2>2. (ActiveTxns(r) = {})' /\ resVote'[r] # Absent
    BY <2>1, <1>0, OpenKeeps DEF ActiveTxns, Members, tables
  <2>3. conn' = [op |-> "deleteResource", res |-> r, next |-> "row"]
    BY <2>1, <1>0, OpenKeeps
  <2>4. DeleteResourceOK'
    BY <2>1, <2>2, <2>3, <1>0, OpenKeeps DEF DeleteResourceOK
  <2> QED BY <2>1, <2>4, <1>0, OpenKeeps DEF ConnOK
<1>2. ASSUME NEW t \in Txns, NEW n \in 0..MaxNames, NEW names \in [1..n -> Resources],
             OpenBegin(t, names)
      PROVE  ConnOK' /\ UNCHANGED tables
  <2>1. /\ \A r \in Range(names) : resVote[r] # Absent
        /\ \A r \in Range(names) : committedCount[r] + abortedCount[r] < MaxEffects
        /\ Open([op |-> "begin", txn |-> t, names |-> names, at |-> 1, next |-> "row"])
    BY <1>2 DEF OpenBegin
  <2>2. names \in Seq(Resources)
    BY SeqDef
  <2>3. conn' = [op |-> "begin", txn |-> t, names |-> names, at |-> 1, next |-> "row"]
    BY <2>1, <1>0, OpenKeeps
  <2>4. /\ conn'.op = "begin" /\ conn'.txn = t /\ conn'.names = names
        /\ conn'.at = 1 /\ conn'.next = "row"
    BY <2>3
  <2>5. conn' \in [op : {"begin"}, txn : Txns, names : Seq(Resources), at : Nat \ {0},
                   next : {"row", "participant", "commit"}]
    BY <2>2, <2>3
  <2>6. /\ \A r \in Range(conn'.names) : resVote'[r] # Absent
        /\ \A r \in Range(conn'.names) : committedCount'[r] + abortedCount'[r] < MaxEffects
    BY <2>1, <2>4, <1>0, OpenKeeps DEF tables
  <2>7. /\ ResKept' /\ RowKept'
        /\ draft'.partVote = partVote' /\ draft'.partFinal = partFinal'
        /\ draft'.decisions = decisions' /\ draft'.ledger = ledger'
    BY <2>1, <1>0, OpenKeeps
  <2>8. \A i, j \in 1..(conn'.at - 1) : conn'.names[i] = conn'.names[j] => i = j
    BY <2>4
  <2>9. BeginOK'
    BY <2>4, <2>5, <2>6, <2>7, <2>8 DEF BeginOK, RowKept
  <2> QED BY <2>1, <2>9, <1>0, OpenKeeps DEF ConnOK
<1>3. ASSUME NEW t \in Txns, NEW votes \in [Resources -> Votes \cup {NULL}],
             NEW d \in Decisions, OpenRecord(t, votes, d)
      PROVE  ConnOK' /\ UNCHANGED tables
  <2> DEFINE c == [op |-> "record", txn |-> t, votes |-> votes, decision |-> d,
                   left |-> {r \in Resources : votes[r] # NULL}, next |-> "votes"]
  <2>1. txnState[t] = "PREPARING" /\ Open(c)
    BY <1>3 DEF OpenRecord
  <2>2. conn' = c
    BY <2>1, <1>0, OpenKeeps
  <2>3. VotesWritten' = partVote'[t]
    BY <2>1, <2>2, <1>0, OpenKeeps DEF VotesWritten, StoreTypeOK, tables
  <2>4. draft'.partVote = [partVote' EXCEPT ![t] = VotesWritten']
    BY <2>1, <2>3, <1>0, OpenKeeps DEF StoreTypeOK, tables
  <2>5. RecordOK'
    BY <2>1, <2>2, <2>4, <1>0, OpenKeeps DEF RecordOK, tables
  <2> QED BY <2>1, <2>5, <1>0, OpenKeeps DEF ConnOK
<1>4. ASSUME NEW t \in Txns, NEW r \in Resources, NEW f \in Finals, OpenFinalize(t, r, f)
      PROVE  ConnOK' /\ UNCHANGED tables
  <2> DEFINE c == [op |-> "finalize", txn |-> t, res |-> r, final |-> f,
                   next |-> IF partFinal[t][r] = NULL THEN "final" ELSE "commit"]
  <2>1. partFinal[t][r] # Absent /\ Open(c)
    BY <1>4 DEF OpenFinalize
  <2>2. conn' = c
    BY <2>1, <1>0, OpenKeeps
  <2>3. FinalizeOK'
    BY <2>1, <2>2, <1>0, OpenKeeps DEF FinalizeOK, tables
  <2> QED BY <2>1, <2>3, <1>0, OpenKeeps DEF ConnOK
<1>5. ASSUME NEW t \in Txns, OpenDeleteTxn(t)
      PROVE  ConnOK' /\ UNCHANGED tables
  <2>1. txnState[t] \in Terminal
        /\ Open([op |-> "deleteTxn", txn |-> t, next |-> "participants"])
    BY <1>5 DEF OpenDeleteTxn
  <2>2. conn' = [op |-> "deleteTxn", txn |-> t, next |-> "participants"]
    BY <2>1, <1>0, OpenKeeps
  <2>3. DeleteTxnOK'
    BY <2>1, <2>2, <1>0, OpenKeeps DEF DeleteTxnOK, tables
  <2> QED BY <2>1, <2>3, <1>0, OpenKeeps DEF ConnOK
<1> QED BY <1>1, <1>2, <1>3, <1>4, <1>5 DEF Call

-----------------------------------------------------------------------------
(* A statement writes the draft only. *)

\* The statements of each operation.
LEMMA StatementOf ==
  ASSUME Statement
  PROVE  /\ conn.op = "deleteResource" => DeleteResourceRow
         /\ conn.op = "begin" => InsertTxnRow \/ InsertParticipant
         /\ conn.op = "record" => (\E r \in Resources : WriteVote(r)) \/ InsertDecision \/ WriteTxnState
         /\ conn.op = "finalize" => WriteFinal \/ AppendLedger \/ CountEffect
         /\ conn.op = "deleteTxn" =>
              DeleteParticipants \/ DeleteDecision \/ DeleteLedger \/ DeleteTxnRow
BY DEF Statement, DeleteResourceRow, InsertTxnRow, InsertParticipant, WriteVote, InsertDecision,
       WriteTxnState, WriteFinal, AppendLedger, CountEffect, DeleteParticipants,
       DeleteDecision, DeleteLedger, DeleteTxnRow, At

LEMMA DeleteResourceStatement ==
  ASSUME draft \in DraftType, DeleteResourceOK, Statement
  PROVE  ConnOK' /\ UNCHANGED tables
<1>1. DeleteResourceRow
  BY StatementOf DEF DeleteResourceOK
<1>2. /\ conn.next = "row" /\ UNCHANGED tables
      /\ conn' = [conn EXCEPT !.next = "commit"]
      /\ draft' = [draft EXCEPT !.resVote[conn.res] = Absent,
                                !.committedCount[conn.res] = 0,
                                !.abortedCount[conn.res] = 0]
  BY <1>1 DEF DeleteResourceRow, At, Execute
<1>3. /\ conn' \in [op : {"deleteResource"}, res : Resources, next : {"row", "commit"}]
      /\ conn'.res = conn.res /\ conn'.next = "commit" /\ conn.res \in Resources
  BY <1>2 DEF DeleteResourceOK
<1>4. /\ draft'.resVote = [draft.resVote EXCEPT ![conn.res] = Absent]
      /\ draft'.committedCount = [draft.committedCount EXCEPT ![conn.res] = 0]
      /\ draft'.abortedCount = [draft.abortedCount EXCEPT ![conn.res] = 0]
      /\ draft'.txnState = draft.txnState /\ draft'.txnDecision = draft.txnDecision
      /\ draft'.partVote = draft.partVote /\ draft'.partFinal = draft.partFinal
      /\ draft'.decisions = draft.decisions /\ draft'.ledger = draft.ledger
      /\ draft' \in DraftType
  BY <1>2, <1>3 DEF DraftType
<1>5. (ActiveTxns(conn.res) = {})'
  BY <1>2, <1>3 DEF DeleteResourceOK, ActiveTxns, Members, tables
<1>6. DeleteResourceOK'
  BY <1>2, <1>3, <1>4, <1>5 DEF DeleteResourceOK, ResKept, RowKept, tables
<1> QED BY <1>2, <1>4, <1>6 DEF ConnOK, DraftType

LEMMA BeginStatement ==
  ASSUME StoreIInv, draft \in DraftType, BeginOK, Statement
  PROVE  ConnOK' /\ UNCHANGED tables
<1> DEFINE t == conn.txn
<1>c. conn \in [op : {"begin"}, txn : Txns, names : Seq(Resources), at : Nat \ {0},
               next : {"row", "participant", "commit"}]
  BY DEF BeginOK
<1>0. /\ t \in Txns /\ conn.names \in Seq(Resources) /\ conn.at \in Nat \ {0}
      /\ Len(conn.names) \in Nat /\ DOMAIN conn.names = 1..Len(conn.names)
      /\ \A i \in 1..Len(conn.names) : conn.names[i] \in Resources
  BY <1>c, LenProperties
<1>t. /\ partFinal \in [Txns -> [Resources -> Finals \cup {NULL, Absent}]]
      /\ txnState[t] = Absent => partFinal[t] = [r \in Resources |-> Absent]
  BY <1>0 DEF StoreIInv, StoreTypeOK, NoOrphanRows
<1>r. /\ \A r \in Range(conn.names) : resVote[r] # Absent
      /\ \A r \in Range(conn.names) : committedCount[r] + abortedCount[r] < MaxEffects
      /\ ResKept
      /\ draft.txnDecision = txnDecision /\ draft.partVote = partVote
      /\ draft.decisions = decisions /\ draft.ledger = ledger
  BY DEF BeginOK
<1>1. InsertTxnRow \/ InsertParticipant
  BY <1>c, StatementOf
<1>2. CASE InsertTxnRow
  <2>1. /\ conn.next = "row" /\ UNCHANGED tables
        /\ draft.txnState[t] = Absent
        /\ conn' = [conn EXCEPT !.next = IF conn.names = <<>> THEN "commit" ELSE "participant"]
        /\ draft' = [draft EXCEPT !.txnState[t] = "PREPARING"]
    BY <1>2 DEF InsertTxnRow, At, Execute
  <2>2. /\ draft'.txnState = [draft.txnState EXCEPT ![t] = "PREPARING"]
        /\ draft'.resVote = draft.resVote
        /\ draft'.committedCount = draft.committedCount
        /\ draft'.abortedCount = draft.abortedCount
        /\ draft'.txnDecision = draft.txnDecision
        /\ draft'.partVote = draft.partVote /\ draft'.partFinal = draft.partFinal
        /\ draft'.decisions = draft.decisions /\ draft'.ledger = draft.ledger
        /\ draft' \in DraftType
    BY <1>0, <2>1 DEF DraftType
  <2>3. /\ conn' \in [op : {"begin"}, txn : Txns, names : Seq(Resources), at : Nat \ {0},
                      next : {"row", "participant", "commit"}]
        /\ conn'.txn = t /\ conn'.names = conn.names /\ conn'.at = 1
        /\ conn'.next = IF conn.names = <<>> THEN "commit" ELSE "participant"
    BY <1>c, <2>1 DEF BeginOK
  <2>4. txnState[t] = Absent /\ draft.txnState = txnState /\ draft.partFinal = partFinal
    BY <2>1 DEF RowKept, BeginOK
  <2>5. Listed' = {}
    BY <2>3 DEF Listed
  <2>6. [r \in Resources |-> IF r \in Listed' THEN NULL ELSE Absent] = partFinal[t]
    BY <1>t, <2>4, <2>5
  <2>7. draft'.partFinal = [partFinal EXCEPT ![t] =
                              [r \in Resources |-> IF r \in Listed' THEN NULL ELSE Absent]]
    BY <1>t, <2>2, <2>4, <2>6
  <2>8. conn'.next = "participant" => 1 <= Len(conn.names)
    BY <1>0, <2>3, EmptySeq
  <2>9. conn'.next = "commit" => Len(conn.names) = 0
    BY <2>3, EmptySeq
  <2>10. /\ \A r \in Range(conn'.names) : resVote'[r] # Absent
         /\ \A r \in Range(conn'.names) : committedCount'[r] + abortedCount'[r] < MaxEffects
    BY <1>r, <2>1, <2>3 DEF tables
  <2>11. \A i, j \in 1..(conn'.at - 1) : conn'.names[i] = conn'.names[j] => i = j
    BY <2>3
  <2>12. conn'.next # "row" /\ conn'.txn \in Txns
    BY <1>0, <2>3
  <2>13. BeginOK'
    BY <1>r, <2>1, <2>2, <2>3, <2>4, <2>7, <2>8, <2>9, <2>10, <2>11, <2>12
       DEF BeginOK, ResKept, tables, Range
  <2> QED BY <2>1, <2>2, <2>13 DEF ConnOK, DraftType
<1>3. CASE InsertParticipant
  <2> DEFINE q == conn.names[conn.at]
  <2>1. /\ conn.next = "participant" /\ UNCHANGED tables
        /\ draft.partFinal[t][q] = Absent
        /\ conn' = [conn EXCEPT !.at = @ + 1,
                                !.next = IF conn.at = Len(conn.names) THEN "commit" ELSE @]
        /\ draft' = [draft EXCEPT !.partFinal[t][q] = NULL]
    BY <1>3 DEF InsertParticipant, At
  <2>2. q \in Resources /\ conn.at <= Len(conn.names)
    BY <1>0, <2>1 DEF BeginOK
  <2>p. /\ txnState[t] = Absent
        /\ draft.txnState = [txnState EXCEPT ![t] = "PREPARING"]
        /\ draft.partFinal = [partFinal EXCEPT ![t] =
                                [r \in Resources |-> IF r \in Listed THEN NULL ELSE Absent]]
        /\ \A i, j \in 1..(conn.at - 1) : conn.names[i] = conn.names[j] => i = j
    BY <2>1 DEF BeginOK
  <2>3. /\ draft'.partFinal = [draft.partFinal EXCEPT ![t][q] = NULL]
        /\ draft'.resVote = draft.resVote
        /\ draft'.committedCount = draft.committedCount
        /\ draft'.abortedCount = draft.abortedCount
        /\ draft'.txnState = draft.txnState /\ draft'.txnDecision = draft.txnDecision
        /\ draft'.partVote = draft.partVote
        /\ draft'.decisions = draft.decisions /\ draft'.ledger = draft.ledger
        /\ draft' \in DraftType
    BY <1>0, <2>1, <2>2 DEF DraftType
  <2>4. /\ conn' \in [op : {"begin"}, txn : Txns, names : Seq(Resources), at : Nat \ {0},
                      next : {"row", "participant", "commit"}]
        /\ conn'.txn = t /\ conn'.names = conn.names /\ conn'.at = conn.at + 1
        /\ conn'.next = IF conn.at = Len(conn.names) THEN "commit" ELSE "participant"
    <3>1. conn.at + 1 \in Nat \ {0}
      BY <1>0
    <3> QED BY <1>c, <2>1, <3>1
  <2>5. Listed' = Listed \cup {q}
    <3>1. 1..(conn'.at - 1) = (1..(conn.at - 1)) \cup {conn.at}
      BY <1>0, <2>4
    <3>2. Listed' = {conn.names[i] : i \in 1..(conn'.at - 1)}
      BY <2>4 DEF Listed
    <3> QED BY <3>1, <3>2 DEF Listed
  <2>6. draft'.partFinal = [partFinal EXCEPT ![t] =
                              [r \in Resources |-> IF r \in Listed' THEN NULL ELSE Absent]]
    <3> DEFINE A == [r \in Resources |-> IF r \in Listed THEN NULL ELSE Absent]
               B == [r \in Resources |-> IF r \in Listed' THEN NULL ELSE Absent]
    <3>1. [A EXCEPT ![q] = NULL] = B
      BY <2>2, <2>5
    <3>2. draft.partFinal[t] = A
      BY <1>0, <1>t, <2>p
    <3>3. draft'.partFinal = [partFinal EXCEPT ![t] = [A EXCEPT ![q] = NULL]]
      BY <1>0, <1>t, <2>p, <2>3, <3>2
    <3> QED BY <3>1, <3>3
  <2>7. q \notin Listed
    BY <1>0, <1>t, <2>p, <2>1, <2>2
  <2>8. \A i, j \in 1..(conn'.at - 1) : conn'.names[i] = conn'.names[j] => i = j
    <3> SUFFICES ASSUME NEW i \in 1..conn.at, NEW j \in 1..conn.at,
                        conn.names[i] = conn.names[j]
                 PROVE  i = j
      BY <1>0, <2>4
    <3>1. \A k \in 1..(conn.at - 1) : conn.names[k] # q
      BY <2>7 DEF Listed
    <3>2. CASE i < conn.at /\ j < conn.at
      BY <1>0, <2>p, <3>2
    <3>3. CASE i = conn.at \/ j = conn.at
      BY <1>0, <3>1, <3>3
    <3> QED BY <1>0, <3>2, <3>3
  <2>9. /\ \A r \in Range(conn'.names) : resVote'[r] # Absent
        /\ \A r \in Range(conn'.names) : committedCount'[r] + abortedCount'[r] < MaxEffects
    BY <1>r, <2>1, <2>4 DEF tables
  <2>10. /\ conn'.next = "participant" => conn'.at <= Len(conn'.names)
         /\ conn'.next = "commit" => conn'.at = Len(conn'.names) + 1
    BY <1>0, <2>1, <2>2, <2>4
  <2>11. BeginOK'
    BY <1>r, <2>p, <2>1, <2>3, <2>4, <2>6, <2>8, <2>9, <2>10 DEF BeginOK, ResKept, tables, Range
  <2> QED BY <2>1, <2>3, <2>11 DEF ConnOK, DraftType
<1> QED BY <1>1, <1>2, <1>3

LEMMA RecordStatement ==
  ASSUME StoreIInv, draft \in DraftType, RecordOK, Statement
  PROVE  ConnOK' /\ UNCHANGED tables
<1> DEFINE t == conn.txn
           W(left) == [r \in Resources |-> IF r \in Members(t) /\ conn.votes[r] # NULL /\ r \notin left
                                           THEN conn.votes[r] ELSE partVote[t][r]]
<1>c. conn \in [op : {"record"}, txn : Txns, votes : [Resources -> Votes \cup {NULL}],
                decision : Decisions, left : SUBSET Resources, next : {"votes", "state", "commit"}]
  BY DEF RecordOK
<1>t. /\ t \in Txns
      /\ partVote \in [Txns -> [Resources -> Votes \cup {NULL}]]
      /\ partFinal \in [Txns -> [Resources -> Finals \cup {NULL, Absent}]]
  BY <1>c DEF StoreIInv, StoreTypeOK
<1>r. /\ txnState[t] = "PREPARING"
      /\ draft.resVote = resVote /\ draft.committedCount = committedCount
      /\ draft.abortedCount = abortedCount
      /\ draft.partFinal = partFinal /\ draft.ledger = ledger
      /\ conn.left \subseteq {r \in Resources : conn.votes[r] # NULL}
      /\ draft.partVote = [partVote EXCEPT ![t] = W(conn.left)]
  BY <1>t DEF RecordOK, ResKept, VotesWritten
<1>1. (\E r \in Resources : WriteVote(r)) \/ InsertDecision \/ WriteTxnState
  BY <1>c, StatementOf
<1>2. ASSUME NEW q \in Resources, WriteVote(q)
      PROVE  ConnOK' /\ UNCHANGED tables
  <2>1. /\ conn.next = "votes" /\ q \in conn.left /\ UNCHANGED tables
        /\ draft' = IF draft.partFinal[t][q] = Absent THEN draft
                    ELSE [draft EXCEPT !.partVote[t][q] = conn.votes[q]]
        /\ conn' = [conn EXCEPT !.left = @ \ {q}]
    BY <1>2 DEF WriteVote, At
  <2>2. /\ draft'.partVote = IF draft.partFinal[t][q] = Absent THEN draft.partVote
                             ELSE [draft.partVote EXCEPT ![t][q] = conn.votes[q]]
        /\ draft'.resVote = draft.resVote
        /\ draft'.committedCount = draft.committedCount
        /\ draft'.abortedCount = draft.abortedCount
        /\ draft'.txnState = draft.txnState /\ draft'.txnDecision = draft.txnDecision
        /\ draft'.partFinal = draft.partFinal
        /\ draft'.decisions = draft.decisions /\ draft'.ledger = draft.ledger
        /\ draft' \in DraftType
    BY <1>c, <1>t, <2>1 DEF DraftType
  <2>3. /\ conn' \in [op : {"record"}, txn : Txns, votes : [Resources -> Votes \cup {NULL}],
                      decision : Decisions, left : SUBSET Resources,
                      next : {"votes", "state", "commit"}]
        /\ conn'.txn = t /\ conn'.votes = conn.votes /\ conn'.decision = conn.decision
        /\ conn'.left = conn.left \ {q} /\ conn'.next = "votes"
    BY <1>c, <2>1
  <2>4. draft'.partVote = [partVote EXCEPT ![t] = W(conn.left \ {q})]
    <3>1. conn.votes[q] # NULL
      BY <1>r, <2>1
    <3>2. CASE partFinal[t][q] = Absent
      <4>1. W(conn.left \ {q}) = W(conn.left)
        BY <3>2 DEF Members
      <4> QED BY <1>r, <2>2, <3>2, <4>1
    <3>3. CASE partFinal[t][q] # Absent
      <4>1. [W(conn.left) EXCEPT ![q] = conn.votes[q]] = W(conn.left \ {q})
        BY <3>1, <3>3 DEF Members
      <4>2. draft.partVote[t] = W(conn.left)
        BY <1>t, <1>r
      <4>3. draft'.partVote = [partVote EXCEPT ![t] = [W(conn.left) EXCEPT ![q] = conn.votes[q]]]
        BY <1>t, <1>r, <2>2, <3>3, <4>2
      <4> QED BY <4>1, <4>3
    <3> QED BY <3>2, <3>3
  <2>5. draft.decisions = decisions /\ RowKept
    BY <2>1 DEF RecordOK
  <2>6. VotesWritten' = W(conn.left \ {q})
    BY <2>1, <2>3 DEF VotesWritten, Members, tables
  <2> HIDE DEF W
  <2>k. /\ txnState'[t] = "PREPARING" /\ ResKept'
        /\ draft'.partFinal = partFinal' /\ draft'.ledger = ledger'
        /\ draft'.partVote = [partVote' EXCEPT ![conn'.txn] = VotesWritten']
    BY <1>r, <2>1, <2>2, <2>3, <2>4, <2>6 DEF ResKept, tables
  <2>l. conn'.left \subseteq {r \in Resources : conn'.votes[r] # NULL}
    BY <1>r, <2>3
  <2>m. draft'.decisions = decisions' /\ RowKept'
    BY <2>1, <2>2, <2>5 DEF RowKept, tables
  <2>7. RecordOK'
    BY <1>t, <2>3, <2>k, <2>l, <2>m DEF RecordOK
  <2> QED BY <2>1, <2>2, <2>7 DEF ConnOK, DraftType
<1>3. CASE InsertDecision
  <2>1. /\ conn.next = "votes" /\ conn.left = {} /\ UNCHANGED tables
        /\ draft.decisions[t] = NULL
        /\ draft' = [draft EXCEPT !.decisions[t] = conn.decision]
        /\ conn' = [conn EXCEPT !.next = "state"]
    BY <1>3 DEF InsertDecision, At, Execute
  <2>2. /\ draft'.decisions = [draft.decisions EXCEPT ![t] = conn.decision]
        /\ draft'.resVote = draft.resVote
        /\ draft'.committedCount = draft.committedCount
        /\ draft'.abortedCount = draft.abortedCount
        /\ draft'.txnState = draft.txnState /\ draft'.txnDecision = draft.txnDecision
        /\ draft'.partVote = draft.partVote /\ draft'.partFinal = draft.partFinal
        /\ draft'.ledger = draft.ledger
        /\ draft' \in DraftType
    BY <1>c, <1>t, <2>1 DEF DraftType
  <2>3. /\ conn' \in [op : {"record"}, txn : Txns, votes : [Resources -> Votes \cup {NULL}],
                      decision : Decisions, left : SUBSET Resources,
                      next : {"votes", "state", "commit"}]
        /\ conn'.txn = t /\ conn'.votes = conn.votes /\ conn'.decision = conn.decision
        /\ conn'.left = conn.left /\ conn'.next = "state"
    BY <1>c, <2>1
  <2>4. draft.decisions = decisions /\ RowKept
    BY <2>1 DEF RecordOK
  <2>5. VotesWritten' = W(conn.left)
    BY <2>1, <2>3 DEF VotesWritten, Members, tables
  <2> HIDE DEF W
  <2>k. /\ txnState'[t] = "PREPARING" /\ ResKept'
        /\ draft'.partFinal = partFinal' /\ draft'.ledger = ledger'
        /\ draft'.partVote = [partVote' EXCEPT ![conn'.txn] = VotesWritten']
    BY <1>r, <2>1, <2>2, <2>3, <2>5 DEF ResKept, tables
  <2>l. conn'.left \subseteq {r \in Resources : conn'.votes[r] # NULL}
    BY <1>r, <2>3
  <2>m. /\ conn'.left = {} /\ decisions'[t] = NULL /\ RowKept'
        /\ draft'.decisions = [decisions' EXCEPT ![t] = conn'.decision]
    BY <2>1, <2>2, <2>3, <2>4 DEF RowKept, tables
  <2>6. RecordOK'
    BY <1>t, <2>3, <2>k, <2>l, <2>m DEF RecordOK
  <2> QED BY <2>1, <2>2, <2>6 DEF ConnOK, DraftType
<1>4. CASE WriteTxnState
  <2>1. /\ conn.next = "state" /\ UNCHANGED tables
        /\ draft' = [draft EXCEPT !.txnState[t] = IF conn.decision = "abort" THEN "ABORTING"
                                                  ELSE "COMMITTING",
                                  !.txnDecision[t] = conn.decision]
        /\ conn' = [conn EXCEPT !.next = "commit"]
    BY <1>4 DEF WriteTxnState, At, Execute
  <2>2. /\ draft'.txnState = [draft.txnState EXCEPT ![t] = IF conn.decision = "abort"
                                                           THEN "ABORTING" ELSE "COMMITTING"]
        /\ draft'.txnDecision = [draft.txnDecision EXCEPT ![t] = conn.decision]
        /\ draft'.resVote = draft.resVote
        /\ draft'.committedCount = draft.committedCount
        /\ draft'.abortedCount = draft.abortedCount
        /\ draft'.partVote = draft.partVote /\ draft'.partFinal = draft.partFinal
        /\ draft'.decisions = draft.decisions /\ draft'.ledger = draft.ledger
        /\ draft' \in DraftType
    BY <1>c, <1>t, <2>1 DEF DraftType
  <2>3. /\ conn' \in [op : {"record"}, txn : Txns, votes : [Resources -> Votes \cup {NULL}],
                      decision : Decisions, left : SUBSET Resources,
                      next : {"votes", "state", "commit"}]
        /\ conn'.txn = t /\ conn'.votes = conn.votes /\ conn'.decision = conn.decision
        /\ conn'.left = conn.left /\ conn'.next = "commit"
    BY <1>c, <2>1
  <2>4. /\ conn.left = {} /\ decisions[t] = NULL /\ RowKept
        /\ draft.decisions = [decisions EXCEPT ![t] = conn.decision]
    BY <2>1 DEF RecordOK
  <2>5. VotesWritten' = W(conn.left)
    BY <2>1, <2>3 DEF VotesWritten, Members, tables
  <2> HIDE DEF W
  <2>k. /\ txnState'[t] = "PREPARING" /\ ResKept'
        /\ draft'.partFinal = partFinal' /\ draft'.ledger = ledger'
        /\ draft'.partVote = [partVote' EXCEPT ![conn'.txn] = VotesWritten']
    BY <1>r, <2>1, <2>2, <2>3, <2>5 DEF ResKept, tables
  <2>l. conn'.left \subseteq {r \in Resources : conn'.votes[r] # NULL}
    BY <1>r, <2>3
  <2>m. /\ conn'.left = {} /\ decisions'[t] = NULL
        /\ draft'.decisions = [decisions' EXCEPT ![t] = conn'.decision]
        /\ draft'.txnState = [txnState' EXCEPT ![t] = IF conn'.decision = "abort"
                                                      THEN "ABORTING" ELSE "COMMITTING"]
        /\ draft'.txnDecision = [txnDecision' EXCEPT ![t] = conn'.decision]
    BY <2>1, <2>2, <2>3, <2>4 DEF RowKept, tables
  <2>6. RecordOK'
    BY <1>t, <2>3, <2>k, <2>l, <2>m DEF RecordOK
  <2> QED BY <2>1, <2>2, <2>6 DEF ConnOK, DraftType
<1> QED BY <1>1, <1>2, <1>3, <1>4

LEMMA FinalizeStatement ==
  ASSUME StoreIInv, draft \in DraftType, FinalizeOK, Statement
  PROVE  ConnOK' /\ UNCHANGED tables
<1> DEFINE t == conn.txn
           q == conn.res
<1>c. conn \in [op : {"finalize"}, txn : Txns, res : Resources, final : Finals,
                next : {"final", "ledger", "count", "commit"}]
  BY DEF FinalizeOK
<1>t. t \in Txns /\ q \in Resources
  BY <1>c
<1>1. WriteFinal \/ AppendLedger \/ CountEffect
  BY <1>c, StatementOf
<1>2. CASE WriteFinal
  <2>1. /\ conn.next = "final" /\ UNCHANGED tables
        /\ draft' = [draft EXCEPT !.partFinal[t][q] = conn.final]
        /\ conn' = [conn EXCEPT !.next = IF conn.final = "committed" THEN "ledger" ELSE "count"]
    BY <1>2 DEF WriteFinal, At, Execute
  <2>2. /\ draft'.partFinal = [draft.partFinal EXCEPT ![t][q] = conn.final]
        /\ draft'.resVote = draft.resVote
        /\ draft'.committedCount = draft.committedCount
        /\ draft'.abortedCount = draft.abortedCount
        /\ draft'.txnState = draft.txnState /\ draft'.txnDecision = draft.txnDecision
        /\ draft'.partVote = draft.partVote
        /\ draft'.decisions = draft.decisions /\ draft'.ledger = draft.ledger
        /\ draft' \in DraftType
    BY <1>c, <1>t, <2>1 DEF DraftType
  <2>3. /\ conn' \in [op : {"finalize"}, txn : Txns, res : Resources, final : Finals,
                      next : {"final", "ledger", "count", "commit"}]
        /\ conn'.txn = t /\ conn'.res = q /\ conn'.final = conn.final
        /\ conn'.next = IF conn.final = "committed" THEN "ledger" ELSE "count"
    BY <1>c, <2>1
  <2>4. FinalizeOK'
    BY <1>c, <2>1, <2>2, <2>3 DEF FinalizeOK, ResKept, RowKept, tables
  <2> QED BY <2>1, <2>2, <2>4 DEF ConnOK, DraftType
<1>3. CASE AppendLedger
  <2>1. /\ conn.next = "ledger" /\ UNCHANGED tables
        /\ draft' = [draft EXCEPT !.ledger = @ \cup {<<q, t>>}]
        /\ conn' = [conn EXCEPT !.next = "count"]
    BY <1>3 DEF AppendLedger, At, Execute
  <2>l. draft.ledger \cup {<<q, t>>} \in SUBSET (Resources \X Txns)
    BY <1>t DEF DraftType
  <2>2. /\ draft'.ledger = draft.ledger \cup {<<q, t>>}
        /\ draft'.resVote = draft.resVote
        /\ draft'.committedCount = draft.committedCount
        /\ draft'.abortedCount = draft.abortedCount
        /\ draft'.txnState = draft.txnState /\ draft'.txnDecision = draft.txnDecision
        /\ draft'.partVote = draft.partVote /\ draft'.partFinal = draft.partFinal
        /\ draft'.decisions = draft.decisions
        /\ draft' \in DraftType
    BY <2>1, <2>l DEF DraftType
  <2>3. /\ conn' \in [op : {"finalize"}, txn : Txns, res : Resources, final : Finals,
                      next : {"final", "ledger", "count", "commit"}]
        /\ conn'.txn = t /\ conn'.res = q /\ conn'.final = conn.final /\ conn'.next = "count"
    BY <1>c, <2>1
  <2>4. FinalizeOK'
    BY <1>c, <2>1, <2>2, <2>3 DEF FinalizeOK, ResKept, RowKept, tables
  <2> QED BY <2>1, <2>2, <2>4 DEF ConnOK, DraftType
<1>4. CASE CountEffect
  <2>0. /\ conn.next = "count" /\ UNCHANGED tables
        /\ draft' = IF draft.resVote[q] = Absent THEN draft
                    ELSE IF conn.final = "committed"
                         THEN [draft EXCEPT !.committedCount[q] = @ + 1]
                         ELSE [draft EXCEPT !.abortedCount[q] = @ + 1]
        /\ conn' = [conn EXCEPT !.next = "commit"]
    BY <1>4 DEF CountEffect, At, Execute
  <2>1. \A n \in Nat : n + 1 \in Nat
    OBVIOUS
  <2>2. /\ draft'.committedCount = IF conn.final = "committed" /\ draft.resVote[q] # Absent
                                   THEN [draft.committedCount EXCEPT ![q] = @ + 1]
                                   ELSE draft.committedCount
        /\ draft'.abortedCount = IF conn.final = "aborted" /\ draft.resVote[q] # Absent
                                 THEN [draft.abortedCount EXCEPT ![q] = @ + 1]
                                 ELSE draft.abortedCount
        /\ draft'.resVote = draft.resVote
        /\ draft'.txnState = draft.txnState /\ draft'.txnDecision = draft.txnDecision
        /\ draft'.partVote = draft.partVote /\ draft'.partFinal = draft.partFinal
        /\ draft'.decisions = draft.decisions /\ draft'.ledger = draft.ledger
        /\ draft' \in DraftType
    BY <1>c, <1>t, <2>0, <2>1 DEF DraftType
  <2>3. /\ conn' \in [op : {"finalize"}, txn : Txns, res : Resources, final : Finals,
                      next : {"final", "ledger", "count", "commit"}]
        /\ conn'.txn = t /\ conn'.res = q /\ conn'.final = conn.final /\ conn'.next = "commit"
    BY <1>c, <2>0
  <2>4. /\ ResKept /\ RowKept /\ draft.partVote = partVote /\ draft.decisions = decisions
        /\ partFinal[t][q] = NULL
        /\ draft.partFinal = [partFinal EXCEPT ![t][q] = conn.final]
        /\ draft.ledger = IF conn.final = "committed" THEN ledger \cup {<<q, t>>} ELSE ledger
    BY <2>0 DEF FinalizeOK
  <2>5. Effects(q, t, conn.final)'
    BY <2>0, <2>2, <2>3, <2>4 DEF Effects, ResKept, tables
  <2>6. FinalizeOK'
    BY <2>0, <2>2, <2>3, <2>4, <2>5 DEF FinalizeOK, RowKept, tables
  <2> QED BY <2>0, <2>2, <2>6 DEF ConnOK, DraftType
<1> QED BY <1>1, <1>2, <1>3, <1>4

LEMMA DeleteTxnStatement ==
  ASSUME draft \in DraftType, DeleteTxnOK, Statement
  PROVE  ConnOK' /\ UNCHANGED tables
<1> DEFINE t == conn.txn
<1>c. /\ conn \in [op : {"deleteTxn"}, txn : Txns,
                   next : {"participants", "decisions", "ledger", "row", "commit"}]
      /\ t \in Txns
  BY DEF DeleteTxnOK
<1>1. DeleteParticipants \/ DeleteDecision \/ DeleteLedger \/ DeleteTxnRow
  BY <1>c, StatementOf
<1>n. ASSUME NEW s \in {"decisions", "ledger", "row", "commit"}, conn' = [conn EXCEPT !.next = s]
      PROVE  /\ conn' \in [op : {"deleteTxn"}, txn : Txns,
                           next : {"participants", "decisions", "ledger", "row", "commit"}]
             /\ conn'.txn = t /\ conn'.next = s
  BY <1>c, <1>n
<1>2. CASE DeleteParticipants
  <2>1. /\ conn.next = "participants" /\ UNCHANGED tables
        /\ draft' = [draft EXCEPT !.partVote[t] = [r \in Resources |-> NULL],
                                  !.partFinal[t] = [r \in Resources |-> Absent]]
        /\ conn' = [conn EXCEPT !.next = "decisions"]
    BY <1>2 DEF DeleteParticipants, At, Execute
  <2>2. /\ draft'.partVote = [draft.partVote EXCEPT ![t] = [r \in Resources |-> NULL]]
        /\ draft'.partFinal = [draft.partFinal EXCEPT ![t] = [r \in Resources |-> Absent]]
        /\ draft'.resVote = draft.resVote
        /\ draft'.committedCount = draft.committedCount
        /\ draft'.abortedCount = draft.abortedCount
        /\ draft'.txnState = draft.txnState /\ draft'.txnDecision = draft.txnDecision
        /\ draft'.decisions = draft.decisions /\ draft'.ledger = draft.ledger
        /\ draft' \in DraftType
    BY <1>c, <2>1 DEF DraftType
  <2>3. DeleteTxnOK'
    BY <1>c, <1>n, <2>1, <2>2 DEF DeleteTxnOK, ResKept, RowKept, tables
  <2> QED BY <2>1, <2>2, <2>3 DEF ConnOK, DraftType
<1>3. CASE DeleteDecision
  <2>1. /\ conn.next = "decisions" /\ UNCHANGED tables
        /\ draft' = [draft EXCEPT !.decisions[t] = NULL]
        /\ conn' = [conn EXCEPT !.next = "ledger"]
    BY <1>3 DEF DeleteDecision, At, Execute
  <2>2. /\ draft'.decisions = [draft.decisions EXCEPT ![t] = NULL]
        /\ draft'.resVote = draft.resVote
        /\ draft'.committedCount = draft.committedCount
        /\ draft'.abortedCount = draft.abortedCount
        /\ draft'.txnState = draft.txnState /\ draft'.txnDecision = draft.txnDecision
        /\ draft'.partVote = draft.partVote /\ draft'.partFinal = draft.partFinal
        /\ draft'.ledger = draft.ledger
        /\ draft' \in DraftType
    BY <1>c, <2>1 DEF DraftType
  <2>3. DeleteTxnOK'
    BY <1>c, <1>n, <2>1, <2>2 DEF DeleteTxnOK, ResKept, RowKept, tables
  <2> QED BY <2>1, <2>2, <2>3 DEF ConnOK, DraftType
<1>4. CASE DeleteLedger
  <2>1. /\ conn.next = "ledger" /\ UNCHANGED tables
        /\ draft' = [draft EXCEPT !.ledger = {e \in @ : e[2] # t}]
        /\ conn' = [conn EXCEPT !.next = "row"]
    BY <1>4 DEF DeleteLedger, At, Execute
  <2>2. /\ draft'.ledger = {e \in draft.ledger : e[2] # t}
        /\ draft'.resVote = draft.resVote
        /\ draft'.committedCount = draft.committedCount
        /\ draft'.abortedCount = draft.abortedCount
        /\ draft'.txnState = draft.txnState /\ draft'.txnDecision = draft.txnDecision
        /\ draft'.partVote = draft.partVote /\ draft'.partFinal = draft.partFinal
        /\ draft'.decisions = draft.decisions
        /\ draft' \in DraftType
    BY <1>c, <2>1 DEF DraftType
  <2>3. DeleteTxnOK'
    BY <1>c, <1>n, <2>1, <2>2 DEF DeleteTxnOK, ResKept, RowKept, tables
  <2> QED BY <2>1, <2>2, <2>3 DEF ConnOK, DraftType
<1>5. CASE DeleteTxnRow
  <2>1. /\ conn.next = "row" /\ UNCHANGED tables
        /\ draft' = [draft EXCEPT !.txnState[t] = Absent, !.txnDecision[t] = NULL]
        /\ conn' = [conn EXCEPT !.next = "commit"]
    BY <1>5 DEF DeleteTxnRow, At, Execute
  <2>2. /\ draft'.txnState = [draft.txnState EXCEPT ![t] = Absent]
        /\ draft'.txnDecision = [draft.txnDecision EXCEPT ![t] = NULL]
        /\ draft'.resVote = draft.resVote
        /\ draft'.committedCount = draft.committedCount
        /\ draft'.abortedCount = draft.abortedCount
        /\ draft'.partVote = draft.partVote /\ draft'.partFinal = draft.partFinal
        /\ draft'.decisions = draft.decisions /\ draft'.ledger = draft.ledger
        /\ draft' \in DraftType
    BY <1>c, <2>1 DEF DraftType
  <2>3. DeleteTxnOK'
    BY <1>c, <1>n, <2>1, <2>2 DEF DeleteTxnOK, ResKept, RowKept, tables
  <2> QED BY <2>1, <2>2, <2>3 DEF ConnOK, DraftType
<1> QED BY <1>1, <1>2, <1>3, <1>4, <1>5

-----------------------------------------------------------------------------
(* What is committed is one step of TxnStore. *)

LEMMA CommitFacts ==
  ASSUME Commit
  PROVE  /\ conn.next = "commit"
         /\ resVote' = draft.resVote
         /\ committedCount' = draft.committedCount /\ abortedCount' = draft.abortedCount
         /\ txnState' = draft.txnState /\ txnDecision' = draft.txnDecision
         /\ partVote' = draft.partVote /\ partFinal' = draft.partFinal
         /\ decisions' = draft.decisions /\ ledger' = draft.ledger
BY DEF Commit

LEMMA CommitDeleteResource ==
  ASSUME DeleteResourceOK, Commit
  PROVE  StoreNext
<1>1. conn.res \in Resources /\ DeleteResource(conn.res)
  BY CommitFacts DEF DeleteResourceOK, DeleteResource, RowKept, txnTables
<1> QED BY <1>1 DEF StoreNext

LEMMA CommitBegin ==
  ASSUME BeginOK, Commit
  PROVE  /\ BeginTxn(conn.txn, Listed)
         /\ StoreNext
         /\ Listed = Range(conn.names) /\ IsInjective(conn.names)
<1>1. /\ conn.txn \in Txns /\ conn.names \in Seq(Resources)
      /\ conn.at = Len(conn.names) + 1 /\ conn.next # "row"
  BY CommitFacts DEF BeginOK
<1>2. /\ Len(conn.names) \in Nat /\ DOMAIN conn.names = 1..Len(conn.names)
      /\ conn.names \in [1..Len(conn.names) -> Resources]
  BY <1>1, LenProperties
<1>3. 1..(conn.at - 1) = 1..Len(conn.names)
  BY <1>1, <1>2
<1>4. Listed = Range(conn.names) /\ Listed \in SUBSET Resources
  BY <1>2, <1>3 DEF Listed, Range
<1>5. IsInjective(conn.names)
  BY <1>2, <1>3 DEF BeginOK, IsInjective
<1>6. /\ \A r \in Listed : resVote[r] # Absent
      /\ \A r \in Listed : committedCount[r] + abortedCount[r] < MaxEffects
  BY <1>4 DEF BeginOK
<1>7. BeginTxn(conn.txn, Listed)
  BY <1>1, <1>6, CommitFacts DEF BeginOK, BeginTxn, ResKept, resTable
<1> QED BY <1>1, <1>4, <1>5, <1>7 DEF StoreNext

LEMMA CommitRecord ==
  ASSUME StoreTypeOK, RecordOK, Commit
  PROVE  StoreNext
<1> DEFINE t == conn.txn
<1>1. /\ t \in Txns /\ conn.votes \in [Resources -> Votes \cup {NULL}]
      /\ conn.decision \in Decisions /\ conn.left = {}
  BY CommitFacts DEF RecordOK
<1>2. partVote' = [partVote EXCEPT ![t] = [r \in Resources |->
        IF r \in Members(t) /\ conn.votes[r] # NULL THEN conn.votes[r] ELSE @[r]]]
  BY <1>1, CommitFacts DEF RecordOK, VotesWritten, StoreTypeOK
<1>3. RecordPrepare(t, conn.votes, conn.decision)
  BY <1>1, <1>2, CommitFacts DEF RecordOK, RecordPrepare, ResKept, resTable
<1> QED BY <1>1, <1>3 DEF StoreNext

LEMMA CommitFinalize ==
  ASSUME FinalizeOK, Commit
  PROVE  [StoreNext]_tables
<1>1. conn.txn \in Txns /\ conn.res \in Resources /\ conn.final \in Finals
  BY DEF FinalizeOK
<1>2. CASE ResKept /\ draft.partFinal = partFinal /\ draft.ledger = ledger
  BY <1>2, CommitFacts DEF FinalizeOK, RowKept, ResKept, tables
<1>3. CASE /\ partFinal[conn.txn][conn.res] = NULL
           /\ draft.partFinal = [partFinal EXCEPT ![conn.txn][conn.res] = conn.final]
           /\ Effects(conn.res, conn.txn, conn.final)
  <2>1. ApplyEffect(conn.txn, conn.res, conn.final)
    BY <1>3, CommitFacts DEF Effects, ApplyEffect
  <2>2. FinalizeParticipant(conn.txn, conn.res, conn.final)
    BY <1>3, <2>1, CommitFacts DEF FinalizeOK, RowKept, Effects, FinalizeParticipant
  <2> QED BY <1>1, <2>2 DEF StoreNext
<1> QED BY <1>2, <1>3, CommitFacts DEF FinalizeOK

LEMMA CommitDeleteTxn ==
  ASSUME DeleteTxnOK, Commit
  PROVE  StoreNext
<1>1. conn.txn \in Txns /\ DeleteTxn(conn.txn)
  BY CommitFacts DEF DeleteTxnOK, DeleteTxn, ResKept, resTable
<1> QED BY <1>1 DEF StoreNext

-----------------------------------------------------------------------------
(* The invariant and the refinement, step by step. *)

\* An autocommit statement is an operation of its own.
LEMMA AutocommitStep ==
  ASSUME StoreTxInv, Autocommit
  PROVE  StoreNext /\ ConnOK'
BY DEF Autocommit, StoreNext, ConnOK

\* A rollback leaves the tables as they were.
LEMMA RollbackStep ==
  ASSUME Rollback
  PROVE  UNCHANGED tables /\ ConnOK'
BY DEF Rollback, ConnOK

\* A commit is the operation whose statements were executed.
LEMMA CommitStep ==
  ASSUME StoreTxInv, Commit
  PROVE  [StoreNext]_tables /\ ConnOK'
<1>1. conn # NoTx /\ conn' = NoTx
  BY DEF Commit
<1>2. StoreTypeOK /\ (DeleteResourceOK \/ BeginOK \/ RecordOK \/ FinalizeOK \/ DeleteTxnOK)
  BY <1>1 DEF StoreTxInv, StoreIInv, ConnOK
<1>3. [StoreNext]_tables
  BY <1>2, CommitDeleteResource, CommitBegin, CommitRecord, CommitFinalize, CommitDeleteTxn
<1> QED BY <1>1, <1>3 DEF ConnOK

\* Every statement keeps to its operation and leaves the tables alone.
LEMMA StatementStep ==
  ASSUME StoreTxInv, Statement
  PROVE  UNCHANGED tables /\ ConnOK'
<1>1. conn # NoTx
  <2>1. conn.op # "none"
    BY DEF Statement, At, DeleteResourceRow, InsertTxnRow, InsertParticipant, WriteVote,
           InsertDecision, WriteTxnState, WriteFinal, AppendLedger, CountEffect,
           DeleteParticipants, DeleteDecision, DeleteLedger, DeleteTxnRow
  <2> QED BY <2>1 DEF NoTx
<1> QED BY <1>1, DeleteResourceStatement, BeginStatement, RecordStatement, FinalizeStatement,
           DeleteTxnStatement DEF StoreTxInv, ConnOK

LEMMA StoreTxStep == StoreTxInv /\ [StoreTxNext]_storeTxVars => [StoreNext]_tables /\ StoreTxInv'
<1> SUFFICES ASSUME StoreTxInv, [StoreTxNext]_storeTxVars
             PROVE  [StoreNext]_tables /\ ConnOK'
  BY StoreStepInv DEF StoreTxInv
<1>1. CASE UNCHANGED storeTxVars
  <2>1. UNCHANGED tables /\ conn' = conn /\ draft' = draft
    BY <1>1 DEF storeTxVars
  <2>2. DeleteResourceOK' = DeleteResourceOK /\ BeginOK' = BeginOK
    BY <2>1 DEF DeleteResourceOK, BeginOK, ResKept, RowKept, Listed, ActiveTxns, Members, tables
  <2>3. RecordOK' = RecordOK
    BY <2>1 DEF RecordOK, VotesWritten, Members, ResKept, RowKept, tables
  <2>4. FinalizeOK' = FinalizeOK /\ DeleteTxnOK' = DeleteTxnOK
    BY <2>1 DEF FinalizeOK, DeleteTxnOK, Effects, ResKept, RowKept, tables
  <2>5. ConnOK'
    BY <2>1, <2>2, <2>3, <2>4 DEF StoreTxInv, ConnOK, DraftType
  <2> QED BY <2>1, <2>5
<1>2. CASE Autocommit
  BY <1>2, AutocommitStep
<1>3. CASE Call
  BY <1>3, CallOK DEF StoreTxInv
<1>4. CASE Statement
  BY <1>4, StatementStep
<1>5. CASE Commit
  BY <1>5, CommitStep
<1>6. CASE Rollback
  BY <1>6, RollbackStep
<1> QED BY <1>1, <1>2, <1>3, <1>4, <1>5, <1>6 DEF StoreTxNext

LEMMA StoreTxInitInv == StoreTxInit => StoreTxInv
BY StoreInitInv DEF StoreTxInit, StoreTxInv, ConnOK

\* The draft of the open SQL transaction is, at every statement, the committed
\* tables with the writes of that operation so far.
THEOREM DraftInvariant == StoreTxSpec => []StoreTxInv
BY StoreTxInitInv, StoreTxStep, PTL DEF StoreTxSpec

\* Statements, failures and rollbacks implement the one-step operations of
\* TxnStore: each is all or nothing.
THEOREM Implementation == StoreTxSpec => AllOrNothing
<1>1. StoreTxInit => StoreInit
  BY DEF StoreTxInit
<1> QED BY <1>1, DraftInvariant, StoreTxStep, PTL DEF StoreTxSpec, AllOrNothing, StoreSpec

LEMMA BeginStep ==
  ASSUME StoreTxInv, StoreTxNext, conn # NoTx, conn.op = "begin", txnState' # txnState
  PROVE  /\ IsInjective(conn.names)
         /\ {r \in Resources : partFinal'[conn.txn][r] # Absent} = Range(conn.names)
<1>1. Commit
  BY StatementStep, CallOK, RollbackStep DEF StoreTxInv, StoreTxNext, Autocommit, tables
<1>2. BeginOK
  BY DEF StoreTxInv, ConnOK, DeleteResourceOK, RecordOK, FinalizeOK, DeleteTxnOK
<1>3. /\ BeginTxn(conn.txn, Listed)
      /\ Listed = Range(conn.names) /\ IsInjective(conn.names)
  BY <1>1, <1>2, CommitBegin
<1>4. conn.txn \in Txns /\ Range(conn.names) \in SUBSET Resources
  BY <1>2 DEF BeginOK, Range
<1>5. {r \in Resources : partFinal'[conn.txn][r] # Absent} = Listed
  BY <1>3, <1>4 DEF BeginTxn, StoreTxInv, StoreIInv, StoreTypeOK
<1> QED BY <1>3, <1>5

\* A transaction comes into being with one participant for every name of a
\* list without repetitions, and never from another list.
THEOREM BegunAsListed == StoreTxSpec => BeginsAsListed
<1>1. StoreTxInv /\ [StoreTxNext]_storeTxVars =>
        [conn # NoTx /\ conn.op = "begin" /\ txnState' # txnState =>
           /\ IsInjective(conn.names)
           /\ {r \in Resources : partFinal'[conn.txn][r] # Absent} = Range(conn.names)]_storeTxVars
  BY BeginStep
<1> QED BY <1>1, DraftInvariant, PTL DEF StoreTxSpec, BeginsAsListed
=============================================================================
