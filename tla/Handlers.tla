------------------------------ MODULE Handlers ------------------------------
(***************************************************************************)
(* The HTTP handlers that call the coordinator twice for one request       *)
(* (internal/httpapi/handlers.go): POST and PUT /resources and POST /txns  *)
(* write and then read back what they wrote, ignoring the error of the     *)
(* read, and GET /txns/{id}/participants looks the transaction up before   *)
(* it lists.  Other requests run between the two calls.  The handlers are  *)
(* served by the goroutine of Readers, which is at one request at a time.  *)
(***************************************************************************)
EXTENDS Readers

VARIABLE web  \* the request: its arguments, what it has read, then its answer

handlersVars == <<readerVars, web>>

Empty == ""
Other == "other"  \* any text of a request's body that is neither empty nor a vote

HandlersInit == ReadersInit /\ web = NoView

Received == Asked /\ web = NoView

\* Another request for r is between its table write and its map write.
Pending(r) == \E p \in Workers : op[p].pc = "handle" /\ op[p].res = r

\* The status of an error.  Sentinels first; then isValidationError looks for
\* "vote", "is empty" and "must be" in the text of the error, which finds the
\* validation errors and the store's "update resource vote: ...".
MapError(e) ==
  CASE e \in {"ErrNotFound", "ErrResourceNotFound"} -> 404
    [] e \in {"ErrResourceExists", "ErrTxnExists"} -> 409
    [] e \in {"ErrResourceMissing", "validation", "update resource vote"} -> 400
    [] OTHER -> 500

\* The request is answered with an error.
Refused(e) ==
  /\ web' = [pc |-> "refused", error |-> e, status |-> MapError(e)]
  /\ UNCHANGED <<tables, mu, handles>>

-----------------------------------------------------------------------------
(* POST and PUT /resources. *)

VoteTexts == Votes \cup {Empty, Other}

\* A body without a vote means yes.
VoteOrDefault(v) == IF v = Empty THEN "yes" ELSE v

\* What the coordinator lets through to the store.
Valid(r, v) == r # Empty /\ v \in Votes

\* The first call has written the table and is about to write the map.
Wrote(r, v) ==
  /\ web' = [pc |-> "sync", res |-> r, asked |-> v, touched |-> Pending(r)]
  /\ UNCHANGED <<mu, handles>>

PostResource(r, v) ==
  LET vote == VoteOrDefault(v)
  IN /\ Received
     /\ \/ ~Valid(r, vote) /\ Refused("validation")
        \/ Valid(r, vote) /\ RegisterResource(r, vote) /\ Wrote(r, vote)
        \/ Valid(r, vote) /\ resVote[r] # Absent /\ Refused("ErrResourceExists")
        \/ Valid(r, vote) /\ "fail" \in Faults /\ Refused("register resource")

\* PUT has no default: a body without a vote is refused like one with another text.
PutResource(r, v) ==
  /\ Received
  /\ \/ v \notin Votes /\ Refused("validation")
     \/ v \in Votes /\ UpdateResourceVote(r, v) /\ Wrote(r, v)
     \/ v \in Votes /\ resVote[r] = Absent /\ Refused("ErrResourceNotFound")
     \/ v \in Votes /\ "fail" \in Faults /\ Refused("update resource vote")

\* Mutant: a handle that is there keeps its vote.
SyncOwnHandleIfMissing ==
  /\ web.pc = "sync"
  /\ mu = None
  /\ handles' = IF handles[web.res] = Absent THEN [handles EXCEPT ![web.res] = web.asked]
                ELSE handles
  /\ web' = [web EXCEPT !.pc = "readback"]
  /\ UNCHANGED <<tables, mu>>

\* The map write, under c.mu.
SyncOwnHandle ==
  /\ web.pc = "sync"
  /\ mu = None
  /\ handles' = [handles EXCEPT ![web.res] = web.asked]
  /\ web' = [web EXCEPT !.pc = "readback"]
  /\ UNCHANGED <<tables, mu>>

\* GetResource, without c.mu.  A row that is gone, or an error, leaves the fields
\* of the answer empty.
ReadBackResource ==
  /\ web.pc = "readback"
  /\ \E failed \in {FALSE} \cup (IF "fail" \in Faults THEN {TRUE} ELSE {}) :
       web' = [pc |-> "resource", res |-> web.res, asked |-> web.asked,
               touched |-> web.touched, failed |-> failed,
               vote |-> IF failed \/ resVote[web.res] = Absent THEN Empty
                        ELSE resVote[web.res]]
  /\ UNCHANGED <<tables, mu, handles>>

-----------------------------------------------------------------------------
(* POST /txns and GET /txns/{id}/participants. *)

\* The coordinator looks the names up in c.resources, the store in its table.  An
\* empty id, or an empty name in the list, is refused as an empty list is.
PostTxn(t, rs) ==
  /\ Received
  /\ \/ rs = {} /\ Refused("validation")
     \/ /\ mu = None
        /\ rs # {}
        /\ \/ /\ \A r \in rs : handles[r] # Absent
              /\ BeginTxn(t, rs)
              /\ web' = [pc |-> "begun", txn |-> t, asked |-> rs,
                         touched |-> FALSE, deleted |-> FALSE]
              /\ UNCHANGED <<mu, handles>>
           \/ /\ \E r \in rs : handles[r] = Absent \/ resVote[r] = Absent
              /\ Refused("ErrResourceMissing")
           \/ /\ \A r \in rs : handles[r] # Absent /\ resVote[r] # Absent
              /\ txnState[t] # Absent
              /\ Refused("ErrTxnExists")
           \/ "fail" \in Faults /\ Refused("insert txn")

\* GetTxn.  The answer takes the list of names stored in the row, which is the
\* list of its participants (BeginsAsListed in StoreTx).  A row that is gone, or
\* an error, leaves the fields of the answer empty.
ReadBackTxn ==
  /\ web.pc = "begun"
  /\ mu = None
  /\ \E failed \in {FALSE} \cup (IF "fail" \in Faults THEN {TRUE} ELSE {}) :
       LET none == failed \/ txnState[web.txn] = Absent
       IN web' = [pc |-> "created", txn |-> web.txn, asked |-> web.asked,
                  touched |-> web.touched, deleted |-> web.deleted, failed |-> failed,
                  state |-> IF none THEN Empty ELSE txnState[web.txn],
                  members |-> IF none THEN {} ELSE Members(web.txn)]
  /\ UNCHANGED <<tables, mu, handles>>

\* GetTxn, for its error only.
FindTxn(t) ==
  /\ Received
  /\ mu = None
  /\ \/ txnState[t] = Absent /\ Refused("ErrNotFound")
     \/ /\ txnState[t] # Absent
        /\ web' = [pc |-> "found", txn |-> t, asked |-> Members(t),
                   touched |-> FALSE, deleted |-> FALSE]
        /\ UNCHANGED <<tables, mu, handles>>
     \/ "fail" \in Faults /\ Refused("get txn")

\* ListParticipants: no rows, and no error, for a transaction that is gone.
ListFoundTxn ==
  /\ web.pc = "found"
  /\ \/ /\ mu = None
        /\ web' = [pc |-> "participants", txn |-> web.txn, asked |-> web.asked,
                   touched |-> web.touched, deleted |-> web.deleted,
                   members |-> Members(web.txn)]
        /\ UNCHANGED <<tables, mu, handles>>
     \/ "fail" \in Faults /\ Refused("list participants")

\* The client has read the answer.
Done ==
  /\ web.pc \in {"refused", "resource", "created", "participants"}
  /\ web' = NoView
  /\ UNCHANGED <<tables, mu, handles>>

HandlerStep ==
  \/ \E r \in Resources \cup {Empty}, v \in VoteTexts : PostResource(r, v)
  \/ \E r \in Resources, v \in VoteTexts : PutResource(r, v)
  \/ SyncOwnHandle
  \/ ReadBackResource
  \/ \E t \in Txns, rs \in SUBSET Resources : PostTxn(t, rs)
  \/ ReadBackTxn
  \/ \E t \in Txns : FindTxn(t)
  \/ ListFoundTxn
  \/ Done

\* What a step of another request means for this one: it changed the row of its
\* resource, or is at work on its transaction, or deleted it.
Watched ==
  CASE web.pc \in {"sync", "readback", "resource"} ->
         [web EXCEPT !.touched = @ \/ resVote'[web.res] # resVote[web.res]]
    [] web.pc \in {"begun", "created", "found", "participants"} ->
         [web EXCEPT !.touched = @ \/ \E p \in Workers : op'[p].txn = web.txn,
                     !.deleted = @ \/ txnState'[web.txn] = Absent]
    [] OTHER -> web

HandlersNext ==
  \/ /\ Next
     /\ view' = IF up' = "down" THEN NoView ELSE view
     /\ web' = IF up' = "down" THEN NoView ELSE Watched
  \/ web = NoView /\ ReaderStep /\ UNCHANGED <<tables, up, handles, op, told, web>>
  \/ HandlerStep /\ UNCHANGED <<up, op, told, view>>

HandlersSpec == HandlersInit /\ [][HandlersNext]_handlersVars

-----------------------------------------------------------------------------

\* A register or a vote update is in force when it is answered with 200: the table,
\* the handle the next prepare will ask and, if it could be read, the answer have
\* the vote that was asked for - unless another request for the name was between
\* its own two writes when this one wrote the table, or has changed the row since.
\* The finding about the handles is what can happen to those.
OwnVoteInForce ==
  web.pc = "resource" /\ ~web.touched =>
    /\ resVote[web.res] = web.asked
    /\ handles[web.res] = web.asked
    /\ web.failed \/ web.vote = web.asked

\* POST /txns answers with the transaction it began: another state than PREPARING
\* means that a request or a recovery has been at work on it meanwhile; empty
\* fields, or other names than those asked for, that somebody deleted it meanwhile
\* or that it could not be read.
BegunAsAsked ==
  web.pc = "created" /\ ~web.failed =>
    /\ ~web.touched => web.state = "PREPARING"
    /\ ~web.deleted => web.members = web.asked

\* GET /txns/{id}/participants lists the transaction that it found: an empty list
\* or other participants only if the transaction was deleted between the two calls.
ListsFoundTxn ==
  web.pc = "participants" /\ ~web.deleted => web.members = web.asked

\* The error table at the top of handlers.go, for the errors met here.
DocumentedStatus(e) ==
  CASE e \in {"ErrNotFound", "ErrResourceNotFound"} -> 404
    [] e \in {"ErrResourceExists", "ErrTxnExists"} -> 409
    [] e \in {"ErrResourceMissing", "validation"} -> 400
    [] OTHER -> 500

\* A request that is refused gets the documented status (handlers.go: "input
\* validation errors -> 400, anything else -> 500").
StatusAsDocumented ==
  web.pc = "refused" => web.status = DocumentedStatus(web.error)
=============================================================================
