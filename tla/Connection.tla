----------------------------- MODULE Connection -----------------------------
(***************************************************************************)
(* Client connections of the wire server (wire/conn.go, server.go,         *)
(* copy.go): the message loop, explicit transaction blocks, the simple and *)
(* the extended protocol, COPY FROM STDIN, cursors, session settings, and  *)
(* LISTEN/NOTIFY with its goroutine per subscription.                      *)
(*                                                                         *)
(* A connection reads one message and runs its whole handler before the    *)
(* next one, so a message is a step; COPY and the clean-up after the loop  *)
(* are several.  A statement is reduced to the write it makes: a write is  *)
(* named by its connection and a number.  Whether the executor accepts a   *)
(* statement or a commit is its own business (TxnEngine, Rows) and is a    *)
(* choice here.                                                            *)
(*                                                                         *)
(* Beside the server's state, "view" and "told" follow the answers alone,  *)
(* by the rules of the protocol: what a client may conclude about its      *)
(* block and about each write, whichever message the answer was to.        *)
(***************************************************************************)
EXTENDS Integers, Sequences, FiniteSets

CONSTANTS
    Conn,       \* connections
    Chan,       \* notification channels
    MaxWrites,  \* bound on the statements that write, per connection
    MaxListens, \* bound on the subscriptions made, by all connections
    MaxNotify,  \* bound on the NOTIFYs sent, by all connections
    MaxSeq,     \* bound on the values drawn from the sequence
    BufCap,     \* capacity of a subscription's Go channel (16)
    Counts,     \* row counts of a FETCH, negative ones included
    Scripts,    \* the messages each client sends in a behaviour; with none it does not connect
    Nil

ASSUME ConnectionAssumption ==
    /\ MaxWrites \in Nat /\ MaxListens \in Nat /\ MaxNotify \in Nat /\ MaxSeq \in Nat
    /\ BufCap \in Nat \ {0}
    /\ Counts \subseteq Int
    /\ Nil \notin Conn \cup Nat

Write == Conn \X (1 .. MaxWrites)
Sub == 1 .. MaxListens
Sql == {"write", "nextval", "control"}

VARIABLES
    script,   \* the messages that each client sends in this behaviour
    phase,    \* startup, ready, copyin, loading, leaving or gone
    tx,       \* c.tx and c.txAborted: none, open or failed
    buf,      \* the writes buffered in c.tx
    db,       \* the writes that are committed
    used,     \* how many writes a connection has issued
    view,     \* the client's block by the answers: none, open or failed
    told,     \* a write by the answers: unsent, sent, pending, durable or gone
    astray,   \* connections whose answers are no longer those of their block
    excused,  \* the writes for which the server does not keep to its answers
    copying,  \* rows of a COPY still to be inserted
    stmt,     \* c.prepared[""]: the unnamed statement
    portal,   \* c.portals[""]: the statement bound to the unnamed portal
    seq,      \* the sequence's last value (executor/sequences.go)
    cursor,   \* c.cursors: the rows of the declared cursor and its position
    setting,  \* sess.settings, for one parameter
    subs,     \* subscriptions, in the order they were made
    notified, \* NOTIFYs sent so far
    panic     \* what has ended the server; no, while it runs

toldVars == <<view, told, astray, excused>>
txVars == <<tx, buf, db, used, toldVars>>
extVars == <<stmt, portal, seq>>
subVars == <<subs, notified>>
connVars == <<script, phase, txVars, copying, extVars, cursor, setting, subVars, panic>>

\* The connection is in its loop, and its client may send this message.
Receives(c, m) == phase[c] = "ready" /\ m \in script[c]

-----------------------------------------------------------------------------
(* What the answers say.  A statement outside a block is durable when it   *)
(* is answered, in a block when COMMIT is; an error takes its statement    *)
(* back and fails the block, and a failed block can only be rolled back.   *)

Pending(c) == {w \in Write : w[1] = c /\ told[w] = "pending"}
Sent(c) == {w \in Write : w[1] = c /\ told[w] = "sent"}

Answered(ws, f) == told' = [w \in Write |-> IF w \in ws THEN f ELSE told[w]]

Failed(block) == IF block = "none" THEN "none" ELSE "failed"

\* What the answer COMMIT says of the block's writes.
AtCommit(c) == IF view[c] = "failed" THEN "gone" ELSE "durable"

\* From here on the block is not what the client was told: nothing is claimed of
\* the writes in it (ws with them) until it ends on both sides.
Misled(c, ws) ==
    /\ astray' = astray \cup {c}
    /\ excused' = excused \cup Pending(c) \cup ws

\* A write ws of a connection.
Issued(c, ws) ==
    /\ astray' = astray
    /\ excused' = IF c \in astray THEN excused \cup ws ELSE excused

\* An error that the server does not fail the block for, about the writes ws.
ErrorOnly(c, ws) ==
    /\ view' = [view EXCEPT ![c] = Failed(@)]
    /\ IF view[c] = "open" THEN Misled(c, ws) ELSE Issued(c, ws)

-----------------------------------------------------------------------------
(* Transaction blocks: executor.BeginExplicit, CommitExplicit and          *)
(* RollbackExplicit as handleControl calls them.                           *)

\* BEGIN inside a block is acknowledged and does nothing.
Begin(c) ==
    /\ Receives(c, "begin")
    /\ view' = [view EXCEPT ![c] = IF @ = "none" THEN "open" ELSE @]
    /\ IF tx[c] = "none"
       THEN tx' = [tx EXCEPT ![c] = "open"] /\ buf' = [buf EXCEPT ![c] = {}]
       ELSE UNCHANGED <<tx, buf>>
    /\ UNCHANGED <<script, phase, db, used, told, astray, excused, copying, extVars, cursor,
                   setting, subVars, panic>>

\* The block is over, on both sides.
Ended(c) ==
    /\ tx' = [tx EXCEPT ![c] = "none"]
    /\ buf' = [buf EXCEPT ![c] = {}]
    /\ view' = [view EXCEPT ![c] = "none"]
    /\ astray' = astray \ {c}
    /\ excused' = excused

\* Variant: COMMIT does not look at txAborted.
CommitAnyway(c) ==
    /\ Receives(c, "commit")
    /\ \/ db' = db \cup buf[c] /\ Answered(Pending(c), AtCommit(c))
       \/ tx[c] # "none" /\ db' = db /\ Answered(Pending(c), "gone")
    /\ Ended(c)
    /\ UNCHANGED <<script, phase, used, copying, extVars, cursor, setting, subVars, panic>>

\* A failed block is rolled back, and COMMIT is the answer all the same; a commit
\* that is refused, or a rollback that fails, answers ERROR and loses the block as
\* well.  Outside a block COMMIT is acknowledged.
Commit(c) ==
    /\ Receives(c, "commit")
    /\ \/ /\ db' = IF tx[c] = "open" THEN db \cup buf[c] ELSE db
          /\ Answered(Pending(c), AtCommit(c))
       \/ /\ tx[c] # "none"
          /\ db' = db
          /\ Answered(Pending(c), "gone")
    /\ Ended(c)
    /\ UNCHANGED <<script, phase, used, copying, extVars, cursor, setting, subVars, panic>>

Rollback(c) ==
    /\ Receives(c, "rollback")
    /\ Answered(Pending(c), "gone")
    /\ Ended(c)
    /\ UNCHANGED <<script, phase, db, used, copying, extVars, cursor, setting, subVars, panic>>

\* ROLLBACK TO is acknowledged and does nothing.  The client may have set the
\* savepoint after any of its writes; to it, the later ones are gone and the block
\* is open again.
RollbackTo(c) ==
    /\ Receives(c, "savepoint")
    /\ view[c] # "none"
    /\ \E n \in 0 .. MaxWrites :
        LET undone == {w \in Pending(c) : w[2] > n}
        IN  /\ Answered(undone, "gone")
            /\ IF view[c] = "failed" THEN Misled(c, {})
               ELSE astray' = astray /\ excused' = excused \cup undone
    /\ view' = [view EXCEPT ![c] = "open"]
    /\ UNCHANGED <<script, phase, tx, buf, db, used, copying, extVars, cursor, setting, subVars, panic>>

\* The errors of handleControl (SET BRANCH in a block, FETCH without its cursor),
\* of handleParse, handleBind and handleDescribe do not touch txAborted.
ControlError(c) ==
    /\ Receives(c, "savepoint")
    /\ ErrorOnly(c, {})
    /\ UNCHANGED <<script, phase, tx, buf, db, used, told, copying, extVars, cursor, setting,
                   subVars, panic>>

\* SAVEPOINT, RELEASE, LOCK, VACUUM, ANALYZE, REINDEX, SET
\* CONSTRAINTS (which the case for SET shadows), DO, LOAD, MOVE, DISCARD and
\* DEALLOCATE are acknowledged, in a failed block too, and change nothing.
Acknowledged(c) == Receives(c, "savepoint") /\ UNCHANGED connVars

\* SET, SET LOCAL and SET SESSION assign for the session, in or out of a block;
\* RESET and RESET ALL forget.
SetGUC(c) ==
    /\ Receives(c, "set")
    /\ \E v \in {"value", "unset"} : setting' = [setting EXCEPT ![c] = v]
    /\ UNCHANGED <<script, phase, txVars, copying, extVars, cursor, subVars, panic>>

-----------------------------------------------------------------------------
(* Statements.                                                             *)

\* execSQL and Execute: in a block the write is buffered, else committed.
Accepted(c, w) ==
    /\ IF tx[c] = "none"
       THEN db' = db \cup {w} /\ buf' = buf
       ELSE db' = db /\ buf' = [buf EXCEPT ![c] = @ \cup {w}]
    /\ Answered({w}, IF view[c] = "none" THEN "durable" ELSE "pending")
    /\ view' = view
    /\ Issued(c, {w})

\* A statement that fails in a block may have buffered some of its writes.
Refused(c, w) ==
    /\ \E kept \in IF tx[c] = "none" THEN {{}} ELSE SUBSET {w} :
           buf' = [buf EXCEPT ![c] = @ \cup kept]
    /\ db' = db
    /\ Answered({w}, "gone")

NextWrite(c) == <<c, used[c] + 1>>

\* handleSimpleQuery: an error fails the block.
SimpleQuery(c) ==
    /\ Receives(c, "query")
    /\ tx[c] # "failed"
    /\ used[c] < MaxWrites
    /\ used' = [used EXCEPT ![c] = @ + 1]
    /\ \/ Accepted(c, NextWrite(c)) /\ tx' = tx
       \/ /\ Refused(c, NextWrite(c))
          /\ tx' = [tx EXCEPT ![c] = Failed(@)]
          /\ view' = [view EXCEPT ![c] = Failed(@)]
          /\ Issued(c, {NextWrite(c)})
    /\ UNCHANGED <<script, phase, copying, extVars, cursor, setting, subVars, panic>>

\* In a failed block statements and COPY are refused outright.
Aborted(c) ==
    /\ Receives(c, "query")
    /\ tx[c] = "failed"
    /\ view' = [view EXCEPT ![c] = Failed(@)]
    /\ UNCHANGED <<script, phase, tx, buf, db, used, told, astray, excused, copying, extVars,
                   cursor, setting, subVars, panic>>

-----------------------------------------------------------------------------
(* The extended protocol.                                                  *)

\* handleParse replaces the statement; portals bound to the old one keep it.
Parse(c) ==
    /\ Receives(c, "extended")
    /\ \E s \in Sql : stmt' = [stmt EXCEPT ![c] = s]
    /\ UNCHANGED <<script, phase, txVars, copying, portal, seq, cursor, setting, subVars, panic>>

Bind(c) ==
    /\ Receives(c, "extended")
    /\ stmt[c] # Nil
    /\ portal' = [portal EXCEPT ![c] = stmt[c]]
    /\ UNCHANGED <<script, phase, txVars, copying, stmt, seq, cursor, setting, subVars, panic>>

\* describeColumns runs a SELECT, with NULL for its parameters, to learn its
\* columns: what the SELECT's functions do is done.  Anything else is not run.
Describe(c) ==
    /\ Receives(c, "extended")
    /\ \E s \in {stmt[c], portal[c]} :
        /\ s # Nil
        /\ seq' = IF s = "nextval" /\ seq < MaxSeq THEN seq + 1 ELSE seq
    /\ UNCHANGED <<script, phase, txVars, copying, stmt, portal, cursor, setting, subVars, panic>>

\* sessionControlTag: BEGIN, COMMIT and ROLLBACK are answered and not done.
ControlTag(c) ==
    \/ /\ view[c] = "none"
       /\ view' = [view EXCEPT ![c] = "open"]
       /\ told' = told
       /\ Misled(c, {})
    \/ /\ view[c] # "none"
       /\ \E f \in {AtCommit(c), "gone"} : Answered(Pending(c), f)
       /\ view' = [view EXCEPT ![c] = "none"]
       /\ astray' = IF tx[c] = "none" THEN astray \ {c} ELSE astray \cup {c}
       /\ excused' = excused \cup Pending(c)

\* handleExecuteExtended: a failed block is not looked at, and an error does not
\* fail the block.  SET is answered like the rest of sessionControlTag.
Execute(c) ==
    /\ Receives(c, "extended")
    /\ \/ /\ portal[c] = "write"
          /\ used[c] < MaxWrites
          /\ used' = [used EXCEPT ![c] = @ + 1]
          /\ \/ Accepted(c, NextWrite(c))
             \/ Refused(c, NextWrite(c)) /\ ErrorOnly(c, {NextWrite(c)})
          /\ seq' = seq
       \/ /\ portal[c] = "nextval"
          /\ seq < MaxSeq
          /\ seq' = seq + 1
          /\ UNCHANGED <<used, buf, db, toldVars>>
       \/ portal[c] = "control" /\ ControlTag(c) /\ UNCHANGED <<used, buf, db, seq>>
    /\ UNCHANGED <<script, phase, tx, copying, stmt, portal, cursor, setting, subVars, panic>>

\* handleClose; Sync only answers.
CloseNamed(c) ==
    /\ Receives(c, "extended")
    /\ \/ stmt' = [stmt EXCEPT ![c] = Nil] /\ portal' = portal
       \/ portal' = [portal EXCEPT ![c] = Nil] /\ stmt' = stmt
    /\ UNCHANGED <<script, phase, txVars, copying, seq, cursor, setting, subVars, panic>>

-----------------------------------------------------------------------------
(* COPY FROM STDIN.  It runs outside c.tx, a row at a time.                *)

CopyIn(c) ==
    /\ Receives(c, "copy")
    /\ tx[c] # "failed"
    /\ used[c] < MaxWrites
    /\ phase' = [phase EXCEPT ![c] = "copyin"]
    /\ UNCHANGED <<script, txVars, copying, extVars, cursor, setting, subVars, panic>>

\* CopyDone hands the parsed rows to CopyFrom.
CopyDone(c) ==
    /\ phase[c] = "copyin"
    /\ \E n \in 1 .. MaxWrites - used[c] : copying' = [copying EXCEPT ![c] = n]
    /\ phase' = [phase EXCEPT ![c] = "loading"]
    /\ UNCHANGED <<script, txVars, extVars, cursor, setting, subVars, panic>>

\* CopyFail, an unexpected message or data that does not parse.
CopyFail(c) ==
    /\ phase[c] = "copyin"
    /\ phase' = [phase EXCEPT ![c] = "ready"]
    /\ ErrorOnly(c, {})
    /\ UNCHANGED <<script, tx, buf, db, used, told, copying, extVars, cursor, setting, subVars, panic>>

\* One row through Execute, which commits it, in a block too; a row that is refused
\* ends the COPY with an error and leaves the rows before it.
CopyRow(c) ==
    /\ phase[c] = "loading"
    /\ used' = [used EXCEPT ![c] = @ + 1]
    /\ LET rows == Sent(c) \cup {NextWrite(c)}
       IN  \/ /\ db' = db \cup {NextWrite(c)}
              /\ copying' = [copying EXCEPT ![c] = @ - 1]
              /\ IF copying[c] > 1
                 THEN Answered({NextWrite(c)}, "sent") /\ excused' = excused
                 ELSE /\ Answered(rows, IF view[c] = "none" THEN "durable" ELSE "pending")
                      /\ excused' = IF view[c] = "none" THEN excused ELSE excused \cup rows
              /\ UNCHANGED <<view, astray>>
           \/ /\ db' = db
              /\ copying' = [copying EXCEPT ![c] = 0]
              /\ Answered(rows, "gone")
              /\ view' = [view EXCEPT ![c] = Failed(@)]
              /\ astray' = IF view[c] = "open" THEN astray \cup {c} ELSE astray
              /\ excused' = excused \cup Sent(c) \cup Pending(c)
    /\ phase' = [phase EXCEPT ![c] = IF copying'[c] = 0 THEN "ready" ELSE "loading"]
    /\ UNCHANGED <<script, tx, buf, extVars, cursor, setting, subVars, panic>>

-----------------------------------------------------------------------------
(* Cursors.                                                                *)

\* Nothing recovers a panic: the process ends, for every client.
Panics(why) ==
    /\ panic' = why
    /\ phase' = [c \in Conn |-> "gone"]
    /\ tx' = [c \in Conn |-> "none"]
    /\ buf' = [c \in Conn |-> {}]
    /\ view' = [c \in Conn |-> "none"]
    /\ Answered(UNION {Pending(c) : c \in Conn}, "gone")
    /\ astray' = {}
    /\ copying' = [c \in Conn |-> 0]
    /\ cursor' = [c \in Conn |-> Nil]
    /\ subs' = <<>>
    /\ UNCHANGED <<db, used, excused>>

Declare(c) ==
    /\ Receives(c, "cursor")
    /\ cursor' = [cursor EXCEPT ![c] = [rows |-> Nil, pos |-> 0]]
    /\ UNCHANGED <<script, phase, txVars, copying, extVars, setting, subVars, panic>>

Visible(c) == db \cup (IF tx[c] = "none" THEN {} ELSE buf[c])

UpTo(rows, pos, n) == IF pos + n > rows THEN rows ELSE pos + n

\* handleFetch: the query runs at the first FETCH, in the block if there is one, and
\* again while it has found no rows (a nil slice may stand for none); FETCH ALL takes
\* what is left, as a count of all the rows does.  The slice panics when it ends
\* before it begins, which is where a negative count takes it, or past the rows.
Fetch(c) ==
    /\ Receives(c, "cursor")
    /\ cursor[c] # Nil
    /\ LET rows == IF cursor[c].rows = Nil THEN Cardinality(Visible(c)) ELSE cursor[c].rows
       IN  \E n \in Counts \cup {rows} :
               LET end == UpTo(rows, cursor[c].pos, n)
               IN  IF end < cursor[c].pos \/ end > rows
                   THEN Panics(IF n < 0 THEN "negative" ELSE "slice")
                   ELSE /\ \E r \in IF rows = 0 THEN {0, Nil} ELSE {rows} :
                               cursor' = [cursor EXCEPT ![c] = [rows |-> r, pos |-> end]]
                        /\ UNCHANGED <<phase, txVars, copying, subs, panic>>
    /\ UNCHANGED <<script, extVars, setting, notified>>

CloseCursor(c) ==
    /\ Receives(c, "cursor")
    /\ cursor' = [cursor EXCEPT ![c] = Nil]
    /\ UNCHANGED <<script, phase, txVars, copying, extVars, setting, subVars, panic>>

-----------------------------------------------------------------------------
(* LISTEN and NOTIFY.  A subscription is a Go channel: registered in       *)
(* s.listeners or not, open, removed or closed, and read by a goroutine    *)
(* of its own until it is closed and empty.                                *)

\* addListener, c.notifyChs and go drainNotifications; a second LISTEN on the
\* same channel is a second subscription.
Listen(c, n) ==
    /\ Receives(c, "listen")
    /\ Len(subs) < MaxListens
    /\ subs' = Append(subs, [conn |-> c, chan |-> n, buf |-> <<>>, registered |-> TRUE,
                             state |-> "open", running |-> TRUE])
    /\ UNCHANGED <<script, phase, txVars, copying, extVars, cursor, setting, notified, panic>>

\* removeListener and removeAllListeners: out of the registry, not closed.
Unlisten(c) ==
    /\ Receives(c, "listen")
    /\ \E ns \in {{n} : n \in Chan} \cup {Chan} :
        subs' = [i \in DOMAIN subs |->
                    IF subs[i].conn = c /\ subs[i].chan \in ns
                    THEN [subs[i] EXCEPT !.registered = FALSE] ELSE subs[i]]
    /\ UNCHANGED <<script, phase, txVars, copying, extVars, cursor, setting, notified, panic>>

\* notify: at once, even in a block that is rolled back later; a full Go channel
\* drops it, a closed one panics.
Notify(c, n) ==
    /\ Receives(c, "listen")
    /\ notified < MaxNotify
    /\ notified' = notified + 1
    /\ IF \E i \in DOMAIN subs : subs[i].registered /\ subs[i].chan = n /\ subs[i].state = "closed"
       THEN Panics("send")
       ELSE /\ subs' = [i \in DOMAIN subs |->
                           IF subs[i].registered /\ subs[i].chan = n /\ Len(subs[i].buf) < BufCap
                           THEN [subs[i] EXCEPT !.buf = Append(@, notified')] ELSE subs[i]]
            /\ UNCHANGED <<phase, txVars, copying, cursor, panic>>
    /\ UNCHANGED <<script, extVars, setting>>

\* drainNotifications: one NotificationResponse, or the end of the range loop.
Drain(i) ==
    /\ i \in DOMAIN subs
    /\ subs[i].running
    /\ \/ subs[i].buf # <<>> /\ subs' = [subs EXCEPT ![i].buf = Tail(@)]
       \/ /\ subs[i].buf = <<>> /\ subs[i].state = "closed"
          /\ subs' = [subs EXCEPT ![i].running = FALSE]
    /\ UNCHANGED <<script, phase, txVars, copying, extVars, cursor, setting, notified, panic>>

-----------------------------------------------------------------------------
(* The life of a connection.                                               *)

\* startup: the handshake ends in the loop, or the connection is closed.
Startup(c) ==
    /\ phase[c] = "startup"
    /\ \E p \in {"ready", "gone"} : phase' = [phase EXCEPT ![c] = p]
    /\ UNCHANGED <<script, txVars, copying, extVars, cursor, setting, subVars, panic>>

\* Terminate or a read error ends the loop; handleConn rolls the block back.  A
\* COPY that is inserting rows finishes first.
Leave(c) ==
    /\ phase[c] \in {"ready", "copyin"}
    /\ phase' = [phase EXCEPT ![c] = "leaving"]
    /\ Answered(Pending(c), "gone")
    /\ Ended(c)
    /\ UNCHANGED <<script, db, used, copying, extVars, cursor, setting, subVars, panic>>

\* Variant: only the channels still registered are closed.
UnclosedRegistered(c) ==
    {i \in DOMAIN subs : subs[i].conn = c /\ subs[i].state # "closed"
                            /\ (subs[i].registered \/ subs[i].state = "removed")}

\* c.notifyChs keeps every channel the connection ever made, UNLISTENed or not.
Unclosed(c) == {i \in DOMAIN subs : subs[i].conn = c /\ subs[i].state # "closed"}

\* Variant: the channel is closed, then taken out of the registry.
CleanUpSwapped(c) ==
    /\ phase[c] = "leaving"
    /\ IF Unclosed(c) = {}
       THEN phase' = [phase EXCEPT ![c] = "gone"] /\ subs' = subs
       ELSE /\ LET i == CHOOSE i \in Unclosed(c) : \A j \in Unclosed(c) : i <= j
               IN  subs' = [subs EXCEPT ![i] = [@ EXCEPT !.state = "closed"]]
            /\ phase' = phase
    /\ UNCHANGED <<script, txVars, copying, extVars, cursor, setting, notified, panic>>

\* The loop over c.notifyChs: removeListenerCh, then close, for each in turn.
CleanUp(c) ==
    /\ phase[c] = "leaving"
    /\ IF Unclosed(c) = {}
       THEN phase' = [phase EXCEPT ![c] = "gone"] /\ subs' = subs
       ELSE /\ LET i == CHOOSE i \in Unclosed(c) : \A j \in Unclosed(c) : i <= j
               IN  subs' = [subs EXCEPT ![i] =
                               IF @.state = "open"
                               THEN [@ EXCEPT !.registered = FALSE, !.state = "removed"]
                               ELSE [@ EXCEPT !.state = "closed"]]
            /\ phase' = phase
    /\ UNCHANGED <<script, txVars, copying, extVars, cursor, setting, notified, panic>>

-----------------------------------------------------------------------------
ConnInit ==
    /\ script \in Scripts
    /\ phase = [c \in Conn |-> IF script[c] = {} THEN "gone" ELSE "startup"]
    /\ tx = [c \in Conn |-> "none"]
    /\ buf = [c \in Conn |-> {}]
    /\ db = {}
    /\ used = [c \in Conn |-> 0]
    /\ view = [c \in Conn |-> "none"]
    /\ told = [w \in Write |-> "unsent"]
    /\ astray = {}
    /\ excused = {}
    /\ copying = [c \in Conn |-> 0]
    /\ stmt = [c \in Conn |-> Nil]
    /\ portal = [c \in Conn |-> Nil]
    /\ seq = 0
    /\ cursor = [c \in Conn |-> Nil]
    /\ setting = [c \in Conn |-> "unset"]
    /\ subs = <<>>
    /\ notified = 0
    /\ panic = "no"

ConnNext ==
    \/ \E c \in Conn :
        \/ Begin(c) \/ Commit(c) \/ Rollback(c) \/ RollbackTo(c)
        \/ Acknowledged(c) \/ ControlError(c) \/ SetGUC(c)
        \/ SimpleQuery(c) \/ Aborted(c)
        \/ Parse(c) \/ Bind(c) \/ Describe(c) \/ Execute(c) \/ CloseNamed(c)
        \/ CopyIn(c) \/ CopyDone(c) \/ CopyFail(c) \/ CopyRow(c)
        \/ Declare(c) \/ Fetch(c) \/ CloseCursor(c)
        \/ Unlisten(c)
        \/ \E n \in Chan : Listen(c, n) \/ Notify(c, n)
        \/ Startup(c) \/ Leave(c) \/ CleanUp(c)
    \/ \E i \in Sub : Drain(i)

\* A runnable goroutine is run: a connection's clean-up has no blocking call, and
\* a drain only waits for its own client to read.
ConnFairness ==
    /\ \A c \in Conn : WF_connVars(CleanUp(c)) /\ WF_connVars(CopyRow(c))
    /\ \A i \in Sub : WF_connVars(Drain(i))

-----------------------------------------------------------------------------
(* What a client is told is true: a write that the answers say is          *)
(* committed, by its statement's answer, by COPY n or by COMMIT of its     *)
(* block, is in the database; one that is in an open or failed block, was  *)
(* refused, rolled back, refused at COMMIT or cut off by a disconnect is   *)
(* not.  The excused writes are those that the code answers wrongly:        *)
(* of a block begun or ended by the extended protocol (sessionControlTag); *)
(* of a block in which an error was answered and txAborted not set         *)
(* (handleExecuteExtended, handleCopy, handleControl); after a savepoint   *)
(* rolled back to; rows of a COPY in a block, or of one that ends in an    *)
(* error.  All others may share a block or a connection with them.         *)
PromisesKept ==
    \A w \in Write \ excused :
        /\ told[w] = "durable" => w \in db
        /\ told[w] \in {"unsent", "pending", "gone"} => w \notin db

(* No handler ends the server for every client, except a FETCH with a      *)
(* negative count, which handleFetch does not look at: no NOTIFY sends to  *)
(* a channel that handleConn has closed, and no other FETCH slices beyond  *)
(* the cursor's position and rows, however often the cursor is declared    *)
(* again or its query is run again.                                        *)
NoPanic == panic \in {"no", "negative"}

(* No goroutine outlives its connection: once a connection is gone, every  *)
(* drainNotifications it ever started returns, those of channels it has    *)
(* UNLISTENed included (handleConn closes c.notifyChs).                    *)
DrainersExit ==
    \A c \in Conn :
        phase[c] = "leaving" ~> (\A i \in DOMAIN subs : subs[i].conn = c => ~subs[i].running)
=============================================================================
